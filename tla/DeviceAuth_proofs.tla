--------------------------- MODULE DeviceAuth_proofs ---------------------------
(***************************************************************************)
(* DeviceAuth is type correct and implements DeviceContract: whatever      *)
(* number of requests interleave, a device has one live session, a revoked *)
(* one has none, a code pairs once, only a live device becomes an actor,   *)
(* and the projects of an account are those of one assignment.             *)
(***************************************************************************)
EXTENDS DeviceAuth, FiniteSetTheorems, TLAPS

\* The requests of a device whose token or id names a device row.
Tokens == {"refresh", "authenticate"}
Named == Tokens \cup {"revoke"}

\* The steps at which each operation can be.
StepsOf(op) ==
    CASE op = "create"                    -> {"owner", "project", "commit"}
      [] op = "pair"                      -> {"code", "owner", "project", "commit"}
      [] op = "refresh"                   -> {"locate", "owner", "device", "session", "commit"}
      [] op \in {"authenticate", "revoke"} -> {"owner", "device", "session", "commit"}
      [] op = "staff"                     -> {"project", "commit"}
      [] op = "replace"                   -> {"member", "project", "delete", "commit"}

\* A request is at a step of its operation and names rows that exist.
NamesRows(r) ==
    /\ req[r].at \in StepsOf(req[r].op)
    /\ req[r].op = "pair" => req[r].code \in Codes /\ code[req[r].code] # "none"
    /\ req[r].op \in Tokens => req[r].session \in Sessions /\ sess[req[r].session] # None
    /\ req[r].op \in Tokens /\ req[r].at # "locate" =>
          req[r].device = sess[req[r].session].device
    /\ req[r].op = "revoke" => req[r].device \in Devices /\ device[req[r].device] # "none"
    /\ req[r].op \in MemberOperations => req[r].member \in Members
    /\ req[r].op = "replace" => member[req[r].member] # None

\* The OWNER chose its projects, and when it locks projects some are left.
NamesProjects(r) ==
    /\ req[r].projects \in Selections \cup {{}}
    /\ req[r].op = "create" => req[r].projects \in Selections
    /\ req[r].at = "project" => req[r].order # <<>>

\* Past the OWNER's row a device request is alone.
PastOwner(r) ==
    req[r].op \in DeviceOperations /\ req[r].at \in {"project", "device", "session", "commit"}

HoldsOwner(r) == PastOwner(r) => lock[Owner] = r

\* A pairing has its code to itself.
HoldsCode(r) ==
    req[r].op = "pair" /\ req[r].at # "code" =>
        /\ lock[req[r].code] = r
        /\ code[req[r].code] = "unused"
        /\ req[r].at # "owner" => req[r].projects = codeProjects[req[r].code]

\* What a request has read again under its locks is still so.
ReadsTruth(r) ==
    /\ req[r].op \in Named /\ req[r].at \in {"session", "commit"} =>
          req[r].seenDevice = device[req[r].device]
    /\ req[r].op \in Tokens /\ req[r].at = "commit" =>
          req[r].seenSession = sess[req[r].session]

\* An assignment has its account to itself, and what it deleted is all there was.
HoldsMember(r) ==
    req[r].op = "replace" /\ req[r].at # "member" =>
        /\ lock[req[r].member] = r
        /\ req[r].at = "commit" => req[r].seenProjects = member[req[r].member]

RequestInv(r) ==
    req[r] # None =>
        /\ NamesRows(r) /\ NamesProjects(r)
        /\ HoldsOwner(r) /\ HoldsCode(r) /\ ReadsTruth(r) /\ HoldsMember(r)

\* A session belongs to a device that was paired, and a code to a selection.
TableInv ==
    /\ \A s \in Sessions : sess[s] # None => device[sess[s].device] # "none"
    /\ \A c \in Codes : /\ codeProjects[c] \in Selections \cup {{}}
                        /\ code[c] # "none" => codeProjects[c] \in Selections
    /\ OneLiveSession /\ RevokedDeviceHasNoSession /\ CodePairsOnce

StateInv == TableInv /\ \A r \in Requests : RequestInv(r)

IInv == TypeOK /\ StateInv

-----------------------------------------------------------------------------

\* An order of a selection of projects is a sequence of them, and not empty.
LEMMA OrderType ==
    ASSUME NEW P \in Selections \cup {{}}, NEW o \in Orders(P)
    PROVE  o \in Seq(Projects) /\ (P # {} => o # <<>>)
<1>1. IsFiniteSet(P) /\ P \subseteq Projects
  BY DeviceAssumptions, FS_EmptySet DEF Projects
<1>2. Cardinality(P) \in Nat /\ (P # {} => Cardinality(P) # 0)
  BY <1>1, FS_CardinalityType, FS_EmptySet
<1>3. o \in [1 .. Cardinality(P) -> P]
  BY DEF Orders
<1>4. o \in Seq(Projects)
  BY <1>1, <1>2, <1>3
<1>5. Len(o) = Cardinality(P)
  BY <1>2, <1>3
<1> QED BY <1>2, <1>4, <1>5

\* The initial state satisfies the inductive invariant.
LEMMA InitInv == Init => IInv
<1> SUFFICES ASSUME Init PROVE IInv
  OBVIOUS
<1> USE DeviceAssumptions DEF Init
<1>1. TypeOK
  <2>1. /\ code \in [Codes -> CodeState]
        /\ device \in [Devices -> DeviceState]
        /\ sess \in [Sessions -> Session \cup {None}]
    BY DEF CodeState, DeviceState
  <2>2. /\ codeProjects \in [Codes -> SUBSET Projects]
        /\ deviceProjects \in [Devices -> SUBSET Projects]
    OBVIOUS
  <2>3. member \in [Members -> (SUBSET Projects) \cup {None}]
    BY Zenon
  <2>4. /\ lock \in [Rows -> Requests \cup {None}]
        /\ req \in [Requests -> Request \cup {None}]
    OBVIOUS
  <2> QED BY <2>1, <2>2, <2>3, <2>4 DEF TypeOK
<1>2. \A r \in Requests : RequestInv(r)
  BY DEF RequestInv
<1>3. TableInv
  BY DEF TableInv, OneLiveSession, RevokedDeviceHasNoSession, CodePairsOnce, LiveSessions
<1> QED BY <1>1, <1>2, <1>3 DEF IInv, StateInv

\* The begin of a request keeps the types.
LEMMA BeginType ==
    ASSUME IInv, NEW r \in Requests, BeginRequest(r)
    PROVE  TypeOK'
<1>0. TypeOK
  BY DEF IInv, StateInv
<1>a. NoRequest \in Request
  BY DeviceAssumptions DEF NoRequest, Request, Operations, DeviceOperations
<1>b. ASSUME NEW request \in Request, Begin(r, request) PROVE TypeOK'
  BY <1>0, <1>b DEF Begin, TypeOK, tables, deviceTables
<1>1. CASE CreatePairingCode(r)
  <2>1. PICK P \in Selections : Begin(r, [NoRequest EXCEPT !.projects = P])
    BY <1>1 DEF CreatePairingCode
  <2>2. [NoRequest EXCEPT !.projects = P] \in Request
    BY <1>a DEF Request, Projects
  <2> QED BY <1>b, <2>1, <2>2
<1>2. ASSUME NEW c \in Codes, Pair(r, c) PROVE TypeOK'
  <2>1. [NoRequest EXCEPT !.op = "pair", !.at = "code", !.code = c] \in Request
    BY <1>a DEF Request, Operations, DeviceOperations
  <2> QED BY <1>b, <1>2, <2>1 DEF Pair
<1>3. ASSUME NEW s \in Sessions, Refresh(r, s) PROVE TypeOK'
  <2>1. [NoRequest EXCEPT !.op = "refresh", !.at = "locate", !.session = s] \in Request
    BY <1>a DEF Request, Operations, DeviceOperations
  <2> QED BY <1>b, <1>3, <2>1 DEF Refresh
<1>4. ASSUME NEW s \in Sessions, Authenticate(r, s) PROVE TypeOK'
  <2>1. sess[s].device \in Devices
    BY <1>0, <1>4 DEF Authenticate, TypeOK, Session
  <2>2. [NoRequest EXCEPT !.op = "authenticate", !.device = sess[s].device, !.session = s] \in Request
    BY <1>a, <2>1 DEF Request, Operations, DeviceOperations
  <2> QED BY <1>b, <1>4, <2>2 DEF Authenticate
<1>5. ASSUME NEW d \in Devices, Revoke(r, d) PROVE TypeOK'
  <2>1. [NoRequest EXCEPT !.op = "revoke", !.device = d] \in Request
    BY <1>a DEF Request, Operations, DeviceOperations
  <2> QED BY <1>b, <1>5, <2>1 DEF Revoke
<1>6. ASSUME NEW u \in Members, CreateStaff(r, u) PROVE TypeOK'
  <2>1. PICK P \in Selections \cup {{}} : \E o \in SortedOrder(P) :
          Begin(r, [NoRequest EXCEPT !.op = "staff", !.member = u, !.projects = P, !.order = o,
                                     !.at = IF P = {} THEN "commit" ELSE "project"])
    BY <1>6 DEF CreateStaff
  <2>2. PICK o \in SortedOrder(P), a \in {"commit", "project"} :
          Begin(r, [NoRequest EXCEPT !.op = "staff", !.member = u, !.projects = P, !.order = o,
                                     !.at = a])
    BY <2>1
  <2>3. o \in Seq(Projects) /\ P \in SUBSET Projects
    BY OrderType DEF SortedOrder, Projects
  <2>4. [NoRequest EXCEPT !.op = "staff", !.member = u, !.projects = P, !.order = o,
                          !.at = a] \in Request
    BY <1>a, <2>3 DEF Request, Operations, MemberOperations
  <2> QED BY <1>b, <2>2, <2>4
<1>7. ASSUME NEW u \in Members, ReplaceProjects(r, u) PROVE TypeOK'
  <2>1. PICK P \in Selections \cup {{}} :
          Begin(r, [NoRequest EXCEPT !.op = "replace", !.at = "member", !.member = u, !.projects = P])
    BY <1>7 DEF ReplaceProjects
  <2>2. [NoRequest EXCEPT !.op = "replace", !.at = "member", !.member = u, !.projects = P] \in Request
    BY <1>a DEF Request, Operations, MemberOperations, Projects
  <2> QED BY <1>b, <2>1, <2>2
<1> QED BY <1>1, <1>2, <1>3, <1>4, <1>5, <1>6, <1>7 DEF BeginRequest

\* A step of a request keeps the types.
LEMMA StepType ==
    ASSUME IInv, NEW r \in Requests, Step(r) \/ RequestFail(r)
    PROVE  TypeOK'
<1>0. TypeOK /\ TableInv /\ (req[r] # None => NamesRows(r) /\ NamesProjects(r))
  BY DEF IInv, StateInv, RequestInv
<1> DEFINE LockType == lock' \in [Rows -> Requests \cup {None}]
           ReqType == req' \in [Requests -> Request \cup {None}]
<1>a. ASSUME NEW x, Locked(r, x), ReqType PROVE TypeOK'
  <2>1. LockType
    BY <1>0, <1>a DEF Locked, TypeOK
  <2> QED BY <1>0, <1>a, <2>1 DEF Locked, TypeOK, tables, deviceTables
<1>b. ASSUME Release(r) PROVE LockType /\ ReqType
  BY <1>0, <1>b DEF Release, Unlock, TypeOK
<1>c. ASSUME Rollback(r) PROVE TypeOK'
  BY <1>0, <1>b, <1>c DEF Rollback, TypeOK, tables, deviceTables
<1>d. req[r] # None => req[r] \in Request
  BY <1>0 DEF TypeOK
<1>e. ASSUME NEW op \in Operations, NEW label \in StepsOf(op), label \notin {"commit", "delete"}
      PROVE  LockAfter(op, label) \in {"owner", "project", "device", "session", "delete", "commit"}
  BY <1>e DEF LockAfter, StepsOf, Operations, DeviceOperations, MemberOperations
<1>f. ASSUME req[r] # None, req[r].at \notin {"commit", "delete"}
      PROVE  Following(r) \in {"owner", "project", "device", "session", "delete", "commit"}
  BY <1>0, <1>d, <1>e, <1>f DEF Following, NamesRows, Request
<1>1. CASE Locate(r)
  <2>1. /\ req[r].session \in Sessions /\ sess[req[r].session] \in Session
        /\ sess[req[r].session].device \in Devices
    BY <1>0, <1>1 DEF Locate, At, NamesRows, Tokens, TypeOK, Session
  <2>2. device[sess[req[r].session].device] \in DeviceState
    BY <1>0, <2>1 DEF TypeOK
  <2>3. ReqType
    BY <1>0, <1>1, <1>d, <1>f, <2>1, <2>2 DEF Locate, At, TypeOK, Request
  <2> QED BY <1>0, <1>1, <2>3 DEF Locate, TypeOK, tables, deviceTables
<1>2. CASE LockCode(r)
  <2>1. CASE Locked(r, req[r].code) /\ req' = [req EXCEPT ![r].at = Following(r)]
    <3>1. ReqType
      <4>1. req[r] \in Request /\ req[r].at \notin {"commit", "delete"}
        BY <1>2, <1>d DEF LockCode, At
      <4>2. Following(r) \in {"owner", "project", "device", "session", "delete", "commit"}
        BY <1>2, <1>f, <4>1 DEF LockCode, At
      <4>3. [req[r] EXCEPT !.at = Following(r)] \in Request
        BY <2>1, <4>1, <4>2 DEF Request
      <4> QED BY <1>0, <1>2, <2>1, <4>3 DEF LockCode, TypeOK
    <3> QED BY <1>a, <2>1, <3>1
  <2> QED BY <1>2, <1>c, <2>1 DEF LockCode
<1>3. CASE LockOwner(r)
  <2>1. SelectedProjects(r) \in Selections \cup {{}}
    BY <1>0, <1>3 DEF LockOwner, At, SelectedProjects, NamesProjects, TableInv, NamesRows
  <2>2. PICK o \in Orders(SelectedProjects(r)) :
          req' = [req EXCEPT ![r] = [@ EXCEPT !.at = Following(r), !.order = o,
                                              !.projects = SelectedProjects(r)]]
    BY <1>3 DEF LockOwner
  <2>3. o \in Seq(Projects) /\ SelectedProjects(r) \in SUBSET Projects
    BY <2>1, OrderType DEF Projects
  <2>4. ReqType
    <3>1. req[r] \in Request /\ req[r].at \notin {"commit", "delete"}
      BY <1>3, <1>d DEF LockOwner, At
    <3>2. Following(r) \in {"owner", "project", "device", "session", "delete", "commit"}
      BY <1>3, <1>f, <3>1 DEF LockOwner, At
    <3>3. [req[r] EXCEPT !.at = Following(r), !.order = o, !.projects = SelectedProjects(r)] \in Request
      BY <2>2, <2>3, <3>1, <3>2 DEF Request
    <3> QED BY <1>0, <1>3, <2>2, <2>3, <3>3 DEF LockOwner, TypeOK
  <2> QED BY <1>3, <1>a, <2>4 DEF LockOwner
<1>4. CASE LockDevice(r)
  <2>1. device[req[r].device] \in DeviceState
    BY <1>0, <1>4, <1>d DEF LockDevice, At, NamesRows, TypeOK, Session, StepsOf, DeviceOperations, Tokens
  <2>2. ReqType
    <3>1. req[r] \in Request /\ req[r].at \notin {"commit", "delete"}
      BY <1>4, <1>d DEF LockDevice, At
    <3>2. Following(r) \in {"owner", "project", "device", "session", "delete", "commit"}
      BY <1>4, <1>f, <3>1 DEF LockDevice, At
    <3>3. [req[r] EXCEPT !.seenDevice = device[req[r].device], !.at = Following(r)] \in Request
      BY <2>1, <3>1, <3>2 DEF Request
    <3> QED BY <1>0, <1>4, <3>3 DEF LockDevice, TypeOK, Reread
  <2> QED BY <1>4, <1>a, <2>2 DEF LockDevice
<1>5. CASE LockSession(r)
  <2>1. sess[req[r].session] \in Session
    BY <1>0, <1>5 DEF LockSession, At, NamesRows, TypeOK, Tokens
  <2>2. ReqType
    <3>1. req[r] \in Request /\ req[r].at \notin {"commit", "delete"}
      BY <1>5, <1>d DEF LockSession, At
    <3>2. Following(r) \in {"owner", "project", "device", "session", "delete", "commit"}
      BY <1>5, <1>f, <3>1 DEF LockSession, At
    <3>3. [req[r] EXCEPT !.seenSession = sess[req[r].session], !.at = Following(r)] \in Request
      BY <2>1, <3>1, <3>2 DEF Request
    <3> QED BY <1>0, <1>5, <3>3 DEF LockSession, TypeOK, Reread
  <2> QED BY <1>5, <1>a, <2>2 DEF LockSession
<1>6. CASE LockSessions(r)
  <2>1. CASE /\ lock' = [x \in Rows |-> IF x \in SessionsOf(req[r].device) THEN r ELSE lock[x]]
             /\ req' = [req EXCEPT ![r].at = Following(r)]
             /\ UNCHANGED tables
    <3>1. ReqType
      <4>1. req[r] \in Request /\ req[r].at \notin {"commit", "delete"}
        BY <1>6, <1>d DEF LockSessions, At
      <4>2. Following(r) \in {"owner", "project", "device", "session", "delete", "commit"}
        BY <1>6, <1>f, <4>1 DEF LockSessions, At
      <4>3. [req[r] EXCEPT !.at = Following(r)] \in Request
        BY <2>1, <4>1, <4>2 DEF Request
      <4> QED BY <1>0, <1>6, <2>1, <4>3 DEF LockSessions, TypeOK
    <3>2. LockType
      BY <1>0, <2>1 DEF TypeOK
    <3> QED BY <1>0, <2>1, <3>1, <3>2 DEF TypeOK, tables, deviceTables
  <2> QED BY <1>6, <1>c, <2>1 DEF LockSessions
<1>7. CASE LockMember(r)
  <2>1. PICK o \in SortedOrder(req[r].projects), a \in {"delete", Following(r)} :
          req' = [req EXCEPT ![r] = [@ EXCEPT !.at = a, !.order = o]]
    BY <1>7 DEF LockMember
  <2>2. o \in Seq(Projects)
    BY <1>0, <1>7, OrderType DEF LockMember, At, NamesProjects, TableInv, SortedOrder
  <2>3. ReqType
    <3>1. req[r] \in Request /\ req[r].at \notin {"commit", "delete"}
      BY <1>7, <1>d DEF LockMember, At
    <3>2. Following(r) \in {"owner", "project", "device", "session", "delete", "commit"}
      BY <1>7, <1>f, <3>1 DEF LockMember, At
    <3>3. [req[r] EXCEPT !.at = a, !.order = o] \in Request
      BY <2>1, <2>2, <3>1, <3>2 DEF Request
    <3> QED BY <1>0, <1>7, <2>1, <2>2, <3>3 DEF LockMember, TypeOK
  <2> QED BY <1>7, <1>a, <2>3 DEF LockMember
<1>8. CASE LockProject(r)
  <2>1. Tail(req[r].order) \in Seq(Projects)
    BY <1>0, <1>8, <1>d DEF LockProject, At, NamesProjects, TableInv, Request
  <2>2. PICK a \in {"project", Following(r)} :
          req' = [req EXCEPT ![r] = [@ EXCEPT !.order = Tail(req[r].order), !.at = a]]
    BY <1>8 DEF LockProject, At
  <2>3. ReqType
    <3>1. req[r] \in Request /\ req[r].at \notin {"commit", "delete"}
      BY <1>8, <1>d DEF LockProject, At
    <3>2. Following(r) \in {"owner", "project", "device", "session", "delete", "commit"}
      BY <1>8, <1>f, <3>1 DEF LockProject, At
    <3>3. [req[r] EXCEPT !.order = Tail(req[r].order), !.at = a] \in Request
      BY <2>1, <2>2, <3>1, <3>2 DEF Request
    <3> QED BY <1>0, <1>8, <2>1, <2>2, <3>3 DEF LockProject, TypeOK
  <2> QED BY <1>8, <1>a, <2>3 DEF LockProject
<1>9. CASE DeleteMemberships(r)
  <2>1. member[req[r].member] \in SUBSET Projects
    <3>1. req[r].member \in Members /\ member[req[r].member] # None
      BY <1>0, <1>9 DEF DeleteMemberships, At, NamesRows, MemberOperations
    <3> QED BY <1>0, <3>1 DEF TypeOK
  <2>2. ReqType
    BY <1>0, <1>9, <1>d, <2>1 DEF DeleteMemberships, At, TypeOK, Request
  <2> QED BY <1>0, <1>9, <2>2 DEF DeleteMemberships, TypeOK, tables, deviceTables
<1>10. CASE CommitCode(r)
  <2>1. req[r].projects \in SUBSET Projects
    BY <1>10, <1>d DEF CommitCode, At, Request
  <2> QED BY <1>0, <1>10, <1>b, <2>1 DEF CommitCode, UnusedCodes, TypeOK, CodeState
<1>11. CASE CommitPair(r)
  <2>1. req[r].projects \in SUBSET Projects
    BY <1>11, <1>d DEF CommitPair, At, Request
  <2>2. PICK d \in UnusedDevices, s \in UnusedSessions :
          /\ code' = [code EXCEPT ![req[r].code] = d]
          /\ device' = [device EXCEPT ![d] = "ACTIVE"]
          /\ deviceProjects' = [deviceProjects EXCEPT ![d] = req[r].projects]
          /\ sess' = [sess EXCEPT ![s] = NewSession(d)]
    BY <1>11 DEF CommitPair
  <2>3. d \in Devices /\ NewSession(d) \in Session
    BY DEF UnusedDevices, NewSession, Session
  <2> QED BY <1>0, <1>11, <1>b, <2>1, <2>2, <2>3
          DEF CommitPair, TypeOK, CodeState, DeviceState
<1>12. CASE CommitRefresh(r)
  <2>1. CASE Rollback(r)
    BY <1>c, <2>1
  <2>2. CASE ~Refused(r)
    <3>1. PICK s \in UnusedSessions :
            sess' = [sess EXCEPT ![req[r].session].revoked = TRUE,
                                 ![s] = NewSession(req[r].device)]
      BY <1>12, <2>2 DEF CommitRefresh
    <3>2. /\ req[r].session \in Sessions /\ sess[req[r].session] \in Session
          /\ req[r].device \in Devices
      BY <1>0, <1>12 DEF CommitRefresh, At, NamesRows, Tokens, TypeOK, Session
    <3>3. NewSession(req[r].device) \in Session
      BY <3>2 DEF NewSession, Session
    <3>4. sess' \in [Sessions -> Session \cup {None}]
      BY <1>0, <3>1, <3>2, <3>3 DEF TypeOK, Session
    <3> QED BY <1>0, <1>12, <1>b, <2>2, <3>4 DEF CommitRefresh, TypeOK
  <2> QED BY <1>12, <2>1, <2>2 DEF CommitRefresh
<1>13. CASE CommitAuthenticate(r)
  BY <1>13, <1>c DEF CommitAuthenticate
<1>14. CASE CommitRevoke(r)
  <2>1. \A s \in SessionsOf(req[r].device) : [sess[s] EXCEPT !.revoked = TRUE] \in Session
    BY <1>0 DEF SessionsOf, TypeOK, Session
  <2>2. sess' \in [Sessions -> Session \cup {None}]
    BY <1>0, <1>14, <2>1 DEF CommitRevoke, TypeOK
  <2> QED BY <1>0, <1>14, <1>b, <2>2 DEF CommitRevoke, TypeOK, DeviceState
<1>15. CASE CommitStaff(r)
  <2>1. CASE Rollback(r)
    BY <1>c, <2>1
  <2>2. CASE member[req[r].member] = None
    <3>1. req[r].projects \in SUBSET Projects
      BY <1>15, <1>d DEF CommitStaff, At, Request
    <3> QED BY <1>0, <1>15, <1>b, <2>2, <3>1 DEF CommitStaff, TypeOK, deviceTables
  <2> QED BY <1>15, <2>1, <2>2 DEF CommitStaff
<1>16. CASE CommitReplace(r)
  <2>1. req[r].projects \in SUBSET Projects /\ member[req[r].member] \in SUBSET Projects
    <3>1. req[r].member \in Members /\ member[req[r].member] # None
      BY <1>0, <1>16 DEF CommitReplace, At, NamesRows, MemberOperations
    <3>2. req[r].projects \in SUBSET Projects
      BY <1>16, <1>d DEF CommitReplace, At, Request
    <3> QED BY <1>0, <3>1, <3>2 DEF TypeOK
  <2> QED BY <1>0, <1>16, <1>b, <2>1 DEF CommitReplace, TypeOK, deviceTables
<1>17. CASE RequestFail(r)
  BY <1>17, <1>c DEF RequestFail
<1> QED
  BY <1>1, <1>2, <1>3, <1>4, <1>5, <1>6, <1>7, <1>8, <1>9, <1>10, <1>11, <1>12, <1>13,
     <1>14, <1>15, <1>16, <1>17 DEF Step

-----------------------------------------------------------------------------

\* A request that is left alone keeps its invariant while the tables stay.
LEMMA OthersKept ==
    ASSUME TypeOK, UNCHANGED tables, NEW q \in Requests, RequestInv(q), req'[q] = req[q],
           \A x \in Rows : lock[x] = q => lock'[x] = q
    PROVE  RequestInv(q)'
  BY DEF RequestInv, NamesRows, NamesProjects, HoldsOwner, PastOwner, HoldsCode, ReadsTruth,
         HoldsMember, Rows, tables, deviceTables, MemberOperations

\* The end of a transaction leaves the others and their locks alone.
LEMMA ReleaseKept ==
    ASSUME TypeOK, NEW r \in Requests, Release(r)
    PROVE  /\ req'[r] = None
           /\ \A q \in Requests : q # r => req'[q] = req[q]
           /\ \A q \in Requests, x \in Rows : q # r /\ lock[x] = q => lock'[x] = q
  BY DEF TypeOK, Release, Unlock

\* A request begins.
LEMMA BeginState ==
    ASSUME IInv, NEW r \in Requests, BeginRequest(r)
    PROVE  StateInv'
<1>0. TypeOK /\ StateInv
  BY DEF IInv
<1>a. ASSUME NEW request, Begin(r, request), RequestInv(r)' PROVE StateInv'
  <2>1. UNCHANGED tables /\ UNCHANGED lock /\ \A q \in Requests \ {r} : req'[q] = req[q]
    BY <1>0, <1>a DEF Begin, TypeOK
  <2>2. \A q \in Requests : RequestInv(q)'
    BY <1>0, <1>a, <2>1, OthersKept DEF StateInv
  <2>3. TableInv'
    BY <1>0, <2>1 DEF StateInv, TableInv, OneLiveSession, RevokedDeviceHasNoSession,
          CodePairsOnce, LiveSessions, tables, deviceTables
  <2> QED BY <2>2, <2>3 DEF StateInv
<1>b. ASSUME NEW request, Begin(r, request) PROVE UNCHANGED tables /\ req'[r] = request
  BY <1>0, <1>b DEF Begin, TypeOK
<1> USE DEF RequestInv, NamesRows, NamesProjects, HoldsOwner, PastOwner, HoldsCode, ReadsTruth,
            HoldsMember, StepsOf, Tokens, Named, MemberOperations, DeviceOperations
<1>1. CASE CreatePairingCode(r)
  <2>1. PICK P \in Selections : Begin(r, [NoRequest EXCEPT !.projects = P])
    BY <1>1 DEF CreatePairingCode
  <2>f. req'[r].op = "create" /\ req'[r].at = "owner" /\ req'[r].projects = P
    BY <1>b, <2>1 DEF NoRequest
  <2>2. RequestInv(r)'
    BY <2>f
  <2> QED BY <1>a, <2>1, <2>2
<1>2. ASSUME NEW c \in Codes, Pair(r, c) PROVE StateInv'
  <2>d. Begin(r, [NoRequest EXCEPT !.op = "pair", !.at = "code", !.code = c]) /\ code[c] # "none"
    BY <1>2 DEF Pair
  <2>e. UNCHANGED tables /\ req'[r] = [NoRequest EXCEPT !.op = "pair", !.at = "code", !.code = c]
    BY <1>b, <2>d
  <2>f. /\ req'[r].op = "pair" /\ req'[r].at = "code" /\ req'[r].code = c
        /\ req'[r].projects = {} /\ code'[c] # "none"
    BY <2>d, <2>e DEF NoRequest, tables, deviceTables
  <2>1. RequestInv(r)'
    BY <2>f
  <2> QED BY <1>a, <1>2, <2>1 DEF Pair
<1>3. ASSUME NEW s \in Sessions, Refresh(r, s) PROVE StateInv'
  <2>d. Begin(r, [NoRequest EXCEPT !.op = "refresh", !.at = "locate", !.session = s]) /\ sess[s] # None
    BY <1>3 DEF Refresh
  <2>e. UNCHANGED tables /\ req'[r] = [NoRequest EXCEPT !.op = "refresh", !.at = "locate", !.session = s]
    BY <1>b, <2>d
  <2>f. /\ req'[r].op = "refresh" /\ req'[r].at = "locate" /\ req'[r].session = s
        /\ req'[r].projects = {} /\ sess'[s] # None
    BY <2>d, <2>e DEF NoRequest, tables, deviceTables
  <2>1. RequestInv(r)'
    BY <2>f
  <2> QED BY <1>a, <1>3, <2>1 DEF Refresh
<1>4. ASSUME NEW s \in Sessions, Authenticate(r, s) PROVE StateInv'
  <2>d. Begin(r, [NoRequest EXCEPT !.op = "authenticate", !.device = sess[s].device, !.session = s]) /\ sess[s] # None
    BY <1>4 DEF Authenticate
  <2>e. UNCHANGED tables /\ req'[r] = [NoRequest EXCEPT !.op = "authenticate", !.device = sess[s].device, !.session = s]
    BY <1>b, <2>d
  <2>f. /\ req'[r].op = "authenticate" /\ req'[r].at = "owner" /\ req'[r].session = s
        /\ req'[r].projects = {} /\ sess'[s] # None /\ req'[r].device = sess'[s].device
    BY <2>d, <2>e DEF NoRequest, tables, deviceTables
  <2>1. RequestInv(r)'
    BY <2>f
  <2> QED BY <1>a, <1>4, <2>1 DEF Authenticate
<1>5. ASSUME NEW d \in Devices, Revoke(r, d) PROVE StateInv'
  <2>d. Begin(r, [NoRequest EXCEPT !.op = "revoke", !.device = d]) /\ device[d] # "none"
    BY <1>5 DEF Revoke
  <2>e. UNCHANGED tables /\ req'[r] = [NoRequest EXCEPT !.op = "revoke", !.device = d]
    BY <1>b, <2>d
  <2>f. /\ req'[r].op = "revoke" /\ req'[r].at = "owner" /\ req'[r].device = d
        /\ req'[r].projects = {} /\ device'[d] # "none"
    BY <2>d, <2>e DEF NoRequest, tables, deviceTables
  <2>1. RequestInv(r)'
    BY <2>f
  <2> QED BY <1>a, <1>5, <2>1 DEF Revoke
<1>6. ASSUME NEW u \in Members, CreateStaff(r, u) PROVE StateInv'
  <2>1. PICK P \in Selections \cup {{}} : \E o \in SortedOrder(P) :
          Begin(r, [NoRequest EXCEPT !.op = "staff", !.member = u, !.projects = P, !.order = o,
                                     !.at = IF P = {} THEN "commit" ELSE "project"])
    BY <1>6 DEF CreateStaff
  <2>2. PICK o \in SortedOrder(P), a \in {"commit", "project"} :
          /\ Begin(r, [NoRequest EXCEPT !.op = "staff", !.member = u, !.projects = P, !.order = o,
                                        !.at = a])
          /\ a = "project" => P # {}
    BY <2>1
  <2>3. P # {} => o # <<>>
    BY OrderType DEF SortedOrder
  <2>e. req'[r] = [NoRequest EXCEPT !.op = "staff", !.member = u, !.projects = P, !.order = o,
                                    !.at = a]
    BY <1>b, <2>2
  <2>f. /\ req'[r].op = "staff" /\ req'[r].at = a /\ req'[r].member = u
        /\ req'[r].projects = P /\ req'[r].order = o
    BY <2>e DEF NoRequest
  <2>4. RequestInv(r)'
    BY <2>f, <2>2, <2>3
  <2> QED BY <1>a, <2>2, <2>4
<1>7. ASSUME NEW u \in Members, ReplaceProjects(r, u) PROVE StateInv'
  <2>1. PICK P \in Selections \cup {{}} :
          Begin(r, [NoRequest EXCEPT !.op = "replace", !.at = "member", !.member = u, !.projects = P])
    BY <1>7 DEF ReplaceProjects
  <2>e. /\ UNCHANGED tables
        /\ req'[r] = [NoRequest EXCEPT !.op = "replace", !.at = "member", !.member = u,
                                       !.projects = P]
    BY <1>b, <2>1
  <2>f. /\ req'[r].op = "replace" /\ req'[r].at = "member" /\ req'[r].member = u
        /\ req'[r].projects = P /\ member'[u] # None
    BY <1>7, <2>e DEF ReplaceProjects, NoRequest, tables
  <2>2. RequestInv(r)'
    BY <2>f
  <2> QED BY <1>a, <2>1, <2>2
<1> QED BY <1>1, <1>2, <1>3, <1>4, <1>5, <1>6, <1>7 DEF BeginRequest

\* A request takes a lock, reads, or gives up.
LEMMA LockState ==
    ASSUME IInv, NEW r \in Requests,
           \/ Locate(r) \/ LockCode(r) \/ LockOwner(r) \/ LockDevice(r)
           \/ LockSession(r) \/ LockSessions(r)
           \/ LockMember(r) \/ LockProject(r) \/ DeleteMemberships(r)
           \/ CommitAuthenticate(r) \/ RequestFail(r)
    PROVE  StateInv'
<1>0. TypeOK /\ StateInv /\ RequestInv(r)
  BY DEF IInv, StateInv
<1>a. ASSUME UNCHANGED tables, \A q \in Requests \ {r} : req'[q] = req[q],
             \A q \in Requests \ {r}, x \in Rows : lock[x] = q => lock'[x] = q,
             RequestInv(r)'
      PROVE  StateInv'
  <2>1. \A q \in Requests : RequestInv(q)'
    BY <1>0, <1>a, OthersKept DEF StateInv
  <2>2. TableInv'
    BY <1>0, <1>a DEF StateInv, TableInv, OneLiveSession, RevokedDeviceHasNoSession,
          CodePairsOnce, LiveSessions, tables, deviceTables
  <2> QED BY <2>1, <2>2 DEF StateInv
<1>b. ASSUME Rollback(r) PROVE StateInv'
  <2>1. RequestInv(r)'
    BY <1>0, <1>b, ReleaseKept DEF Rollback, RequestInv
  <2> QED BY <1>0, <1>a, <1>b, <2>1, ReleaseKept DEF Rollback
<1>c. ASSUME NEW x \in Rows, Locked(r, x)
      PROVE  /\ UNCHANGED tables /\ lock'[x] = r
             /\ \A q \in Requests, y \in Rows : lock[y] = q => lock'[y] = q
  BY <1>0, <1>c, DeviceAssumptions DEF Locked, TypeOK
<1>d. req[r] # None => req[r] \in Request /\ req[r].at \in StepsOf(req[r].op)
  BY <1>0 DEF TypeOK, RequestInv, NamesRows
<1> DEFINE Same == UNCHANGED <<req[r].op, req[r].code, req[r].device, req[r].session,
                               req[r].member, req[r].projects>>
<1> USE DEF RequestInv, NamesRows, NamesProjects, HoldsOwner, PastOwner, HoldsCode, ReadsTruth,
            HoldsMember, StepsOf, Tokens, Named, MemberOperations, DeviceOperations
<1>1. CASE Locate(r)
  <2>f. /\ req[r].op = "refresh" /\ req'[r].op = "refresh" /\ req'[r].at = "owner"
        /\ req'[r].session = req[r].session /\ req'[r].projects = req[r].projects
        /\ req'[r].device = sess[req[r].session].device
    BY <1>0, <1>1, <1>d DEF Locate, At, Following, LockAfter, TypeOK, Request
  <2>1. RequestInv(r)'
    <3>1. UNCHANGED tables /\ req[r] # None
      BY <1>1 DEF Locate, At
    <3>2. NamesRows(r)' /\ NamesProjects(r)'
      BY <1>0, <2>f, <3>1 DEF tables, deviceTables
    <3>3. HoldsOwner(r)' /\ HoldsCode(r)' /\ ReadsTruth(r)' /\ HoldsMember(r)'
      BY <2>f
    <3> QED BY <3>2, <3>3
  <2> QED BY <1>0, <1>1, <1>a, <2>1 DEF Locate, TypeOK
<1>2. CASE LockCode(r)
  <2>1. CASE Locked(r, req[r].code) /\ req' = [req EXCEPT ![r].at = Following(r)] /\ CodeUsable(req[r].code)
    <3>1. req[r].code \in Rows /\ req[r].code \in Codes
      BY <1>0, <1>2 DEF LockCode, At, Rows
    <3>f. req[r].op = "pair" /\ req'[r].at = "owner" /\ Same
      BY <1>0, <1>2, <1>d, <2>1 DEF LockCode, At, Following, LockAfter, TypeOK, Request
    <3>2. RequestInv(r)'
      BY <1>0, <1>2, <1>c, <2>1, <3>1, <3>f DEF LockCode, At, tables, deviceTables, CodeUsable
    <3> QED BY <1>0, <1>a, <1>c, <2>1, <3>1, <3>2 DEF TypeOK
  <2> QED BY <1>2, <1>b, <2>1 DEF LockCode
<1>3. CASE LockOwner(r)
  <2>1. PICK o \in Orders(SelectedProjects(r)) :
          req' = [req EXCEPT ![r] = [@ EXCEPT !.at = Following(r), !.order = o,
                                              !.projects = SelectedProjects(r)]]
    BY <1>3 DEF LockOwner
  <2>2. /\ SelectedProjects(r) \in Selections \cup {{}}
        /\ req[r].op \in {"create", "pair"} => SelectedProjects(r) \in Selections
    BY <1>0, <1>3 DEF LockOwner, At, SelectedProjects, StateInv, TableInv
  <2>3. req[r].op \in {"create", "pair"} => o # <<>>
    BY <2>2, OrderType, DeviceAssumptions
  <2>4. Owner \in Rows
    BY DEF Rows
  <2>f. /\ UNCHANGED <<req[r].op, req[r].code, req[r].device, req[r].session, req[r].member>>
        /\ req'[r].projects = SelectedProjects(r) /\ req'[r].order = o
        /\ req'[r].at = IF req[r].op \in {"create", "pair"} THEN "project" ELSE "device"
    BY <1>0, <1>3, <1>d, <2>1 DEF LockOwner, At, Following, LockAfter, TypeOK, Request
  <2>5. RequestInv(r)'
    <3>1. lock'[Owner] = r /\ UNCHANGED tables /\ \A x \in Rows : lock[x] = r => lock'[x] = r
      BY <1>3, <1>c, <2>4 DEF LockOwner
    <3>2. req[r] # None /\ req[r].at = "owner" /\ req[r].op \in DeviceOperations
      BY <1>3 DEF LockOwner, At
    <3>3. NamesRows(r)' /\ NamesProjects(r)' /\ HoldsOwner(r)'
      BY <1>0, <2>2, <2>3, <2>f, <3>1, <3>2 DEF tables, deviceTables
    <3>4. HoldsCode(r)'
      BY <1>0, <2>f, <3>1, <3>2 DEF SelectedProjects, tables, deviceTables, Rows
    <3>5. ReadsTruth(r)' /\ HoldsMember(r)'
      BY <2>f, <3>2
    <3> QED BY <3>3, <3>4, <3>5
  <2> QED BY <1>0, <1>3, <1>a, <1>c, <2>1, <2>4, <2>5 DEF LockOwner, TypeOK
<1>4. CASE LockDevice(r)
  <2>1. req[r].device \in Rows
    BY <1>0, <1>4 DEF LockDevice, At, Rows, TypeOK, Session
  <2>f. req'[r].at = "session" /\ req'[r].seenDevice = device[req[r].device] /\ Same
    BY <1>0, <1>4, <1>d DEF LockDevice, At, Following, LockAfter, TypeOK, Request, Reread
  <2>2. RequestInv(r)'
    <3>1. UNCHANGED tables /\ \A x \in Rows : lock[x] = r => lock'[x] = r
      BY <1>4, <1>c, <2>1 DEF LockDevice
    <3>2. req[r] # None /\ req[r].at = "device" /\ req[r].op \in Named
      BY <1>0, <1>4 DEF LockDevice, At
    <3>3. NamesRows(r)' /\ NamesProjects(r)' /\ ReadsTruth(r)'
      BY <1>0, <2>f, <3>1, <3>2 DEF tables, deviceTables
    <3>4. HoldsOwner(r)' /\ HoldsCode(r)' /\ HoldsMember(r)'
      BY <1>0, <2>f, <3>1, <3>2 DEF Rows
    <3> QED BY <3>3, <3>4
  <2> QED BY <1>0, <1>4, <1>a, <1>c, <2>1, <2>2 DEF LockDevice, TypeOK
<1>5. CASE LockSession(r)
  <2>1. req[r].session \in Rows
    BY <1>0, <1>5 DEF LockSession, At, Rows
  <2>f. /\ req'[r].at = "commit" /\ req'[r].seenSession = sess[req[r].session] /\ Same
        /\ UNCHANGED req[r].seenDevice
    BY <1>0, <1>5, <1>d DEF LockSession, At, Following, LockAfter, TypeOK, Request, Reread
  <2>2. RequestInv(r)'
    <3>1. UNCHANGED tables /\ \A x \in Rows : lock[x] = r => lock'[x] = r
      BY <1>5, <1>c, <2>1 DEF LockSession
    <3>2. req[r] # None /\ req[r].at = "session" /\ req[r].op \in Tokens
      BY <1>0, <1>5 DEF LockSession, At
    <3>3. NamesRows(r)' /\ NamesProjects(r)' /\ ReadsTruth(r)'
      BY <1>0, <2>f, <3>1, <3>2 DEF tables, deviceTables
    <3>4. HoldsOwner(r)' /\ HoldsCode(r)' /\ HoldsMember(r)'
      BY <1>0, <2>f, <3>1, <3>2 DEF Rows
    <3> QED BY <3>3, <3>4
  <2> QED BY <1>0, <1>5, <1>a, <1>c, <2>1, <2>2 DEF LockSession, TypeOK
<1>6. CASE LockSessions(r)
  <2>1. CASE /\ \A s \in SessionsOf(req[r].device) : lock[s] = None
             /\ lock' = [x \in Rows |-> IF x \in SessionsOf(req[r].device) THEN r ELSE lock[x]]
             /\ req' = [req EXCEPT ![r].at = Following(r)]
             /\ UNCHANGED tables
    <3>1. \A q \in Requests, x \in Rows : lock[x] = q => lock'[x] = q
      BY <1>0, <2>1, DeviceAssumptions DEF TypeOK
    <3>f. req'[r].at = "commit" /\ Same /\ UNCHANGED req[r].seenDevice
      BY <1>0, <1>6, <1>d, <2>1 DEF LockSessions, At, Following, LockAfter, TypeOK, Request
    <3>2. RequestInv(r)'
      <4>2. req[r] # None /\ req[r].at = "session" /\ req[r].op = "revoke"
        BY <1>6 DEF LockSessions, At
      <4>3. NamesRows(r)' /\ NamesProjects(r)' /\ ReadsTruth(r)'
        BY <1>0, <2>1, <3>f, <4>2 DEF tables, deviceTables
      <4>4. HoldsOwner(r)' /\ HoldsCode(r)' /\ HoldsMember(r)'
        BY <1>0, <3>f, <3>1, <4>2 DEF Rows
      <4> QED BY <4>3, <4>4
    <3>3. \A q \in Requests \ {r} : req'[q] = req[q]
      BY <1>0, <2>1 DEF TypeOK
    <3>4. \A q \in Requests \ {r}, x \in Rows : lock[x] = q => lock'[x] = q
      BY <3>1
    <3> HIDE DEF RequestInv
    <3> QED BY <1>a, <2>1, <3>2, <3>3, <3>4
  <2> QED BY <1>6, <1>b, <2>1 DEF LockSessions
<1>7. CASE LockMember(r)
  <2>1. PICK o \in SortedOrder(req[r].projects) :
          req' = [req EXCEPT ![r] =
                    [@ EXCEPT !.at = IF o = <<>> THEN "delete" ELSE Following(r), !.order = o]]
    BY <1>7 DEF LockMember
  <2>2. req[r].member \in Rows
    BY <1>0, <1>7 DEF LockMember, At, Rows
  <2>f. /\ Same /\ req'[r].order = o
        /\ req'[r].at = IF o = <<>> THEN "delete" ELSE "project"
    BY <1>0, <1>7, <1>d, <2>1 DEF LockMember, At, Following, LockAfter, TypeOK, Request
  <2>3. RequestInv(r)'
    <3>1. UNCHANGED tables /\ lock'[req[r].member] = r
      BY <1>7, <1>c, <2>2 DEF LockMember
    <3>2. req[r] # None /\ req[r].at = "member" /\ req[r].op = "replace"
      BY <1>7 DEF LockMember, At
    <3>3. NamesRows(r)' /\ NamesProjects(r)' /\ ReadsTruth(r)'
      BY <1>0, <2>f, <3>1, <3>2 DEF tables, deviceTables
    <3>4. HoldsOwner(r)' /\ HoldsCode(r)' /\ HoldsMember(r)'
      BY <1>0, <2>f, <3>1, <3>2 DEF Rows
    <3> QED BY <3>3, <3>4
  <2> QED BY <1>0, <1>7, <1>a, <1>c, <2>1, <2>2, <2>3 DEF LockMember, TypeOK
<1>8. CASE LockProject(r)
  <2>1. Head(req[r].order) \in Rows
    BY <1>0, <1>8 DEF LockProject, At, Rows, TypeOK, Request
  <2>f. /\ Same /\ req'[r].order = Tail(req[r].order)
        /\ req'[r].at = IF Tail(req[r].order) # <<>> THEN "project"
                        ELSE IF req[r].op = "replace" THEN "delete" ELSE "commit"
    BY <1>0, <1>8, <1>d DEF LockProject, At, Following, LockAfter, TypeOK, Request
  <2>2. RequestInv(r)'
    <3>1. UNCHANGED tables /\ \A x \in Rows : lock[x] = r => lock'[x] = r
      BY <1>8, <1>c, <2>1 DEF LockProject
    <3>2. req[r] # None /\ req[r].at = "project" /\ req[r].op \in {"create", "pair", "staff", "replace"}
      BY <1>0, <1>d, <1>8 DEF LockProject, At, Request, Operations
    <3>3. NamesRows(r)' /\ NamesProjects(r)' /\ ReadsTruth(r)'
      BY <1>0, <2>f, <3>1, <3>2 DEF tables, deviceTables
    <3>4. HoldsOwner(r)' /\ HoldsCode(r)' /\ HoldsMember(r)'
      BY <1>0, <2>f, <3>1, <3>2 DEF Rows, tables, deviceTables
    <3> QED BY <3>3, <3>4
  <2> QED BY <1>0, <1>8, <1>a, <1>c, <2>1, <2>2 DEF LockProject, TypeOK
<1>9. CASE DeleteMemberships(r)
  <2>1. RequestInv(r)'
    BY <1>0, <1>9 DEF DeleteMemberships, At, TypeOK, tables, deviceTables
  <2> QED BY <1>0, <1>9, <1>a, <2>1 DEF DeleteMemberships, TypeOK
<1>10. CASE CommitAuthenticate(r) \/ RequestFail(r)
  BY <1>10, <1>b DEF CommitAuthenticate, RequestFail
<1> QED BY <1>1, <1>2, <1>3, <1>4, <1>5, <1>6, <1>7, <1>8, <1>9, <1>10

\* A pairing gives a device that was not paired a session that was not given out.
LEMMA PairEffect ==
    ASSUME IInv, NEW r \in Requests, CommitPair(r)
    PROVE  \E d \in Devices, s \in Sessions :
             /\ device[d] = "none" /\ sess[s] = None
             /\ code' = [code EXCEPT ![req[r].code] = d]
             /\ device' = [device EXCEPT ![d] = "ACTIVE"]
             /\ deviceProjects' = [deviceProjects EXCEPT ![d] = req[r].projects]
             /\ sess'[s] # None /\ sess'[s].device = d
             /\ \A t \in Sessions \ {s} : sess'[t] = sess[t]
             /\ LiveSessions(d)' = {s}
             /\ \A e \in Devices \ {d} : LiveSessions(e)' = LiveSessions(e)
<1>0. TypeOK /\ TableInv
  BY DEF IInv, StateInv
<1>1. PICK d \in UnusedDevices, s \in UnusedSessions :
        /\ code' = [code EXCEPT ![req[r].code] = d]
        /\ device' = [device EXCEPT ![d] = "ACTIVE"]
        /\ deviceProjects' = [deviceProjects EXCEPT ![d] = req[r].projects]
        /\ sess' = [sess EXCEPT ![s] = NewSession(d)]
  BY DEF CommitPair
<1>2. d \in Devices /\ device[d] = "none" /\ s \in Sessions /\ sess[s] = None
  BY DEF UnusedDevices, UnusedSessions
<1>3. /\ NewSession(d) \in Session /\ NewSession(d).device = d /\ ~NewSession(d).revoked
      /\ NewSession(d) # None
  <2>1. NewSession(d) \in Session
    BY <1>2 DEF NewSession, Session
  <2>2. NewSession(d).device = d /\ NewSession(d).revoked = FALSE
    BY DEF NewSession
  <2> QED BY <2>1, <2>2, DeviceAssumptions
<1>4. sess'[s] = NewSession(d) /\ \A t \in Sessions \ {s} : sess'[t] = sess[t]
  BY <1>0, <1>1, <1>2 DEF TypeOK
<1>5. \A t \in Sessions : sess[t] # None => sess[t].device # d
  BY <1>0, <1>2 DEF TableInv
<1>6. LiveSessions(d)' = {s}
  BY <1>2, <1>3, <1>4, <1>5 DEF LiveSessions
<1>7. \A e \in Devices \ {d} : LiveSessions(e)' = LiveSessions(e)
  BY <1>2, <1>3, <1>4 DEF LiveSessions
<1> QED BY <1>1, <1>2, <1>3, <1>4, <1>6, <1>7

\* A refresh replaces the live session of a device that is not revoked by one
\* that was not given out.
LEMMA RefreshEffect ==
    ASSUME IInv, NEW r \in Requests, CommitRefresh(r), ~Refused(r)
    PROVE  \E d \in Devices, old \in Sessions, s \in Sessions :
             /\ device[d] \notin {"none", "REVOKED"}
             /\ sess[s] = None /\ sess'[s] # None /\ sess'[s].device = d
             /\ sess[old] # None /\ sess[old].device = d
             /\ sess'[old] # None /\ sess'[old].device = d
             /\ \A t \in Sessions \ {s, old} : sess'[t] = sess[t]
             /\ LiveSessions(d) = {old} /\ LiveSessions(d)' = {s}
             /\ \A e \in Devices \ {d} : LiveSessions(e)' = LiveSessions(e)
<1>0. TypeOK /\ TableInv /\ RequestInv(r)
  BY DEF IInv, StateInv
<1>1. PICK s \in UnusedSessions :
        sess' = [sess EXCEPT ![req[r].session].revoked = TRUE,
                             ![s] = NewSession(req[r].device)]
  BY DEF CommitRefresh
<1>2. req[r].session \in Sessions /\ req[r].device \in Devices
  BY <1>0 DEF CommitRefresh, At, RequestInv, NamesRows, Tokens, TypeOK, Session
<1>3. PICK old \in Sessions, d \in Devices : old = req[r].session /\ d = req[r].device
  BY <1>2
<1>4. /\ sess[old] # None /\ d = sess[old].device
      /\ ~sess[old].revoked /\ device[d] # "REVOKED"
  BY <1>0, <1>3 DEF CommitRefresh, At, Refused, RequestInv, NamesRows, ReadsTruth, Tokens, Named
<1>5. sess[old] \in Session /\ device[d] # "none" /\ s \in Sessions /\ sess[s] = None
  BY <1>0, <1>4 DEF TypeOK, TableInv, UnusedSessions
<1>6. /\ NewSession(d) \in Session /\ NewSession(d).device = d /\ ~NewSession(d).revoked
      /\ NewSession(d) # None
  <2>1. NewSession(d) \in Session
    BY DEF NewSession, Session
  <2>2. NewSession(d).device = d /\ NewSession(d).revoked = FALSE
    BY DEF NewSession
  <2> QED BY <2>1, <2>2, DeviceAssumptions
<1>7. /\ sess'[s] = NewSession(d)
      /\ sess'[old] = [sess[old] EXCEPT !.revoked = TRUE]
      /\ \A t \in Sessions \ {s, old} : sess'[t] = sess[t]
  BY <1>0, <1>1, <1>3, <1>4, <1>5 DEF TypeOK
<1>8. sess'[old] # None /\ sess'[old].device = d /\ sess'[old].revoked
  BY <1>4, <1>5, <1>7, DeviceAssumptions DEF Session
<1>9. LiveSessions(d) = {old}
  BY <1>0, <1>4 DEF TableInv, OneLiveSession, LiveSessions
<1>10. LiveSessions(d)' = {s}
  <2>1. \A t \in Sessions \ {old} : t \notin LiveSessions(d)
    BY <1>9
  <2>2. \A t \in Sessions : t \in LiveSessions(d)' <=> t = s
    BY <1>4, <1>5, <1>6, <1>7, <1>8, <2>1 DEF LiveSessions
  <2> QED BY <1>5, <2>2 DEF LiveSessions
<1>11. \A e \in Devices \ {d} : LiveSessions(e)' = LiveSessions(e)
  BY <1>4, <1>5, <1>6, <1>7, <1>8 DEF LiveSessions
<1>12. sess'[s] # None /\ sess'[s].device = d
  BY <1>6, <1>7
<1> QED BY <1>4, <1>5, <1>7, <1>8, <1>9, <1>10, <1>11, <1>12, Zenon

\* A revocation ends every session of its device and no other.
LEMMA RevokeEffect ==
    ASSUME IInv, NEW r \in Requests, CommitRevoke(r)
    PROVE  \E d \in Devices :
             /\ device[d] # "none" /\ device' = [device EXCEPT ![d] = "REVOKED"]
             /\ \A t \in Sessions : sess[t] = None => sess'[t] = None
             /\ \A t \in Sessions : sess[t] # None =>
                     sess'[t] # None /\ sess'[t].device = sess[t].device
             /\ LiveSessions(d)' = {}
             /\ \A e \in Devices \ {d} : LiveSessions(e)' = LiveSessions(e)
<1>0. TypeOK /\ TableInv /\ RequestInv(r)
  BY DEF IInv, StateInv
<1>1. req[r].device \in Devices /\ device[req[r].device] # "none"
  BY <1>0 DEF CommitRevoke, At, RequestInv, NamesRows
<1>2. PICK d \in Devices : d = req[r].device
  BY <1>1
<1>3. ASSUME NEW t \in Sessions
      PROVE  /\ sess[t] = None => sess'[t] = None
             /\ sess[t] # None => /\ sess'[t] # None /\ sess'[t].device = sess[t].device
                                  /\ sess[t].device = d => sess'[t].revoked
                                  /\ sess[t].device # d => sess'[t] = sess[t]
  <2>1. sess[t] # None => sess[t] \in Session
    BY <1>0 DEF TypeOK
  <2>2. sess'[t] = IF sess[t] # None /\ sess[t].device = d
                   THEN [sess[t] EXCEPT !.revoked = TRUE] ELSE sess[t]
    BY <1>2 DEF CommitRevoke, SessionsOf
  <2> QED BY <2>1, <2>2, DeviceAssumptions DEF Session
<1>4. \A e \in Devices \ {d} : LiveSessions(e)' = LiveSessions(e)
  BY <1>3 DEF LiveSessions
<1>5. LiveSessions(d)' = {}
  BY <1>3 DEF LiveSessions
<1> QED BY <1>1, <1>2, <1>3, <1>4, <1>5 DEF CommitRevoke

\* A commit: what the request wrote and read under its locks belongs to it alone.
LEMMA CommitState ==
    ASSUME IInv, NEW r \in Requests,
           \/ CommitCode(r) \/ CommitPair(r) \/ CommitRefresh(r)
           \/ CommitRevoke(r) \/ CommitStaff(r) \/ CommitReplace(r)
    PROVE  StateInv'
<1>0. TypeOK /\ TableInv /\ RequestInv(r) /\ req[r] # None
  BY DEF IInv, StateInv, CommitCode, CommitPair, CommitRefresh, CommitRevoke, CommitStaff,
         CommitReplace, At
<1>1. \A q \in Requests : RequestInv(q)
  BY DEF IInv, StateInv
<1> DEFINE Other(q) == q \in Requests /\ q # r /\ req[q] # None
<1>2. ASSUME NEW q, Other(q), Release(r)
      PROVE  /\ NamesRows(q) /\ NamesProjects(q) /\ HoldsOwner(q) /\ HoldsCode(q)
             /\ ReadsTruth(q) /\ HoldsMember(q)
             /\ req'[q] = req[q] /\ req[q] \in Request
             /\ \A x \in Rows : lock[x] = q => lock'[x] = q
  BY <1>0, <1>1, <1>2, ReleaseKept DEF RequestInv, TypeOK
<1>3. ASSUME Release(r), TableInv',
             \A q \in Requests : Other(q) => NamesRows(q)' /\ HoldsCode(q)' /\ ReadsTruth(q)' /\ HoldsMember(q)'
      PROVE  StateInv'
  <2>1. ASSUME NEW q \in Requests PROVE RequestInv(q)'
    <3>1. CASE q = r
      BY <1>0, <1>3, <3>1, ReleaseKept DEF RequestInv
    <3>2. CASE ~Other(q) /\ q # r
      BY <1>0, <1>3, <3>2, ReleaseKept DEF RequestInv
    <3>3. CASE Other(q)
      <4>1. NamesProjects(q)' /\ HoldsOwner(q)'
        BY <1>2, <1>3, <3>3 DEF NamesProjects, HoldsOwner, PastOwner, Rows
      <4> QED BY <1>3, <3>3, <4>1 DEF RequestInv
    <3> QED BY <3>1, <3>2, <3>3
  <2> QED BY <1>3, <2>1 DEF StateInv
<1>4. ASSUME NEW q, Other(q), Release(r), PastOwner(r)
      PROVE  ~(req[q].op \in Named /\ req[q].at \in {"session", "commit"})
  BY <1>0, <1>2, <1>4 DEF RequestInv, HoldsOwner, PastOwner, Named, Tokens, DeviceOperations
<1>5. CASE CommitCode(r)
  <2>1. PICK c \in UnusedCodes :
          /\ code' = [code EXCEPT ![c] = "unused"]
          /\ codeProjects' = [codeProjects EXCEPT ![c] = req[r].projects]
    BY <1>5 DEF CommitCode
  <2>2. /\ UNCHANGED <<device, sess, deviceProjects, member>> /\ Release(r)
        /\ c \in Codes /\ code[c] = "none" /\ req[r].projects \in Selections
    BY <1>0, <1>5 DEF CommitCode, UnusedCodes, RequestInv, NamesProjects, At
  <2>3. ASSUME NEW q \in Requests, Other(q)
        PROVE  NamesRows(q)' /\ HoldsCode(q)' /\ ReadsTruth(q)' /\ HoldsMember(q)'
    <3>1. req[q].op = "pair" => /\ req[q].code \in Codes
                                /\ UNCHANGED <<code[req[q].code], codeProjects[req[q].code]>>
      BY <1>0, <1>2, <2>1, <2>2, <2>3 DEF NamesRows, TypeOK
    <3>2. NamesRows(q)'
      BY <1>2, <2>2, <2>3, <3>1 DEF NamesRows
    <3>3. HoldsCode(q)'
      BY <1>2, <2>2, <2>3, <3>1 DEF HoldsCode, Rows
    <3>4. ReadsTruth(q)'
      BY <1>2, <2>2, <2>3 DEF ReadsTruth
    <3>5. HoldsMember(q)'
      BY <1>2, <2>2, <2>3 DEF HoldsMember, NamesRows, MemberOperations, Rows
    <3> QED BY <3>2, <3>3, <3>4, <3>5
  <2>4. CodePairsOnce'
    BY <1>0, <2>1, <2>2, DeviceAssumptions DEF CodePairsOnce, TableInv, TypeOK
  <2>5. OneLiveSession' /\ RevokedDeviceHasNoSession'
    BY <1>0, <2>2 DEF TableInv, OneLiveSession, RevokedDeviceHasNoSession, LiveSessions
  <2>6. TableInv'
    BY <1>0, <2>1, <2>2, <2>4, <2>5 DEF TableInv, TypeOK
  <2> QED BY <1>3, <2>2, <2>3, <2>6
<1>6. CASE CommitPair(r)
  <2>1. PICK d \in Devices, s \in Sessions :
          /\ device[d] = "none" /\ sess[s] = None
          /\ code' = [code EXCEPT ![req[r].code] = d]
          /\ device' = [device EXCEPT ![d] = "ACTIVE"]
          /\ deviceProjects' = [deviceProjects EXCEPT ![d] = req[r].projects]
          /\ sess'[s] # None /\ sess'[s].device = d
          /\ \A t \in Sessions \ {s} : sess'[t] = sess[t]
          /\ LiveSessions(d)' = {s}
          /\ \A e \in Devices \ {d} : LiveSessions(e)' = LiveSessions(e)
    BY <1>6, PairEffect
  <2> DEFINE c == req[r].code
  <2>2. UNCHANGED <<codeProjects, member>> /\ Release(r)
    BY <1>6 DEF CommitPair
  <2>3. /\ c \in Codes /\ lock[c] = r /\ code[c] = "unused"
        /\ req[r].projects = codeProjects[c] /\ PastOwner(r)
    BY <1>0, <1>6 DEF CommitPair, At, RequestInv, NamesRows, HoldsCode, PastOwner, DeviceOperations
  <2>4. device'[d] = "ACTIVE"
    BY <1>0, <2>1 DEF TypeOK
  <2>5. \A t \in Sessions : sess[t] # None => t # s /\ sess'[t] = sess[t] /\ sess[t].device # d
                                           /\ sess[t].device \in Devices
    BY <1>0, <2>1, <2>2 DEF TypeOK, TableInv, Session
  <2>6. \A e \in Devices \ {d} : device'[e] = device[e] /\ deviceProjects'[e] = deviceProjects[e]
    BY <1>0, <2>1, <2>2 DEF TypeOK
  <2>7. ASSUME NEW q \in Requests, Other(q)
        PROVE  NamesRows(q)' /\ HoldsCode(q)' /\ ReadsTruth(q)' /\ HoldsMember(q)'
    <3>1. req[q].op = "pair" => /\ req[q].code \in Codes /\ code'[req[q].code] # "none"
                                /\ req[q].at # "code" => UNCHANGED code[req[q].code]
      BY <1>0, <1>2, <2>1, <2>2, <2>3, <2>7, DeviceAssumptions DEF NamesRows, HoldsCode, TypeOK
    <3>2. NamesRows(q)'
      BY <1>2, <2>2, <2>4, <2>5, <2>6, <2>7, <3>1 DEF NamesRows
    <3>3. HoldsCode(q)'
      BY <1>2, <2>2, <2>7, <3>1 DEF HoldsCode, Rows
    <3>4. ReadsTruth(q)'
      BY <1>2, <1>4, <2>2, <2>3, <2>7 DEF ReadsTruth, Named
    <3>5. HoldsMember(q)'
      BY <1>2, <2>2, <2>7 DEF HoldsMember, NamesRows, MemberOperations, Rows
    <3> QED BY <3>2, <3>3, <3>4, <3>5
  <2>8. CodePairsOnce'
    <3>1. code'[c] = d /\ codeProjects'[c] = deviceProjects'[d]
      BY <1>0, <2>1, <2>2, <2>3 DEF TypeOK
    <3>2. ASSUME NEW e \in Devices \ {d}, device'[e] # "none"
          PROVE  \E b \in Codes : code'[b] = e /\ codeProjects'[b] = deviceProjects'[e]
      <4>1. PICK b \in Codes : code[b] = e /\ codeProjects[b] = deviceProjects[e]
        BY <1>0, <2>6, <3>2 DEF TableInv, CodePairsOnce
      <4>2. b # c
        BY <2>3, <4>1, DeviceAssumptions
      <4> QED BY <1>0, <2>1, <2>2, <2>6, <4>1, <4>2 DEF TypeOK
    <3> QED BY <2>2, <2>3, <3>1, <3>2 DEF CodePairsOnce
  <2>9. OneLiveSession' /\ RevokedDeviceHasNoSession'
    BY <1>0, <2>1, <2>4, <2>6 DEF TableInv, OneLiveSession, RevokedDeviceHasNoSession
  <2>10. TableInv'
    <3>1. \A t \in Sessions : sess'[t] # None => device'[sess'[t].device] # "none"
      BY <1>0, <2>1, <2>4, <2>5, <2>6 DEF TableInv
    <3>2. \A b \in Codes : code'[b] # "none" => code[b] # "none"
      BY <1>0, <2>1, <2>3 DEF TypeOK
    <3> QED BY <1>0, <2>2, <2>8, <2>9, <3>1, <3>2 DEF TableInv
  <2> QED BY <1>3, <2>2, <2>7, <2>10
<1>7. ASSUME Rollback(r) PROVE StateInv'
  BY <1>0, <1>7, LockState DEF RequestFail
<1>8. CASE CommitRefresh(r) /\ ~Refused(r)
  <2>1. PICK d \in Devices, old \in Sessions, s \in Sessions :
          /\ device[d] \notin {"none", "REVOKED"}
          /\ sess[s] = None /\ sess'[s] # None /\ sess'[s].device = d
          /\ sess[old] # None /\ sess[old].device = d
          /\ sess'[old] # None /\ sess'[old].device = d
          /\ \A t \in Sessions \ {s, old} : sess'[t] = sess[t]
          /\ LiveSessions(d) = {old} /\ LiveSessions(d)' = {s}
          /\ \A e \in Devices \ {d} : LiveSessions(e)' = LiveSessions(e)
    BY <1>8, RefreshEffect
  <2>2. /\ UNCHANGED <<code, device, codeProjects, deviceProjects, member>> /\ Release(r)
        /\ PastOwner(r)
    BY <1>8 DEF CommitRefresh, At, PastOwner, DeviceOperations
  <2>3. \A t \in Sessions : sess[t] # None => sess'[t] # None /\ sess'[t].device = sess[t].device
    BY <2>1
  <2>4. ASSUME NEW q \in Requests, Other(q)
        PROVE  NamesRows(q)' /\ HoldsCode(q)' /\ ReadsTruth(q)' /\ HoldsMember(q)'
    <3>1. NamesRows(q)'
      BY <1>2, <2>2, <2>3, <2>4 DEF NamesRows
    <3>2. HoldsCode(q)'
      BY <1>2, <2>2, <2>4 DEF HoldsCode, NamesRows, Rows
    <3>3. ReadsTruth(q)'
      BY <1>2, <1>4, <2>2, <2>4 DEF ReadsTruth, Named
    <3>4. HoldsMember(q)'
      BY <1>2, <2>2, <2>4 DEF HoldsMember, NamesRows, MemberOperations, Rows
    <3> QED BY <3>1, <3>2, <3>3, <3>4
  <2>5. OneLiveSession' /\ RevokedDeviceHasNoSession'
    BY <1>0, <2>1, <2>2 DEF TableInv, OneLiveSession, RevokedDeviceHasNoSession
  <2>6. TableInv'
    <3>1. ASSUME NEW t \in Sessions, sess'[t] # None PROVE device[sess'[t].device] # "none"
      <4>1. CASE t = s \/ t = old
        BY <2>1, <4>1
      <4>2. CASE t \in Sessions \ {s, old}
        BY <1>0, <2>1, <3>1, <4>2 DEF TableInv
      <4> QED BY <4>1, <4>2
    <3>2. CodePairsOnce'
      BY <1>0, <2>2 DEF TableInv, CodePairsOnce
    <3> QED BY <1>0, <2>2, <2>5, <3>1, <3>2 DEF TableInv
  <2> QED BY <1>3, <2>2, <2>4, <2>6
<1>9. CASE CommitRevoke(r)
  <2>1. PICK d \in Devices :
          /\ device[d] # "none" /\ device' = [device EXCEPT ![d] = "REVOKED"]
          /\ \A t \in Sessions : sess[t] = None => sess'[t] = None
          /\ \A t \in Sessions : sess[t] # None =>
                  sess'[t] # None /\ sess'[t].device = sess[t].device
          /\ LiveSessions(d)' = {}
          /\ \A e \in Devices \ {d} : LiveSessions(e)' = LiveSessions(e)
    BY <1>9, RevokeEffect
  <2>2. /\ UNCHANGED <<code, codeProjects, deviceProjects, member>> /\ Release(r)
        /\ PastOwner(r)
    BY <1>9 DEF CommitRevoke, At, PastOwner, DeviceOperations
  <2>3. device'[d] = "REVOKED" /\ \A e \in Devices \ {d} : device'[e] = device[e]
    BY <1>0, <2>1 DEF TypeOK
  <2>4. ASSUME NEW q \in Requests, Other(q)
        PROVE  NamesRows(q)' /\ HoldsCode(q)' /\ ReadsTruth(q)' /\ HoldsMember(q)'
    <3>1. NamesRows(q)'
      BY <1>2, <2>1, <2>2, <2>3, <2>4 DEF NamesRows
    <3>2. HoldsCode(q)'
      BY <1>2, <2>2, <2>4 DEF HoldsCode, NamesRows, Rows
    <3>3. ReadsTruth(q)'
      BY <1>2, <1>4, <2>2, <2>4 DEF ReadsTruth, Named
    <3>4. HoldsMember(q)'
      BY <1>2, <2>2, <2>4 DEF HoldsMember, NamesRows, MemberOperations, Rows
    <3> QED BY <3>1, <3>2, <3>3, <3>4
  <2>5. OneLiveSession' /\ RevokedDeviceHasNoSession'
    BY <1>0, <2>1, <2>3 DEF TableInv, OneLiveSession, RevokedDeviceHasNoSession
  <2>6. TableInv'
    <3>1. ASSUME NEW t \in Sessions, sess'[t] # None
          PROVE  device'[sess'[t].device] # "none"
      <4>1. sess[t] # None /\ sess'[t].device = sess[t].device /\ sess[t].device \in Devices
        BY <1>0, <2>1, <3>1 DEF TypeOK, Session
      <4> QED BY <1>0, <2>3, <4>1 DEF TableInv
    <3>2. CodePairsOnce'
      BY <1>0, <2>1, <2>2, <2>3 DEF TableInv, CodePairsOnce
    <3> QED BY <1>0, <2>2, <2>5, <3>1, <3>2 DEF TableInv
  <2> QED BY <1>3, <2>2, <2>4, <2>6
<1>10. ASSUME UNCHANGED deviceTables, Release(r), NEW u \in Members, NEW P,
              member' = [member EXCEPT ![u] = P], P # None,
              \/ member[u] = None
              \/ req[r].op = "replace" /\ req[r].at = "commit" /\ u = req[r].member
       PROVE  StateInv'
  <2>1. ASSUME NEW q \in Requests, Other(q)
        PROVE  NamesRows(q)' /\ HoldsCode(q)' /\ ReadsTruth(q)' /\ HoldsMember(q)'
    <3>1. req[q].op = "replace" =>
            /\ req[q].member \in Members /\ member'[req[q].member] # None
            /\ req[q].at # "member" => UNCHANGED member[req[q].member]
      BY <1>0, <1>2, <1>10, <2>1 DEF NamesRows, HoldsMember, MemberOperations, RequestInv, TypeOK
    <3>2. NamesRows(q)'
      BY <1>2, <1>10, <2>1, <3>1 DEF NamesRows, deviceTables
    <3>3. HoldsCode(q)'
      BY <1>2, <1>10, <2>1 DEF HoldsCode, NamesRows, Rows, deviceTables
    <3>4. ReadsTruth(q)'
      BY <1>2, <1>10, <2>1 DEF ReadsTruth, deviceTables
    <3>5. HoldsMember(q)'
      BY <1>2, <1>10, <2>1, <3>1 DEF HoldsMember, Rows
    <3> QED BY <3>2, <3>3, <3>4, <3>5
  <2>2. TableInv'
    BY <1>0, <1>10 DEF TableInv, OneLiveSession, RevokedDeviceHasNoSession, CodePairsOnce,
                       LiveSessions, deviceTables
  <2> QED BY <1>3, <1>10, <2>1, <2>2
<1>11. CASE CommitStaff(r) /\ member[req[r].member] = None
  <2>1. req[r].member \in Members /\ req[r].projects \in SUBSET Projects
    BY <1>0, <1>11 DEF CommitStaff, At, RequestInv, NamesRows, MemberOperations, TypeOK, Request
  <2>2. req[r].projects # None
    BY <2>1, DeviceAssumptions
  <2> QED BY <1>10, <1>11, <2>1, <2>2 DEF CommitStaff
<1>12. CASE CommitReplace(r)
  <2> DEFINE P == (member[req[r].member] \ req[r].seenProjects) \cup req[r].projects
  <2>1. /\ req[r].member \in Members /\ member[req[r].member] # None
        /\ req[r].projects \in SUBSET Projects
    BY <1>0, <1>12 DEF CommitReplace, At, RequestInv, NamesRows, MemberOperations, TypeOK, Request
  <2>2. member[req[r].member] \in SUBSET Projects
    BY <1>0, <2>1 DEF TypeOK
  <2>3. P \in SUBSET Projects
    BY <2>1, <2>2
  <2>4. P # None
    BY <2>3, DeviceAssumptions
  <2>5. /\ req[r].op = "replace" /\ req[r].at = "commit" /\ UNCHANGED deviceTables /\ Release(r)
        /\ member' = [member EXCEPT ![req[r].member] = P]
    BY <1>12 DEF CommitReplace, At
  <2> HIDE DEF P
  <2> QED BY <1>10, <2>1, <2>4, <2>5
<1> QED
  BY <1>5, <1>6, <1>7, <1>8, <1>9, <1>11, <1>12 DEF CommitRefresh, CommitStaff

-----------------------------------------------------------------------------

\* Every reachable state satisfies the inductive invariant.
THEOREM Invariance == Spec => []IInv
<1>1. IInv /\ [Next]_vars => IInv'
  <2> SUFFICES ASSUME IInv, [Next]_vars PROVE IInv'
    OBVIOUS
  <2>1. ASSUME NEW r \in Requests, BeginRequest(r) PROVE IInv'
    BY <2>1, BeginType, BeginState DEF IInv
  <2>2. ASSUME NEW r \in Requests, Step(r) \/ RequestFail(r) PROVE IInv'
    <3>1. TypeOK'
      BY <2>2, StepType
    <3>2. StateInv'
      BY <2>2, LockState, CommitState DEF Step
    <3> QED BY <3>1, <3>2 DEF IInv
  <2>3. CASE UNCHANGED vars
    BY <2>3 DEF IInv, TypeOK, StateInv, TableInv, OneLiveSession, RevokedDeviceHasNoSession,
          CodePairsOnce, LiveSessions, RequestInv, NamesRows, NamesProjects, HoldsOwner, PastOwner,
          HoldsCode, ReadsTruth, HoldsMember, vars, tables, deviceTables
  <2> QED BY <2>1, <2>2, <2>3 DEF Next
<1> QED BY <1>1, InitInv, PTL DEF Spec

\* The tables, the locks and the requests keep their types.
THEOREM TypeCorrect == Spec => []TypeOK
<1>1. IInv => TypeOK
  BY DEF IInv
<1> QED BY <1>1, Invariance, PTL

\* However many refreshes of a device run at the same time, it has at most one
\* session that is accepted.
THEOREM SessionUnique == Spec => []OneLiveSession
<1>1. IInv => OneLiveSession
  BY DEF IInv, StateInv, TableInv
<1> QED BY <1>1, Invariance, PTL

\* No refresh that raced its revocation leaves a revoked device a session.
THEOREM RevocationHolds == Spec => []RevokedDeviceHasNoSession
<1>1. IInv => RevokedDeviceHasNoSession
  BY DEF IInv, StateInv, TableInv
<1> QED BY <1>1, Invariance, PTL

\* Every paired device has a code of its own and the projects of that code.
THEOREM PairedByOwnCode == Spec => []CodePairsOnce
<1>1. IInv => CodePairsOnce
  BY DEF IInv, StateInv, TableInv
<1> QED BY <1>1, Invariance, PTL

\* Whoever authenticate accepts is a device that is not revoked, with a session
\* that is not revoked, in the state in which it commits.
THEOREM OnlyLiveActors == Spec => []ActorIsLive
<1>1. IInv => ActorIsLive
  <2> SUFFICES ASSUME IInv, NEW r \in Requests, At(r, {"authenticate"}, "commit"), ~Refused(r)
               PROVE  device[req[r].device] = "ACTIVE" /\ ~sess[req[r].session].revoked
    BY DEF ActorIsLive
  <2>1. TypeOK /\ TableInv /\ NamesRows(r) /\ ReadsTruth(r)
    BY DEF IInv, StateInv, RequestInv, At
  <2>2. /\ req[r].session \in Sessions /\ sess[req[r].session] # None
        /\ req[r].device = sess[req[r].session].device
        /\ req[r].seenDevice = device[req[r].device]
        /\ req[r].seenSession = sess[req[r].session]
    BY <2>1 DEF At, NamesRows, ReadsTruth, Tokens, Named
  <2>3. device[req[r].device] \in DeviceState \ {"none"}
    BY <2>1, <2>2 DEF TypeOK, TableInv, Session
  <2> QED BY <2>2, <2>3 DEF Refused, DeviceState
<1> QED BY <1>1, Invariance, PTL

\* Assignments of one account that run at the same time do not mix: each leaves
\* exactly the projects it named.
THEOREM AssignmentsDoNotMix == Spec => AssignedWhole
<1> DEFINE Whole == \A u \in Members : member'[u] # member[u] =>
              \E r \in Running : req'[r] = None /\ req[r].member = u
                                /\ member'[u] = req[r].projects
<1>1. IInv /\ [Next]_vars => [Whole]_vars
  <2> SUFFICES ASSUME IInv, [Next]_vars, NEW u \in Members, member'[u] # member[u]
               PROVE  \E r \in Running : req'[r] = None /\ req[r].member = u
                                         /\ member'[u] = req[r].projects
    OBVIOUS
  <2>0. TypeOK
    BY DEF IInv
  <2>1. PICK r \in Requests : BeginRequest(r) \/ Step(r) \/ RequestFail(r)
    BY DEF Next, vars, tables
  <2>2. CommitStaff(r) \/ CommitReplace(r)
    BY <2>1 DEF BeginRequest, CreatePairingCode, Pair, Refresh, Authenticate, Revoke, CreateStaff,
          ReplaceProjects, Begin, Step, Locate, LockCode, LockOwner, LockDevice, LockSession,
          LockSessions, LockMember, LockProject, DeleteMemberships, Locked, CommitCode, CommitPair,
          CommitRefresh, CommitAuthenticate, CommitRevoke, RequestFail, Rollback, tables
  <2>3. req[r] # None /\ RequestInv(r) /\ req[r].at = "commit"
    BY <2>2 DEF CommitStaff, CommitReplace, At, IInv, StateInv
  <2>4. CASE CommitStaff(r)
    <3>1. member' = [member EXCEPT ![req[r].member] = req[r].projects] /\ Release(r)
      BY <2>4 DEF CommitStaff, Rollback, tables
    <3>2. req'[r] = None
      BY <2>0, <3>1, ReleaseKept
    <3> QED BY <2>0, <2>3, <3>1, <3>2 DEF Running, TypeOK
  <2>5. CASE CommitReplace(r)
    <3>1. req[r].seenProjects = member[req[r].member]
      BY <2>3, <2>5 DEF CommitReplace, At, RequestInv, HoldsMember
    <3>2. /\ Release(r)
          /\ member' = [member EXCEPT ![req[r].member] =
                (member[req[r].member] \ req[r].seenProjects) \cup req[r].projects]
      BY <2>5 DEF CommitReplace
    <3>3. (member[req[r].member] \ req[r].seenProjects) \cup req[r].projects = req[r].projects
      BY <3>1
    <3>4. req'[r] = None
      BY <2>0, <3>2, ReleaseKept
    <3> QED BY <2>0, <2>3, <3>2, <3>3, <3>4 DEF Running, TypeOK
  <2> QED BY <2>2, <2>4, <2>5
<1> QED BY <1>1, Invariance, PTL DEF Spec, AssignedWhole

-----------------------------------------------------------------------------

\* The live session the contract sees is the one there is.
LEMMA LiveValue ==
    ASSUME NEW S, NEW s \in S, \A t \in S : t = s
    PROVE  (IF S = {} THEN None ELSE CHOOSE t \in S : TRUE) = s
  BY Zenon

\* Interleaved, interrupted and failing, the transactions implement the calls of
\* DeviceContract that happen at once: a pairing is its Pair, a refresh its
\* Refresh and a revocation its Revoke at the commit; nothing else is seen.
THEOREM Refinement == Spec => ContractSpec
<1> DEFINE Live(d) == IF LiveSessions(d) = {} THEN None ELSE CHOOSE s \in LiveSessions(d) : TRUE
           live == [d \in Devices |-> Live(d)]
           spent == {s \in Sessions : sess[s] # None}
           paired == {d \in Devices : device[d] # "none"}
<1>1. Init => Contract!Init
  <2> SUFFICES ASSUME Init PROVE Contract!Init
    OBVIOUS
  <2>1. \A d \in Devices : LiveSessions(d) = {}
    BY DEF Init, LiveSessions
  <2>2. live = [d \in Devices |-> None]
    BY <2>1
  <2>3. spent = {} /\ paired = {}
    BY DEF Init
  <2> QED BY <2>2, <2>3 DEF Contract!Init
<1>2. IInv /\ IInv' /\ [Next]_vars => [Contract!Next]_(Contract!contractVars)
  <2> SUFFICES ASSUME IInv, IInv', [Next]_vars
               PROVE  Contract!Next \/ UNCHANGED <<live, spent, paired>>
    BY DEF Contract!contractVars
  <2>0. TypeOK /\ TypeOK' /\ TableInv /\ TableInv'
    BY DEF IInv, StateInv
  <2>a. ASSUME NEW d \in Devices, LiveSessions(d)' = LiveSessions(d) PROVE Live(d)' = Live(d)
    BY <2>a
  <2>b. ASSUME NEW d \in Devices, LiveSessions(d) # {} PROVE Live(d) # None
    <3>1. PICK s \in LiveSessions(d) : TRUE
      BY <2>b
    <3>2. Live(d) = s
      BY <2>0, <3>1, LiveValue DEF TableInv, OneLiveSession
    <3> QED BY <3>2, DeviceAssumptions DEF LiveSessions
  <2>1. CASE UNCHANGED <<sess, device>>
    <3>1. \A d \in Devices : LiveSessions(d)' = LiveSessions(d)
      BY <2>1 DEF LiveSessions
    <3>2. live' = live
      BY <2>a, <3>1
    <3> QED BY <2>1, <3>2
  <2> HIDE DEF Live
  <2>2. ASSUME NEW r \in Requests, CommitPair(r) PROVE Contract!Next
    <3>1. PICK d \in Devices, s \in Sessions :
            /\ device[d] = "none" /\ sess[s] = None
            /\ code' = [code EXCEPT ![req[r].code] = d]
            /\ device' = [device EXCEPT ![d] = "ACTIVE"]
            /\ deviceProjects' = [deviceProjects EXCEPT ![d] = req[r].projects]
            /\ sess'[s] # None /\ sess'[s].device = d
            /\ \A t \in Sessions \ {s} : sess'[t] = sess[t]
            /\ LiveSessions(d)' = {s}
            /\ \A e \in Devices \ {d} : LiveSessions(e)' = LiveSessions(e)
      BY <2>2, PairEffect
    <3>2. Live(d)' = s
      BY <3>1 DEF Live
    <3>3. live' = [live EXCEPT ![d] = s]
      BY <2>a, <3>1, <3>2
    <3>4. s \in Sessions \ spent /\ spent' = spent \cup {s}
      BY <3>1
    <3>5. d \notin paired /\ paired' = paired \cup {d}
      BY <2>0, <3>1 DEF TypeOK
    <3>6. Contract!Pair(d)
      BY <3>3, <3>4, <3>5 DEF Contract!Pair, Contract!Issue, Live
    <3> QED BY <3>6 DEF Contract!Next
  <2>3. ASSUME NEW r \in Requests, CommitRefresh(r), ~Refused(r) PROVE Contract!Next
    <3>1. PICK d \in Devices, old \in Sessions, s \in Sessions :
            /\ device[d] \notin {"none", "REVOKED"}
            /\ sess[s] = None /\ sess'[s] # None /\ sess'[s].device = d
            /\ sess[old] # None /\ sess[old].device = d
            /\ sess'[old] # None /\ sess'[old].device = d
            /\ \A t \in Sessions \ {s, old} : sess'[t] = sess[t]
            /\ LiveSessions(d) = {old} /\ LiveSessions(d)' = {s}
            /\ \A e \in Devices \ {d} : LiveSessions(e)' = LiveSessions(e)
      BY <2>3, RefreshEffect
    <3>2. Live(d)' = s /\ Live(d) # None
      BY <2>b, <3>1 DEF Live
    <3>3. live' = [live EXCEPT ![d] = s] /\ live[d] # None
      BY <2>a, <3>1, <3>2
    <3>4. s \in Sessions \ spent /\ spent' = spent \cup {s}
      BY <3>1
    <3>5. UNCHANGED paired
      BY <2>3 DEF CommitRefresh
    <3>6. Contract!Refresh(d)
      BY <3>3, <3>4, <3>5 DEF Contract!Refresh, Contract!Issue, Live
    <3> QED BY <3>6 DEF Contract!Next
  <2>4. ASSUME NEW r \in Requests, CommitRevoke(r)
        PROVE  Contract!Next \/ UNCHANGED <<live, spent, paired>>
    <3>1. PICK d \in Devices :
            /\ device[d] # "none" /\ device' = [device EXCEPT ![d] = "REVOKED"]
            /\ \A t \in Sessions : sess[t] = None => sess'[t] = None
            /\ \A t \in Sessions : sess[t] # None =>
                    sess'[t] # None /\ sess'[t].device = sess[t].device
            /\ LiveSessions(d)' = {}
            /\ \A e \in Devices \ {d} : LiveSessions(e)' = LiveSessions(e)
      BY <2>4, RevokeEffect
    <3>2. Live(d)' = None
      BY <3>1 DEF Live
    <3>3. live' = [live EXCEPT ![d] = None]
      BY <2>a, <3>1, <3>2
    <3>4. UNCHANGED <<spent, paired>>
      BY <2>0, <3>1 DEF TypeOK
    <3>5. CASE Live(d) # None
      <4>1. Contract!Revoke(d)
        BY <3>3, <3>4, <3>5 DEF Contract!Revoke, Live
      <4> QED BY <4>1 DEF Contract!Next
    <3>6. CASE Live(d) = None
      BY <3>3, <3>4, <3>6
    <3> QED BY <3>5, <3>6
  <2>5. CASE UNCHANGED vars
    BY <2>1, <2>5 DEF vars, tables, deviceTables
  <2>6. ASSUME NEW r \in Requests, BeginRequest(r) \/ Step(r) \/ RequestFail(r),
               ~CommitPair(r), ~(CommitRefresh(r) /\ ~Refused(r)), ~CommitRevoke(r)
        PROVE  UNCHANGED <<sess, device>>
    BY <2>6 DEF BeginRequest, CreatePairingCode, Pair, Refresh, Authenticate, Revoke, CreateStaff,
          ReplaceProjects, Begin, Step, Locate, LockCode, LockOwner, LockDevice, LockSession,
          LockSessions, LockMember, LockProject, DeleteMemberships, Locked, CommitCode,
          CommitRefresh, CommitAuthenticate, CommitStaff, CommitReplace, RequestFail, Rollback,
          tables, deviceTables
  <2> HIDE DEF live, spent, paired
  <2> QED BY <2>1, <2>2, <2>3, <2>4, <2>5, <2>6 DEF Next
<1> QED BY <1>1, <1>2, Invariance, PTL DEF Spec, ContractSpec, Contract!Spec
=============================================================================
