-------------------------- MODULE DeviceLocks_proofs --------------------------
(***************************************************************************)
(* The locks of DeviceAuth: which rows a request can hold at each of its   *)
(* steps, and that the waits this leaves form a circle only between a      *)
(* pairing code and an assignment.                                         *)
(***************************************************************************)
EXTENDS DeviceAuth_proofs

Selecting == {"create", "pair"}

\* The projects left to lock are different, and rise for an assignment, whose
\* select has an ORDER BY.
OrderInv(r) ==
    req[r] # None /\ req[r].at = "project" =>
        \A i, j \in DOMAIN req[r].order : i < j =>
            /\ req[r].order[i] # req[r].order[j]
            /\ req[r].op \in MemberOperations => req[r].order[i] < req[r].order[j]

\* What a request that holds the row x has done so far.
MayHold(r, x) ==
    /\ x = Owner => PastOwner(r)
    /\ x \in Codes => req[r].op = "pair" /\ req[r].at # "code"
    /\ x \in Devices => req[r].op \in Named /\ req[r].at \in {"session", "commit"}
    /\ x \in Sessions => req[r].op \in Named /\ req[r].at = "commit"
    /\ x \in Members => req[r].op = "replace" /\ req[r].at # "member"
    /\ x \in Projects =>
          /\ req[r].op \in Selecting \cup MemberOperations
          /\ req[r].at \in {"project", "delete", "commit"}
          /\ req[r].at = "project" =>
                \A i \in DOMAIN req[r].order :
                    /\ x # req[r].order[i]
                    /\ req[r].op \in MemberOperations => x < req[r].order[i]

Holds(r) == \A x \in Rows : lock[x] = r => req[r] # None /\ MayHold(r, x)

LockInv == \A r \in Requests : OrderInv(r) /\ Holds(r)

-----------------------------------------------------------------------------

\* What Tail leaves of a sequence.
LEMMA TailFacts ==
    ASSUME NEW S, NEW o \in Seq(S), o # <<>>
    PROVE  /\ Head(o) = o[1] /\ 1 \in DOMAIN o
           /\ \A i \in DOMAIN Tail(o) : i \in Nat \ {0} /\ i + 1 \in DOMAIN o /\ Tail(o)[i] = o[i + 1]
  OBVIOUS

\* The order of a select: every project once, and rising with an ORDER BY.
LEMMA OrderFacts ==
    ASSUME NEW P \in Selections \cup {{}}, NEW o \in Orders(P)
    PROVE  \A i, j \in DOMAIN o : i < j => o[i] # o[j]
<1>1. IsFiniteSet(P)
  BY DeviceAssumptions, FS_EmptySet
<1>2. Cardinality(P) \in Nat
  BY <1>1, FS_CardinalityType
<1> QED BY <1>2 DEF Orders

\* The sorted order of a selection rises.
LEMMA SortedFacts ==
    ASSUME NEW P \in Selections \cup {{}}, NEW o \in SortedOrder(P)
    PROVE  \A i, j \in DOMAIN o : i < j => o[i] # o[j] /\ o[i] < o[j]
  BY OrderFacts DEF SortedOrder

\* Finitely many numbers have a largest one, so no finite circle rises.
LEMMA NoRisingCircle ==
    ASSUME NEW D, IsFiniteSet(D), D # {}, NEW h \in [D -> Nat]
    PROVE  \E r \in D : \A q \in D : ~(h[r] < h[q])
<1> DEFINE Above(r) == {q \in D : h[r] < h[q]}
           T == {Above(r) : r \in D}
<1>1. IsWellFoundedOn(StrictSubsetOrdering(D), SUBSET D)
  BY FS_StrictSubsetOrderingWellFounded, FS_FiniteSubsetsOfFinite
<1>2. T \subseteq SUBSET D /\ T # {}
  <2>1. PICK r \in D : TRUE
    OBVIOUS
  <2>2. Above(r) \in T
    BY <2>1
  <2> QED BY <2>2
<1>3. \E t \in T : \A u \in T : ~(<<u, t>> \in StrictSubsetOrdering(D))
  <2> HIDE DEF T
  <2> QED BY <1>1, <1>2, WFMin
<1>4. PICK r \in D : \A q \in D : ~(<<Above(q), Above(r)>> \in StrictSubsetOrdering(D))
  BY <1>3
<1>5. ASSUME NEW q \in D, h[r] < h[q] PROVE FALSE
  <2>1. q \in Above(r) /\ q \notin Above(q)
    BY <1>5
  <2>2. Above(q) \subseteq Above(r)
    BY <1>5
  <2>3. Above(q) # Above(r)
    BY <2>1
  <2>4. <<Above(q), Above(r)>> \in StrictSubsetOrdering(D)
    <3>1. Above(q) \in SUBSET D /\ Above(r) \in SUBSET D
      OBVIOUS
    <3> HIDE DEF Above
    <3> QED BY <2>2, <2>3, <3>1 DEF StrictSubsetOrdering
  <2> QED BY <1>4, <2>4
<1> QED BY <1>5

\* No request holds a row in the first state.
LEMMA InitLocks == Init => LockInv
  BY DeviceAssumptions DEF Init, LockInv, OrderInv, Holds

\* What a request that goes on is after a step.
LEMMA Updated ==
    ASSUME TypeOK, NEW r \in Requests, NEW e \in Request, req' = [req EXCEPT ![r] = e]
    PROVE  req'[r] = e /\ req'[r] # None /\ \A q \in Requests \ {r} : req'[q] = req[q]
  BY DeviceAssumptions DEF TypeOK

\* A step of a request changes what it holds as MayHold says, and no other's.
LEMMA LockStep ==
    ASSUME IInv, LockInv, NEW r \in Requests, BeginRequest(r) \/ Step(r) \/ RequestFail(r)
    PROVE  LockInv'
<1>0. TypeOK /\ OrderInv(r) /\ Holds(r) /\ RequestInv(r)
  BY DEF IInv, StateInv, LockInv
<1>1. ASSUME \A q \in Requests \ {r} : req'[q] = req[q],
             \A q \in Requests \ {r}, x \in Rows : lock'[x] = q => lock[x] = q,
             OrderInv(r)', Holds(r)'
      PROVE  LockInv'
  <2>1. ASSUME NEW q \in Requests \ {r} PROVE OrderInv(q)' /\ Holds(q)'
    BY <1>1, <2>1 DEF LockInv, OrderInv, Holds, MayHold, PastOwner
  <2> QED BY <1>1, <2>1 DEF LockInv
<1>2. ASSUME Release(r) PROVE LockInv'
  <2>1. /\ req'[r] = None /\ \A q \in Requests \ {r} : req'[q] = req[q]
        /\ \A q \in Requests, x \in Rows : lock'[x] = q => lock[x] = q /\ q # r
    BY <1>0, <1>2, DeviceAssumptions DEF Release, Unlock, TypeOK
  <2> QED BY <1>1, <2>1 DEF OrderInv, Holds
<1>3. ASSUME NEW request, Begin(r, request),
             request.at = "project" =>
                 \A i, j \in DOMAIN request.order : i < j =>
                     /\ request.order[i] # request.order[j]
                     /\ request.op \in MemberOperations => request.order[i] < request.order[j]
      PROVE  LockInv'
  <2>1. /\ req[r] = None /\ req'[r] = request /\ UNCHANGED lock
        /\ \A q \in Requests \ {r} : req'[q] = req[q]
    BY <1>0, <1>3 DEF Begin, TypeOK
  <2>2. OrderInv(r)'
    BY <1>3, <2>1 DEF OrderInv
  <2>3. Holds(r)'
    BY <1>0, <2>1 DEF Holds
  <2> QED BY <1>1, <2>1, <2>2, <2>3
<1>4. CASE BeginRequest(r)
  <2>1. CASE CreatePairingCode(r)
    BY <1>3, <2>1 DEF CreatePairingCode, NoRequest
  <2>2. ASSUME NEW c \in Codes, Pair(r, c) PROVE LockInv'
    BY <1>3, <2>2 DEF Pair, NoRequest
  <2>3. ASSUME NEW s \in Sessions, Refresh(r, s) \/ Authenticate(r, s) PROVE LockInv'
    BY <1>3, <2>3 DEF Refresh, Authenticate, NoRequest
  <2>4. ASSUME NEW d \in Devices, Revoke(r, d) PROVE LockInv'
    BY <1>3, <2>4 DEF Revoke, NoRequest
  <2>5. ASSUME NEW u \in Members, CreateStaff(r, u) PROVE LockInv'
    <3>1. PICK P \in Selections \cup {{}} : \E o \in SortedOrder(P) :
            Begin(r, [NoRequest EXCEPT !.op = "staff", !.member = u, !.projects = P, !.order = o,
                                       !.at = IF P = {} THEN "commit" ELSE "project"])
      BY <2>5 DEF CreateStaff
    <3>2. PICK o \in SortedOrder(P), a \in {"commit", "project"} :
            Begin(r, [NoRequest EXCEPT !.op = "staff", !.member = u, !.projects = P, !.order = o,
                                       !.at = a])
      BY <3>1
    <3>3. \A i, j \in DOMAIN o : i < j => o[i] # o[j] /\ o[i] < o[j]
      BY <3>2, SortedFacts
    <3> DEFINE request == [NoRequest EXCEPT !.op = "staff", !.member = u, !.projects = P,
                                            !.order = o, !.at = a]
    <3>4. request.order = o
      BY DEF NoRequest
    <3>5. Begin(r, request)
      BY <3>2
    <3> HIDE DEF request
    <3> QED BY <1>3, <3>3, <3>4, <3>5
  <2>6. ASSUME NEW u \in Members, ReplaceProjects(r, u) PROVE LockInv'
    BY <1>3, <2>6 DEF ReplaceProjects, NoRequest
  <2> QED BY <1>4, <2>1, <2>2, <2>3, <2>4, <2>5, <2>6 DEF BeginRequest
<1>5. ASSUME NEW y \in Rows, Locked(r, y), req'[r] # None,
             \A q \in Requests \ {r} : req'[q] = req[q],
             OrderInv(r)', MayHold(r, y)',
             \A x \in Rows : lock[x] = r /\ MayHold(r, x) => MayHold(r, x)'
      PROVE  LockInv'
  <2>1. /\ \A q \in Requests \ {r}, x \in Rows : lock'[x] = q => lock[x] = q
        /\ \A x \in Rows : lock'[x] = r => lock[x] = r \/ x = y
    BY <1>0, <1>5 DEF Locked, TypeOK
  <2>2. Holds(r)'
    BY <1>0, <1>5, <2>1 DEF Holds
  <2> QED BY <1>1, <1>5, <2>1, <2>2
<1>6. /\ req[r] # None => req[r] \in Request /\ NamesRows(r) /\ NamesProjects(r)
      /\ \A q \in Requests : req[q] # None => req[q] \in Request
  BY <1>0 DEF TypeOK, RequestInv
<1> USE DEF MayHold, PastOwner, Named, Tokens, DeviceOperations, MemberOperations, Selecting
<1>7. CASE Locate(r)
  <2>1. /\ req[r] # None /\ req[r].op = "refresh" /\ req[r].at = "locate" /\ UNCHANGED lock
        /\ \A q \in Requests \ {r} : req'[q] = req[q]
    BY <1>0, <1>7 DEF Locate, At, TypeOK
  <2>2. \A x \in Rows : lock[x] # r
    BY <1>0, <2>1 DEF Holds, Rows
  <2>3. req'[r].at = "owner"
    BY <1>0, <1>6, <1>7, <2>1 DEF Locate, Following, LockAfter, TypeOK, Request
  <2> QED BY <1>1, <2>1, <2>2, <2>3 DEF OrderInv, Holds
<1>8. CASE LockCode(r)
  <2>1. CASE Locked(r, req[r].code) /\ req' = [req EXCEPT ![r].at = Following(r)]
    <3>1. req[r] # None /\ req[r].op = "pair" /\ req[r].at = "code" /\ req[r].code \in Codes
      BY <1>6, <1>8 DEF LockCode, At, NamesRows
    <3>2. PICK y \in Rows : y = req[r].code /\ y \in Codes
      BY <3>1 DEF Rows
    <3>a. Following(r) = "owner"
      BY <3>1 DEF Following, LockAfter
    <3>3. /\ req'[r] # None /\ req'[r].op = "pair" /\ req'[r].at = "owner"
          /\ \A q \in Requests \ {r} : req'[q] = req[q]
      <4> DEFINE e == [req[r] EXCEPT !.at = "owner"]
      <4>u1. e \in Request /\ e.op = "pair" /\ e.at = "owner"
        BY <1>6, <3>1 DEF Request
      <4>u2. req' = [req EXCEPT ![r] = e]
        BY <2>1, <3>a
      <4> HIDE DEF e
      <4> QED BY <1>0, <4>u1, <4>u2, Updated
    <3>4. MayHold(r, y)' /\ OrderInv(r)'
      BY <3>2, <3>3, LockAssumptions DEF OrderInv
    <3>5. \A x \in Rows : lock[x] = r /\ MayHold(r, x) => MayHold(r, x)'
      BY <3>1, <3>3 DEF Rows
    <3> HIDE DEF MayHold
    <3> QED BY <1>5, <2>1, <3>2, <3>3, <3>4, <3>5
  <2> QED BY <1>2, <1>8, <2>1 DEF LockCode, Rollback
<1>9. CASE LockOwner(r)
  <2>1. PICK o \in Orders(SelectedProjects(r)) :
          req' = [req EXCEPT ![r] = [@ EXCEPT !.at = Following(r), !.order = o,
                                              !.projects = SelectedProjects(r)]]
    BY <1>9 DEF LockOwner
  <2>2. /\ req[r] # None /\ req[r].op \in DeviceOperations /\ req[r].at = "owner"
        /\ Locked(r, Owner) /\ Owner \in Rows
    BY <1>9 DEF LockOwner, At, Rows
  <2>3. SelectedProjects(r) \in Selections \cup {{}}
    BY <1>6, <2>2 DEF SelectedProjects, NamesProjects, NamesRows, IInv, StateInv, TableInv
  <2>4. \A i, j \in DOMAIN o : i < j => o[i] # o[j]
    BY <2>3, OrderFacts
  <2>a. PICK a \in {"project", "device"} :
          a = Following(r) /\ (a = "project" <=> req[r].op \in Selecting)
    BY <2>2 DEF Following, LockAfter
  <2>b. [req[r] EXCEPT !.at = a, !.order = o, !.projects = SelectedProjects(r)] \in Request
    <3>1. o \in Seq(Projects) /\ SelectedProjects(r) \in SUBSET Projects
      BY <2>3, OrderType DEF Projects
    <3> QED BY <1>6, <2>2, <3>1 DEF Request
  <2>5. /\ req'[r] # None /\ req'[r].op = req[r].op /\ req'[r].order = o
        /\ req'[r].at = IF req[r].op \in Selecting THEN "project" ELSE "device"
        /\ \A q \in Requests \ {r} : req'[q] = req[q]
    <3> DEFINE e == [req[r] EXCEPT !.at = a, !.order = o, !.projects = SelectedProjects(r)]
    <3>u1. e \in Request /\ e.op = req[r].op /\ e.at = a /\ e.order = o
      BY <1>6, <2>2, <2>b DEF Request
    <3>u2. req' = [req EXCEPT ![r] = e]
      BY <2>1, <2>a
    <3> HIDE DEF e
    <3> QED BY <1>0, <2>a, <3>u1, <3>u2, Updated
  <2>6. OrderInv(r)'
    BY <2>2, <2>4, <2>5 DEF OrderInv
  <2>7. MayHold(r, Owner)'
    BY <2>2, <2>5, LockAssumptions
  <2>8. \A x \in Rows : lock[x] = r /\ MayHold(r, x) => MayHold(r, x)'
    BY <2>2, <2>5, LockAssumptions DEF Rows
  <2> HIDE DEF MayHold
  <2> QED BY <1>5, <2>2, <2>5, <2>6, <2>7, <2>8
<1>10. CASE LockDevice(r)
  <2>1. /\ req[r] # None /\ req[r].op \in Named /\ req[r].at = "device"
        /\ Locked(r, req[r].device) /\ req[r].device \in Devices
    BY <1>0, <1>6, <1>10 DEF LockDevice, At, NamesRows, StepsOf, TypeOK, Session
  <2>2. PICK y \in Rows : y = req[r].device /\ y \in Devices
    BY <2>1 DEF Rows
  <2>3. /\ req'[r] # None /\ req'[r].op = req[r].op /\ req'[r].at = "session"
        /\ \A q \in Requests \ {r} : req'[q] = req[q]
    <3>1. Following(r) = "session"
      BY <2>1 DEF Following, LockAfter
    <3>2. device[req[r].device] \in DeviceState
      BY <1>0, <2>1 DEF TypeOK
    <3> DEFINE e == [req[r] EXCEPT !.seenDevice = device[req[r].device], !.at = "session"]
    <3>u1. e \in Request /\ e.op = req[r].op /\ e.at = "session"
      BY <1>6, <2>1, <3>2 DEF Request
    <3>u2. req' = [req EXCEPT ![r] = e]
      BY <1>10, <3>1 DEF LockDevice, Reread
    <3> HIDE DEF e
    <3> QED BY <1>0, <3>u1, <3>u2, Updated
  <2>4. MayHold(r, y)' /\ OrderInv(r)'
    BY <2>1, <2>2, <2>3, LockAssumptions DEF OrderInv
  <2>5. \A x \in Rows : lock[x] = r /\ MayHold(r, x) => MayHold(r, x)'
    BY <2>1, <2>3 DEF Rows
  <2> HIDE DEF MayHold
  <2> QED BY <1>5, <2>1, <2>2, <2>3, <2>4, <2>5
<1>11. CASE LockSession(r)
  <2>1. /\ req[r] # None /\ req[r].op \in Tokens /\ req[r].at = "session"
        /\ Locked(r, req[r].session) /\ req[r].session \in Sessions
    BY <1>6, <1>11 DEF LockSession, At, NamesRows
  <2>2. PICK y \in Rows : y = req[r].session /\ y \in Sessions
    BY <2>1 DEF Rows
  <2>3. /\ req'[r] # None /\ req'[r].op = req[r].op /\ req'[r].at = "commit"
        /\ \A q \in Requests \ {r} : req'[q] = req[q]
    <3>1. Following(r) = "commit"
      BY <2>1 DEF Following, LockAfter
    <3>2. sess[req[r].session] \in Session \cup {None}
      BY <1>0, <2>1 DEF TypeOK
    <3> DEFINE e == [req[r] EXCEPT !.seenSession = sess[req[r].session], !.at = "commit"]
    <3>u1. e \in Request /\ e.op = req[r].op /\ e.at = "commit"
      BY <1>6, <2>1, <3>2 DEF Request
    <3>u2. req' = [req EXCEPT ![r] = e]
      BY <1>11, <3>1 DEF LockSession, Reread
    <3> HIDE DEF e
    <3> QED BY <1>0, <3>u1, <3>u2, Updated
  <2>4. MayHold(r, y)' /\ OrderInv(r)'
    BY <2>1, <2>2, <2>3, LockAssumptions DEF OrderInv
  <2>5. \A x \in Rows : lock[x] = r /\ MayHold(r, x) => MayHold(r, x)'
    BY <2>1, <2>3 DEF Rows
  <2> HIDE DEF MayHold
  <2> QED BY <1>5, <2>1, <2>2, <2>3, <2>4, <2>5
<1>12. CASE LockSessions(r)
  <2>1. CASE /\ lock' = [x \in Rows |-> IF x \in SessionsOf(req[r].device) THEN r ELSE lock[x]]
             /\ req' = [req EXCEPT ![r].at = Following(r)]
    <3>1. req[r] # None /\ req[r].op = "revoke" /\ req[r].at = "session"
      BY <1>12 DEF LockSessions, At
    <3>2. /\ req'[r] # None /\ req'[r].op = "revoke" /\ req'[r].at = "commit"
          /\ \A q \in Requests \ {r} : req'[q] = req[q]
      <4>1. Following(r) = "commit"
        BY <3>1 DEF Following, LockAfter
      <4> DEFINE e == [req[r] EXCEPT !.at = "commit"]
      <4>u1. e \in Request /\ e.op = "revoke" /\ e.at = "commit"
        BY <1>6, <3>1 DEF Request
      <4>u2. req' = [req EXCEPT ![r] = e]
        BY <2>1, <4>1
      <4> HIDE DEF e
      <4> QED BY <1>0, <4>u1, <4>u2, Updated
    <3>3. /\ \A q \in Requests \ {r}, x \in Rows : lock'[x] = q => lock[x] = q
          /\ \A x \in Rows : lock'[x] = r => lock[x] = r \/ x \in Sessions
      BY <1>0, <2>1 DEF TypeOK, SessionsOf
    <3>4. \A x \in Sessions : MayHold(r, x)'
      BY <3>2, LockAssumptions
    <3>5. \A x \in Rows : lock[x] = r /\ MayHold(r, x) => MayHold(r, x)'
      BY <3>1, <3>2 DEF Rows
    <3>6. OrderInv(r)'
      BY <3>2 DEF OrderInv
    <3> HIDE DEF MayHold
    <3>7. Holds(r)'
      BY <1>0, <3>2, <3>3, <3>4, <3>5 DEF Holds
    <3> QED BY <1>1, <3>2, <3>3, <3>6, <3>7
  <2> QED BY <1>2, <1>12, <2>1 DEF LockSessions, Rollback
<1>13. CASE LockMember(r)
  <2>1. PICK o \in SortedOrder(req[r].projects) :
          req' = [req EXCEPT ![r] =
                    [@ EXCEPT !.at = IF o = <<>> THEN "delete" ELSE Following(r), !.order = o]]
    BY <1>13 DEF LockMember
  <2>2. /\ req[r] # None /\ req[r].op = "replace" /\ req[r].at = "member"
        /\ Locked(r, req[r].member) /\ req[r].member \in Members
        /\ req[r].projects \in Selections \cup {{}}
    BY <1>6, <1>13 DEF LockMember, At, NamesRows, NamesProjects
  <2>3. PICK y \in Rows : y = req[r].member /\ y \in Members
    BY <2>2 DEF Rows
  <2>4. /\ req'[r] # None /\ req'[r].op = "replace" /\ req'[r].order = o
        /\ req'[r].at \in {"delete", "project"}
        /\ \A q \in Requests \ {r} : req'[q] = req[q]
    <3>1. Following(r) = "project"
      BY <2>2 DEF Following, LockAfter
    <3>2. PICK a \in {"delete", "project"} :
            req' = [req EXCEPT ![r] = [@ EXCEPT !.at = a, !.order = o]]
      BY <2>1, <3>1
    <3>3. o \in Seq(Projects)
      BY <2>1, <2>2, OrderType DEF SortedOrder
    <3> DEFINE e == [req[r] EXCEPT !.at = a, !.order = o]
    <3>u1. e \in Request /\ e.op = "replace" /\ e.at = a /\ e.order = o
      BY <1>6, <2>2, <3>3 DEF Request
    <3>u2. req' = [req EXCEPT ![r] = e]
      BY <3>2
    <3> HIDE DEF e
    <3> QED BY <1>0, <3>u1, <3>u2, Updated
  <2>5. MayHold(r, y)'
    BY <2>3, <2>4, LockAssumptions
  <2>6. OrderInv(r)'
    BY <2>2, <2>4, SortedFacts DEF OrderInv
  <2>7. \A x \in Rows : lock[x] = r /\ MayHold(r, x) => MayHold(r, x)'
    BY <2>2, <2>4 DEF Rows
  <2> HIDE DEF MayHold
  <2> QED BY <1>5, <2>2, <2>3, <2>4, <2>5, <2>6, <2>7
<1>14. CASE LockProject(r)
  <2>1. /\ req[r] # None /\ req[r].at = "project" /\ req[r].order \in Seq(Projects)
        /\ req[r].order # <<>> /\ req[r].op \in Selecting \cup MemberOperations
        /\ Locked(r, Head(req[r].order))
    BY <1>6, <1>14 DEF LockProject, At, NamesRows, NamesProjects, StepsOf, Request, Operations
  <2>2. PICK o \in Seq(Projects) : o = req[r].order
    BY <2>1
  <2>3. PICK y \in Rows : y = Head(o) /\ y \in Projects
    BY <2>1, <2>2 DEF Rows
  <2>4. /\ req'[r] # None /\ req'[r].op = req[r].op /\ req'[r].order = Tail(o)
        /\ req'[r].at \in {"project", "commit"} \/ (req'[r].at = "delete" /\ req[r].op = "replace")
        /\ \A q \in Requests \ {r} : req'[q] = req[q]
    <3>1. Following(r) = IF req[r].op = "replace" THEN "delete" ELSE "commit"
      BY <2>1 DEF Following, LockAfter
    <3>2. PICK a \in {"project", "delete", "commit"} :
            /\ req' = [req EXCEPT ![r] = [@ EXCEPT !.order = Tail(o), !.at = a]]
            /\ a = "delete" => req[r].op = "replace"
      BY <1>14, <2>2, <3>1 DEF LockProject
    <3>3. Tail(o) \in Seq(Projects)
      BY <2>1, <2>2
    <3> DEFINE e == [req[r] EXCEPT !.order = Tail(o), !.at = a]
    <3>u1. e \in Request /\ e.op = req[r].op /\ e.at = a /\ e.order = Tail(o)
      BY <1>6, <2>1, <3>3 DEF Request
    <3>u2. req' = [req EXCEPT ![r] = e]
      BY <3>2
    <3> HIDE DEF e
    <3> QED BY <1>0, <3>2, <3>u1, <3>u2, Updated
  <2>5. /\ y = o[1] /\ 1 \in DOMAIN o
        /\ \A i \in DOMAIN Tail(o) :
              i \in Nat \ {0} /\ i + 1 \in DOMAIN o /\ Tail(o)[i] = o[i + 1]
    BY <2>1, <2>2, <2>3, TailFacts
  <2>6. \A i, j \in DOMAIN o : i < j =>
            o[i] # o[j] /\ (req[r].op \in MemberOperations => o[i] < o[j])
    BY <1>0, <2>1, <2>2 DEF OrderInv
  <2>7. OrderInv(r)'
    BY <2>4, <2>5, <2>6 DEF OrderInv
  <2>8. MayHold(r, y)'
    BY <2>1, <2>3, <2>4, <2>5, <2>6, LockAssumptions
  <2>9. ASSUME NEW x \in Rows, lock[x] = r, MayHold(r, x) PROVE MayHold(r, x)'
    <3>1. x \in Projects => \A i \in DOMAIN Tail(o) :
            x # Tail(o)[i] /\ (req[r].op \in MemberOperations => x < Tail(o)[i])
      <4> SUFFICES ASSUME x \in Projects, NEW i \in DOMAIN Tail(o)
                   PROVE  x # Tail(o)[i] /\ (req[r].op \in MemberOperations => x < Tail(o)[i])
        OBVIOUS
      <4>1. i + 1 \in DOMAIN o /\ Tail(o)[i] = o[i + 1]
        BY <2>5
      <4> QED BY <2>1, <2>2, <2>9, <4>1
    <3> QED BY <2>1, <2>4, <2>9, <3>1
  <2> HIDE DEF MayHold
  <2> QED BY <1>5, <2>1, <2>2, <2>3, <2>4, <2>7, <2>8, <2>9
<1>15. CASE DeleteMemberships(r)
  <2>1. /\ req[r] # None /\ req[r].op = "replace" /\ req[r].at = "delete" /\ UNCHANGED lock
        /\ \A q \in Requests \ {r} : req'[q] = req[q]
    BY <1>0, <1>15 DEF DeleteMemberships, At, TypeOK
  <2>2. req'[r] # None /\ req'[r].op = "replace" /\ req'[r].at = "commit"
    <3>1. member[req[r].member] \in SUBSET Projects
      <4>1. req[r].member \in Members /\ member[req[r].member] # None
        BY <1>6, <2>1 DEF NamesRows
      <4> QED BY <1>0, <4>1 DEF TypeOK
    <3> DEFINE e == [req[r] EXCEPT !.at = "commit", !.seenProjects = member[req[r].member]]
    <3>u1. e \in Request /\ e.op = "replace" /\ e.at = "commit"
      BY <1>6, <2>1, <3>1 DEF Request
    <3>u2. req' = [req EXCEPT ![r] = e]
      BY <1>15 DEF DeleteMemberships
    <3> HIDE DEF e
    <3> QED BY <1>0, <3>u1, <3>u2, Updated
  <2>3. Holds(r)'
    BY <1>0, <2>1, <2>2 DEF Holds
  <2> QED BY <1>1, <2>1, <2>2, <2>3 DEF OrderInv
<1>16. CASE \/ CommitCode(r) \/ CommitPair(r) \/ CommitRefresh(r) \/ CommitAuthenticate(r)
            \/ CommitRevoke(r) \/ CommitStaff(r) \/ CommitReplace(r) \/ RequestFail(r)
  BY <1>2, <1>16 DEF CommitCode, CommitPair, CommitRefresh, CommitAuthenticate, CommitRevoke,
                     CommitStaff, CommitReplace, RequestFail, Rollback
<1> QED
  BY <1>4, <1>7, <1>8, <1>9, <1>10, <1>11, <1>12, <1>13, <1>14, <1>15, <1>16 DEF Step

-----------------------------------------------------------------------------

\* In every reachable state a request holds no other rows than MayHold says.
THEOREM LocksKept == Spec => [](IInv /\ LockInv)
<1>1. IInv /\ LockInv /\ [Next]_vars => LockInv'
  <2> SUFFICES ASSUME IInv, LockInv, [Next]_vars PROVE LockInv'
    OBVIOUS
  <2>1. CASE Next
    BY <2>1, LockStep DEF Next
  <2>2. CASE UNCHANGED vars
    BY <2>2 DEF vars, LockInv, OrderInv, Holds, MayHold, PastOwner
  <2> QED BY <2>1, <2>2
<1> QED BY <1>1, InitLocks, Invariance, PTL DEF Spec

\* Who waits in a circle, and for whom.
LEMMA WaitsInCircle ==
    ASSUME IInv, LockInv, NEW D \in SUBSET Requests, Circle(D), NEW r \in D
    PROVE  /\ req[r] # None /\ req[r] \in Request
           /\ req[r].at \in {"code", "owner", "device", "session", "member", "project"}
           /\ \E q \in D, x \in Rows :
                 /\ lock[x] = q /\ MayHold(q, x)
                 /\ req[r].at = "code" => x \in Codes
                 /\ req[r].at = "owner" => x = Owner
                 /\ req[r].at = "device" => x \in Devices
                 /\ req[r].at = "session" => x \in Sessions
                 /\ req[r].at = "member" => x \in Members
                 /\ req[r].at = "project" => x = Head(req[r].order) /\ x \in Projects
<1>0. TypeOK /\ RequestInv(r)
  BY DEF IInv, StateInv
<1>1. PICK x \in Wanted(r) : lock[x] \in D /\ lock[x] # None
  BY DEF Circle, WaitsFor
<1>2. /\ req[r] # None
      /\ req[r].at \in {"code", "owner", "device", "session", "member", "project"}
  BY <1>1 DEF Wanted
<1>3. req[r] \in Request /\ NamesRows(r) /\ NamesProjects(r)
  BY <1>0, <1>2 DEF TypeOK, RequestInv
<1>4. /\ req[r].at = "code" => x \in Codes
      /\ req[r].at = "owner" => x = Owner
      /\ req[r].at = "device" => x \in Devices
      /\ req[r].at = "session" => x \in Sessions
      /\ req[r].at = "member" => x \in Members
      /\ req[r].at = "project" => x = Head(req[r].order) /\ x \in Projects
  <2>1. CASE req[r].at = "code"
    BY <1>1, <1>2, <1>3, <2>1 DEF Wanted, NamesRows, StepsOf, Request, Operations,
          DeviceOperations, MemberOperations
  <2>2. CASE req[r].at = "owner"
    BY <1>1, <1>2, <2>2 DEF Wanted
  <2>3. CASE req[r].at = "device"
    <3>1. req[r].op \in Named
      BY <1>3, <2>3 DEF NamesRows, StepsOf, Request, Operations, DeviceOperations,
            MemberOperations, Named, Tokens
    <3>2. req[r].device \in Devices
      BY <1>0, <1>3, <2>3, <3>1 DEF NamesRows, Named, Tokens, TypeOK, Session
    <3> QED BY <1>1, <1>2, <2>3, <3>2 DEF Wanted
  <2>4. CASE req[r].at = "session"
    <3>1. req[r].op \in Named
      BY <1>3, <2>4 DEF NamesRows, StepsOf, Request, Operations, DeviceOperations,
            MemberOperations, Named, Tokens
    <3>2. CASE req[r].op = "revoke"
      BY <1>1, <1>2, <2>4, <3>2 DEF Wanted, SessionsOf
    <3>3. CASE req[r].op \in Tokens
      BY <1>1, <1>2, <1>3, <2>4, <3>3 DEF Wanted, NamesRows, Tokens
    <3> QED BY <3>1, <3>2, <3>3 DEF Named
  <2>5. CASE req[r].at = "member"
    BY <1>1, <1>2, <1>3, <2>5 DEF Wanted, NamesRows, StepsOf, Request, Operations,
          DeviceOperations, MemberOperations
  <2>6. CASE req[r].at = "project"
    <3>1. x = Head(req[r].order)
      BY <1>1, <1>2, <2>6 DEF Wanted
    <3>2. req[r].order \in Seq(Projects) /\ req[r].order # <<>>
      BY <1>3, <2>6 DEF NamesProjects, Request
    <3> QED BY <2>6, <3>1, <3>2
  <2> QED BY <1>2, <2>1, <2>2, <2>3, <2>4, <2>5, <2>6
<1>5. x \in Rows
  BY <1>2, <1>4 DEF Rows
<1>6. MayHold(lock[x], x)
  BY <1>1, <1>5 DEF LockInv, Holds
<1> HIDE DEF MayHold
<1> QED BY <1>1, <1>2, <1>3, <1>4, <1>5, <1>6

\* A circle of waits has a code or a pairing in it, and an assignment: device
\* operations are behind the OWNER's row, so one of them at a time locks a
\* project, device or session; assignments lock projects that rise.
THEOREM OnlyMixedCircles == Spec => []NoLockCycle
<1>1. ASSUME IInv, LockInv, NEW D \in SUBSET Requests, Circle(D)
      PROVE  /\ \E r \in D : req[r].op \in Selecting
             /\ \E r \in D : req[r].op \in MemberOperations
  <2> DEFINE Goal == /\ \E r \in D : req[r].op \in Selecting
                     /\ \E r \in D : req[r].op \in MemberOperations
  <2>0. \A r \in D : /\ r \in Requests /\ req[r] # None /\ req[r] \in Request
                     /\ req[r].at \in {"code", "owner", "device", "session", "member", "project"}
                     /\ NamesRows(r) /\ NamesProjects(r) /\ HoldsOwner(r)
    BY <1>1, WaitsInCircle DEF IInv, StateInv, RequestInv
  <2>a. ASSUME NEW r \in D
        PROVE  \E q \in D, x \in Rows :
                 /\ lock[x] = q /\ MayHold(q, x)
                 /\ req[r].at = "code" => x \in Codes
                 /\ req[r].at = "owner" => x = Owner
                 /\ req[r].at = "device" => x \in Devices
                 /\ req[r].at = "session" => x \in Sessions
                 /\ req[r].at = "member" => x \in Members
                 /\ req[r].at = "project" => x = Head(req[r].order) /\ x \in Projects
    BY <1>1, WaitsInCircle
  <2>1. ASSUME NEW r \in D PROVE req[r].at # "session"
    BY <2>0, <2>a DEF MayHold
  <2>2. ASSUME NEW r \in D PROVE req[r].at # "device"
    BY <2>0, <2>1, <2>a DEF MayHold
  <2>3. ASSUME NEW r \in D, req[r].at = "project"
        PROVE  \E q \in D : /\ lock[Head(req[r].order)] = q /\ Head(req[r].order) \in Projects
                            /\ MayHold(q, Head(req[r].order)) /\ req[q].at = "project"
                            /\ req[q].op \in Selecting \cup MemberOperations
    <3>1. PICK q \in D, x \in Rows : /\ lock[x] = q /\ MayHold(q, x)
                                     /\ x = Head(req[r].order) /\ x \in Projects
      BY <2>3, <2>a
    <3>2. req[q].at = "project" /\ req[q].op \in Selecting \cup MemberOperations
      BY <2>0, <3>1 DEF MayHold
    <3> HIDE DEF MayHold
    <3> QED BY <3>1, <3>2
  <2>b. ASSUME NEW r \in D, req[r].at = "project"
        PROVE  /\ req[r].order \in Seq(Projects) /\ Head(req[r].order) = req[r].order[1]
               /\ 1 \in DOMAIN req[r].order
    <3>1. req[r].order \in Seq(Projects) /\ req[r].order # <<>>
      BY <2>0, <2>b DEF NamesProjects, Request
    <3> QED BY <3>1, TailFacts
  <2>4. ASSUME NEW r \in D, req[r].at = "project", req[r].op \in Selecting PROVE Goal
    <3>1. PICK q \in D : /\ lock[Head(req[r].order)] = q /\ Head(req[r].order) \in Projects
                         /\ MayHold(q, Head(req[r].order)) /\ req[q].at = "project"
                         /\ req[q].op \in Selecting \cup MemberOperations
      BY <2>3, <2>4
    <3>2. CASE req[q].op \in Selecting
      <4>1. q = r
        BY <2>0, <2>4, <3>1, <3>2 DEF HoldsOwner, PastOwner, Selecting, DeviceOperations
      <4> QED BY <2>4, <2>b, <3>1, <4>1 DEF MayHold
    <3>3. CASE req[q].op \in MemberOperations
      BY <2>4, <3>3
    <3> QED BY <3>1, <3>2, <3>3
  <2>5. ASSUME NEW r \in D, req[r].at = "owner" PROVE Goal
    <3>1. PICK q \in D : PastOwner(q)
      BY <2>5, <2>a DEF MayHold
    <3>2. req[q].at = "project" /\ req[q].op \in Selecting
      BY <2>0, <2>1, <2>2, <3>1 DEF PastOwner, NamesRows, StepsOf, DeviceOperations, Selecting
    <3> QED BY <2>4, <3>2
  <2>6. ASSUME NEW r \in D, req[r].at = "code" PROVE Goal
    <3>1. PICK q \in D : req[q].op = "pair" /\ req[q].at # "code"
      BY <2>6, <2>a DEF MayHold
    <3>2. req[q].at = "project" \/ req[q].at = "owner"
      BY <2>0, <3>1 DEF NamesRows, StepsOf
    <3> QED BY <2>4, <2>5, <3>1, <3>2 DEF Selecting
  <2>7. SUFFICES ASSUME ~Goal PROVE FALSE
    OBVIOUS
  <2> HIDE DEF Goal
  <2>8. ASSUME NEW r \in D, req[r].at = "project" PROVE req[r].op \in MemberOperations
    <3>1. req[r].op \in Selecting \cup MemberOperations
      BY <2>0, <2>8 DEF NamesRows, StepsOf, Request, Operations, DeviceOperations,
            MemberOperations, Selecting
    <3> QED BY <2>4, <2>7, <2>8, <3>1
  <2> DEFINE Assigning == {r \in D : req[r].at = "project"}
             h == [r \in Assigning |-> Head(req[r].order)]
  <2>9. Assigning # {}
    <3>1. PICK r \in D : TRUE
      BY <1>1 DEF Circle
    <3>2. CASE req[r].at = "project"
      BY <3>2
    <3>3. CASE req[r].at = "member"
      <4>1. PICK q \in D : req[q].op = "replace" /\ req[q].at # "member"
        BY <2>a, <3>3 DEF MayHold
      <4>2. req[q].at = "project"
        BY <2>0, <4>1 DEF NamesRows, StepsOf
      <4> QED BY <4>2
    <3> QED BY <2>0, <2>1, <2>2, <2>5, <2>6, <2>7, <3>2, <3>3
  <2>10. IsFiniteSet(Assigning)
    BY LockAssumptions, FS_Subset
  <2>11. h \in [Assigning -> Nat]
    <3>1. Projects \subseteq Nat
      BY DeviceAssumptions DEF Projects
    <3> QED BY <2>3, <3>1
  <2>12. \A r \in Assigning : \E q \in Assigning : h[r] < h[q]
    <3> SUFFICES ASSUME NEW r \in D, req[r].at = "project"
                 PROVE  \E q \in Assigning : h[r] < h[q]
      OBVIOUS
    <3>1. PICK q \in D : /\ Head(req[r].order) \in Projects
                         /\ MayHold(q, Head(req[r].order)) /\ req[q].at = "project"
      BY <2>3
    <3>2. req[q].op \in MemberOperations
      BY <2>8, <3>1
    <3>3. Head(req[r].order) < req[q].order[1]
      BY <2>b, <3>1, <3>2 DEF MayHold
    <3> QED BY <2>b, <3>1, <3>3
  <2> HIDE DEF Assigning, h
  <2> QED BY <2>9, <2>10, <2>11, <2>12, NoRisingCircle
<1>2. IInv /\ LockInv => NoLockCycle
  BY <1>1 DEF NoLockCycle, Selecting
<1> QED BY <1>2, LocksKept, PTL
=============================================================================
