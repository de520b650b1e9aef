---------------------------- MODULE Updater_proofs ----------------------------
(***************************************************************************)
(* Whatever number of update processes run, overlap, are refused or are    *)
(* killed, a program is left on the workstation; and unless two of them    *)
(* replace it at the same time, what is installed was verified and is      *)
(* never older than what was installed before.                             *)
(***************************************************************************)
EXTENDS Updater, TLAPS

\* A process that has started runs from a file that still holds what it loaded:
\* Windows keeps that file from being deleted or overwritten.
RunInv ==
    \A p \in Processes :
        /\ proc[p].at = "idle" => image[p] = "none"
        /\ proc[p].at # "idle" => image[p] # "none" /\ file[image[p]] = Package(proc[p].loaded)

\* What a process was offered is newer than what it runs, and what it is about
\* to install matched its digest.
OfferInv ==
    \A p \in Processes :
        /\ proc[p].at \in {"digest", "package", "open"} \/ Replacing(p) =>
              proc[p].offer > proc[p].loaded
        /\ proc[p].at = "open" \/ Replacing(p) => proc[p].payload = Package(proc[p].offer)

\* As long as no two processes have met, the one that replaces the program knows
\* what .incoming holds, and that nobody has put superboss.exe back.
AloneInv ==
    \A p \in Processes : Replacing(p) =>
        /\ \A q \in Processes : Replacing(q) => p = q
        /\ IF proc[p].at = "write" THEN file["incoming"] = Content("partial")
           ELSE file["incoming"] \in {proc[p].payload, Content("absent")}
        /\ proc[p].at = "moveIncoming" => ~Exists("target")

\* The newest version is in its place or, between the two renames, set aside.
NewestInv ==
    IF Exists("target") THEN file["target"] = Package(newest)
    ELSE file["previous"] = Package(newest)

IInv ==
    /\ TypeOK /\ RunInv /\ OfferInv /\ ProgramSurvives
    /\ ~clash => AloneInv /\ NewestInv

\* The initial state satisfies the inductive invariant.
LEMMA InitInv == Init => IInv
<1> SUFFICES ASSUME Init PROVE IInv
  OBVIOUS
<1> USE UpdaterAssumptions DEF Init
<1>1. TypeOK
  <2>1. Package(1) \in File /\ Content("absent") \in File
    BY DEF Package, Content, File, Kinds
  <2>2. Idle \in Process
    BY <2>1 DEF Idle, Process
  <2>3. file \in [Names -> File]
    BY <2>1
  <2>4. proc \in [Processes -> Process]
    BY <2>2
  <2>5. image \in [Processes -> {"none", "target", "previous"}]
    OBVIOUS
  <2>6. newest \in Versions
    BY DEF Versions
  <2>7. latest \in 0 .. MaxVersion /\ clash \in BOOLEAN
    OBVIOUS
  <2> QED BY <2>3, <2>4, <2>5, <2>6, <2>7 DEF TypeOK
<1>2. RunInv /\ OfferInv /\ ProgramSurvives
  BY DEF RunInv, OfferInv, ProgramSurvives, Idle, Package, Replacing, Names
<1>3. AloneInv /\ NewestInv
  BY DEF AloneInv, NewestInv, Idle, Package, Replacing, Exists, Names
<1> QED BY <1>1, <1>2, <1>3 DEF IInv

\* A process that has started runs from a complete program.
LEMMA RunsFrom ==
    ASSUME TypeOK, RunInv, NEW p \in Processes, proc[p].at # "idle"
    PROVE  /\ image[p] \in {"target", "previous"}
           /\ file[image[p]] = Package(proc[p].loaded)
           /\ file[image[p]].kind = "package"
  BY DEF TypeOK, RunInv, Package

\* A step keeps the types.
LEMMA TypeStep ==
    ASSUME IInv, [Next]_vars
    PROVE  TypeOK'
<1> USE UpdaterAssumptions DEF TypeOK, history
<1>a. TypeOK /\ OfferInv
  BY DEF IInv
<1>b. Content("absent") \in File /\ Content("partial") \in File /\ Content("mixed") \in File
  BY DEF Content, File, Kinds
<1>c. Idle \in Process
  BY <1>b DEF Idle, Process
<1>1. CASE Publish
  BY <1>a, <1>1 DEF Publish
<1>2. ASSUME NEW p \in Processes, Start(p) PROVE TypeOK'
  <2>1. file["target"].version \in 0 .. MaxVersion
    BY <1>a DEF File, Names
  <2>2. proc' \in [Processes -> Process]
    BY <1>a, <1>2, <2>1 DEF Start, Process
  <2> QED BY <1>a, <1>2, <2>2 DEF Start
<1>3. ASSUME NEW p \in Processes, Check(p) PROVE TypeOK'
  <2>1. proc' \in [Processes -> Process]
    BY <1>a, <1>3 DEF Check, Process
  <2> QED BY <1>a, <1>3, <2>1 DEF Check
<1>4. ASSUME NEW p \in Processes, FetchPackage(p) PROVE TypeOK'
  <2>1. PICK k \in {"package", "other"} :
          proc' = [proc EXCEPT ![p] =
                    [@ EXCEPT !.at = "open", !.payload = [kind |-> k, version |-> proc[p].offer]]]
    BY <1>4 DEF FetchPackage
  <2>2. proc[p].offer \in 0 .. MaxVersion
    BY <1>a DEF Process
  <2>3. [kind |-> k, version |-> proc[p].offer] \in File
    BY <2>2 DEF File, Kinds
  <2>4. proc' \in [Processes -> Process]
    BY <1>a, <2>1, <2>3 DEF Process
  <2> QED BY <1>a, <1>4, <2>4 DEF FetchPackage
<1>5. ASSUME NEW p \in Processes, NEW a \in {"package", "write", "hasPrevious", "dropPrevious",
                    "hasTarget", "moveTarget", "moveIncoming", "cleanup", "finish"}, Goto(p, a)
      PROVE  proc' \in [Processes -> Process]
  BY <1>a, <1>5 DEF Goto, Process
<1>6. ASSUME NEW p \in Processes, Exit(p)
      PROVE  proc' \in [Processes -> Process]
             /\ image' \in [Processes -> {"none", "target", "previous"}]
  BY <1>a, <1>c, <1>6 DEF Exit
<1>7. ASSUME NEW p \in Processes, CheckEnds(p) \/ FetchFails(p) \/ Crash(p) PROVE TypeOK'
  BY <1>a, <1>6, <1>7 DEF CheckEnds, FetchFails, Crash
<1>8. ASSUME NEW p \in Processes,
             FetchDigest(p) \/ HasPrevious(p) \/ HasTarget(p) \/ OperationFails(p)
      PROVE  TypeOK'
  BY <1>a, <1>5, <1>8 DEF FetchDigest, HasPrevious, HasTarget, OperationFails
<1>9. ASSUME NEW p \in Processes, OpenIncoming(p) PROVE TypeOK'
  BY <1>a, <1>b, <1>5, <1>9 DEF OpenIncoming
<1>10. ASSUME NEW p \in Processes, WriteIncoming(p) PROVE TypeOK'
  <2>1. proc[p].payload \in File
    BY <1>a DEF Process
  <2> QED BY <1>a, <1>b, <1>5, <1>10, <2>1 DEF WriteIncoming
<1>11. ASSUME NEW p \in Processes, DropPrevious(p) PROVE TypeOK'
  BY <1>a, <1>b, <1>5, <1>11 DEF DropPrevious, Unlink
<1>12. ASSUME NEW p \in Processes, MoveTarget(p) PROVE TypeOK'
  BY <1>a, <1>b, <1>5, <1>12 DEF MoveTarget, Rename, Names
<1>13. ASSUME NEW p \in Processes, MoveIncoming(p) PROVE TypeOK'
  <2>1. file["incoming"] \in File /\ file["incoming"].version \in 0 .. MaxVersion
    BY <1>a DEF File, Names
  <2>2. newest' \in Versions
    BY <1>a, <1>13, <2>1 DEF MoveIncoming, Versions
  <2> QED BY <1>a, <1>b, <1>5, <1>13, <2>1, <2>2 DEF MoveIncoming, Rename, Names
<1>14. ASSUME NEW p \in Processes, Cleanup(p) \/ Finish(p) PROVE TypeOK'
  BY <1>a, <1>b, <1>6, <1>14 DEF Cleanup, Finish, Unlink
<1>15. CASE UNCHANGED vars
  BY <1>a, <1>15 DEF vars
<1> QED
  BY <1>1, <1>2, <1>3, <1>4, <1>7, <1>8, <1>9, <1>10, <1>11, <1>12, <1>13, <1>14, <1>15
    DEF Next, Work, Trouble

\* A step keeps the other conjuncts of the inductive invariant.
LEMMA StateStep ==
    ASSUME IInv, [Next]_vars
    PROVE  /\ RunInv' /\ OfferInv' /\ ProgramSurvives'
           /\ ~clash' => AloneInv' /\ NewestInv'
<1> DEFINE Kept == /\ RunInv' /\ OfferInv' /\ ProgramSurvives'
                   /\ ~clash' => AloneInv' /\ NewestInv'
<1> USE UpdaterAssumptions
    DEF IInv, TypeOK, RunInv, OfferInv, ProgramSurvives, AloneInv, NewestInv, Replacing,
        Exists, Idle, Process, File, Kinds, Names, Versions, Package, Content,
        Goto, Exit, history, Running, Writing, Removable, Rename, Unlink
<1>1. CASE Publish
  BY <1>1 DEF Publish
<1>2. ASSUME NEW p \in Processes, Start(p) PROVE Kept
  <2>2. RunInv'
    BY <1>2 DEF Start
  <2>3. OfferInv'
    BY <1>2 DEF Start
  <2>4. ProgramSurvives'
    BY <1>2 DEF Start
  <2>5. ~clash' => AloneInv'
    BY <1>2 DEF Start
  <2>6. ~clash' => NewestInv'
    BY <1>2 DEF Start
  <2> QED BY <2>2, <2>3, <2>4, <2>5, <2>6
<1>3. ASSUME NEW p \in Processes, Check(p) PROVE Kept
  <2>2. RunInv'
    BY <1>3 DEF Check, Newer
  <2>3. OfferInv'
    BY <1>3 DEF Check, Newer
  <2>4. ProgramSurvives'
    BY <1>3 DEF Check, Newer
  <2>5. ~clash' => AloneInv'
    BY <1>3 DEF Check, Newer
  <2>6. ~clash' => NewestInv'
    BY <1>3 DEF Check, Newer
  <2> QED BY <2>2, <2>3, <2>4, <2>5, <2>6
<1>4. ASSUME NEW p \in Processes, CheckEnds(p) PROVE Kept
  BY <1>4 DEF CheckEnds
<1>5. ASSUME NEW p \in Processes, FetchDigest(p) PROVE Kept
  BY <1>5 DEF FetchDigest
<1>6. ASSUME NEW p \in Processes, FetchPackage(p) PROVE Kept
  <2>2. RunInv'
    BY <1>6 DEF FetchPackage, Matches
  <2>3. OfferInv'
    BY <1>6 DEF FetchPackage, Matches
  <2>4. ProgramSurvives'
    BY <1>6 DEF FetchPackage, Matches
  <2>5. ~clash' => AloneInv'
    BY <1>6 DEF FetchPackage, Matches
  <2>6. ~clash' => NewestInv'
    BY <1>6 DEF FetchPackage, Matches
  <2> QED BY <2>2, <2>3, <2>4, <2>5, <2>6
<1>7. ASSUME NEW p \in Processes, FetchFails(p) PROVE Kept
  BY <1>7 DEF FetchFails
<1>8. ASSUME NEW p \in Processes, OpenIncoming(p) PROVE Kept
  <2>2. RunInv'
    BY <1>8 DEF OpenIncoming
  <2>3. OfferInv'
    BY <1>8 DEF OpenIncoming
  <2>4. ProgramSurvives'
    BY <1>8 DEF OpenIncoming
  <2>5. ~clash' => AloneInv'
    <3> SUFFICES ASSUME ~clash' PROVE AloneInv'
      OBVIOUS
    <3>1. \A q \in Processes \ {p} : ~Replacing(q)
      BY <1>8 DEF OpenIncoming
    <3>2. \A q \in Processes \ {p} : ~Replacing(q)'
      BY <1>8, <3>1 DEF OpenIncoming
    <3>3. proc'[p].at = "write" /\ file'["incoming"] = Content("partial")
      BY <1>8 DEF OpenIncoming
    <3> QED BY <3>2, <3>3
  <2>6. ~clash' => NewestInv'
    BY <1>8 DEF OpenIncoming
  <2> QED BY <2>2, <2>3, <2>4, <2>5, <2>6
<1>9. ASSUME NEW p \in Processes, WriteIncoming(p) PROVE Kept
  <2>1. RunInv' /\ OfferInv' /\ ProgramSurvives'
    BY <1>9 DEF WriteIncoming
  <2>2. ASSUME ~clash PROVE file'["incoming"] = proc[p].payload
    BY <1>9, <2>2 DEF WriteIncoming
  <2>3. ~clash' => AloneInv'
    BY <1>9, <2>2 DEF WriteIncoming
  <2>4. ~clash' => NewestInv'
    BY <1>9 DEF WriteIncoming
  <2> QED BY <2>1, <2>3, <2>4
<1>10. ASSUME NEW p \in Processes, HasPrevious(p) PROVE Kept
  BY <1>10 DEF HasPrevious
<1>11. ASSUME NEW p \in Processes, DropPrevious(p) PROVE Kept
  BY <1>11 DEF DropPrevious, Allowed
<1>12. ASSUME NEW p \in Processes, HasTarget(p) PROVE Kept
  BY <1>12 DEF HasTarget
<1>13. ASSUME NEW p \in Processes, MoveTarget(p) PROVE Kept
  <2>2. RunInv'
    BY <1>13 DEF MoveTarget, Allowed
  <2>3. OfferInv'
    BY <1>13 DEF MoveTarget, Allowed
  <2>4. ProgramSurvives'
    <3>1. image[p] \in {"target", "previous"} /\ file[image[p]].kind = "package"
      <4> HIDE DEF IInv, TypeOK, RunInv
      <4>1. proc[p].at # "idle"
        BY <1>13 DEF MoveTarget
      <4> QED BY <4>1, RunsFrom DEF IInv
    <3>2. image[p] = "target"
      BY <1>13, <3>1 DEF MoveTarget, Allowed
    <3> QED BY <1>13, <3>1, <3>2 DEF MoveTarget
  <2>5. ~clash' => AloneInv'
    BY <1>13 DEF MoveTarget, Allowed
  <2>6. ~clash' => NewestInv'
    BY <1>13 DEF MoveTarget, Allowed
  <2> QED BY <2>2, <2>3, <2>4, <2>5, <2>6
<1>14. ASSUME NEW p \in Processes, MoveIncoming(p) PROVE Kept
  <2>2. RunInv'
    BY <1>14 DEF MoveIncoming, Allowed
  <2>3. OfferInv'
    BY <1>14 DEF MoveIncoming, Allowed
  <2>4. ProgramSurvives'
    <3>1. image[p] \in {"target", "previous"} /\ file[image[p]].kind = "package"
      <4> HIDE DEF IInv, TypeOK, RunInv
      <4>1. proc[p].at # "idle"
        BY <1>14 DEF MoveIncoming
      <4> QED BY <4>1, RunsFrom DEF IInv
    <3>2. image[p] = "previous"
      BY <1>14, <3>1 DEF MoveIncoming, Allowed
    <3> QED BY <1>14, <3>1, <3>2 DEF MoveIncoming
  <2>5. ~clash' => AloneInv'
    BY <1>14 DEF MoveIncoming, Allowed
  <2>6. ~clash' => NewestInv'
    <3> SUFFICES ASSUME ~clash PROVE NewestInv'
      BY <1>14 DEF MoveIncoming
    <3>1. image[p] = "previous" /\ file["previous"] = Package(proc[p].loaded)
      <4>1. /\ image[p] \in {"target", "previous"}
            /\ file[image[p]] = Package(proc[p].loaded)
        <5> HIDE DEF IInv, TypeOK, RunInv, Package
        <5>1. proc[p].at # "idle"
          BY <1>14 DEF MoveIncoming
        <5> QED BY <5>1, RunsFrom DEF IInv
      <4>2. image[p] # "target"
        BY <1>14 DEF MoveIncoming, Allowed
      <4> QED BY <4>1, <4>2
    <3>2. proc[p].loaded = newest
      BY <1>14, <3>1 DEF MoveIncoming
    <3>3. file["incoming"] = Package(proc[p].offer) /\ proc[p].offer > newest
      <4>1. Replacing(p) /\ proc[p].at # "write" /\ Exists("incoming")
        BY <1>14 DEF MoveIncoming, Allowed
      <4>2. proc[p].payload = Package(proc[p].offer) /\ proc[p].offer > proc[p].loaded
        BY <4>1
      <4>3. file["incoming"] \in {proc[p].payload, Content("absent")}
        BY <4>1
      <4> QED BY <3>2, <4>1, <4>2, <4>3
    <3>4. file'["target"] = Package(proc[p].offer) /\ newest' = proc[p].offer
      BY <1>14, <3>3 DEF MoveIncoming
    <3> QED BY <3>4
  <2> QED BY <2>2, <2>3, <2>4, <2>5, <2>6
<1>15. ASSUME NEW p \in Processes, OperationFails(p) PROVE Kept
  BY <1>15 DEF OperationFails
<1>16. ASSUME NEW p \in Processes, Cleanup(p) PROVE Kept
  BY <1>16 DEF Cleanup
<1>17. ASSUME NEW p \in Processes, Finish(p) PROVE Kept
  <2>2. RunInv'
    BY <1>17 DEF Finish
  <2>3. OfferInv'
    BY <1>17 DEF Finish
  <2>4. ProgramSurvives'
    <3>1. image[p] \in {"target", "previous"} /\ file[image[p]].kind = "package"
      <4> HIDE DEF IInv, TypeOK, RunInv
      <4>1. proc[p].at # "idle"
        BY <1>17 DEF Finish
      <4> QED BY <4>1, RunsFrom DEF IInv
    <3>2. file'[image[p]] = file[image[p]]
      BY <1>17, <3>1 DEF Finish
    <3> QED BY <3>1, <3>2
  <2>5. ~clash' => AloneInv'
    BY <1>17 DEF Finish
  <2>6. ~clash' => NewestInv'
    <3> SUFFICES ASSUME ~clash PROVE NewestInv'
      BY <1>17 DEF Finish
    <3>1. CASE Exists("target")
      BY <1>17, <3>1 DEF Finish
    <3>2. CASE ~Exists("target")
      <4>1. image[p] = "previous"
        <5>1. /\ image[p] \in {"target", "previous"}
              /\ file[image[p]].kind = "package"
          <6> HIDE DEF IInv, TypeOK, RunInv
          <6>1. proc[p].at # "idle"
            BY <1>17 DEF Finish
          <6> QED BY <6>1, RunsFrom DEF IInv
        <5> QED BY <3>2, <5>1
      <4> QED BY <1>17, <3>2, <4>1 DEF Finish
    <3> QED BY <3>1, <3>2
  <2> QED BY <2>2, <2>3, <2>4, <2>5, <2>6
<1>18. ASSUME NEW p \in Processes, Crash(p) PROVE Kept
  BY <1>18 DEF Crash
<1>19. CASE UNCHANGED vars
  BY <1>19 DEF vars
<1> QED
  BY <1>1, <1>2, <1>3, <1>4, <1>5, <1>6, <1>7, <1>8, <1>9, <1>10, <1>11, <1>12, <1>13, <1>14, <1>15, <1>16, <1>17, <1>18, <1>19 DEF Next, Work, Trouble

\* The inductive invariant holds in every behaviour.
THEOREM Invariance == Spec => []IInv
<1>1. IInv /\ [Next]_vars => IInv'
  BY TypeStep, StateStep DEF IInv
<1> QED BY InitInv, <1>1, PTL DEF Spec

\* Releases, files and processes keep their types.
THEOREM TypeCorrect == Spec => []TypeOK
<1>1. IInv => TypeOK
  BY DEF IInv
<1> QED BY Invariance, <1>1, PTL

\* However many updates are killed, refused or overlap, a complete program is
\* left: each process keeps the file it runs from in being.
THEOREM ProgramAlwaysSurvives == Spec => []ProgramSurvives
<1>1. IInv => ProgramSurvives
  BY DEF IInv
<1> QED BY Invariance, <1>1, PTL

\* Unless two updates have met, superboss.exe holds a package that matched its
\* published digest.
THEOREM InstalledWasVerified == Spec => []OnlyVerifiedInstalled
<1>1. IInv => OnlyVerifiedInstalled
  BY DEF IInv, NewestInv, OnlyVerifiedInstalled, Package
<1> QED BY Invariance, <1>1, PTL

\* Unless two updates have met, the installed version is the highest one that
\* was ever installed.
THEOREM NoDowngrade == Spec => []NeverDowngraded
<1>1. IInv => NeverDowngraded
  BY DEF IInv, NewestInv, NeverDowngraded, Package, Exists
<1> QED BY Invariance, <1>1, PTL
=============================================================================
