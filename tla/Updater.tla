-------------------------------- MODULE Updater --------------------------------
(***************************************************************************)
(* The connector's self-update: updater.py and the --update and            *)
(* --check-update options of cli.py.  A process reads the latest release,  *)
(* then the digest and the package by requests of their own, and swaps     *)
(* superboss.exe through two fixed names beside it, one file operation at  *)
(* a time and under no lock.  The releases and the Windows file system are *)
(* external: a file that a process runs from may be renamed but neither    *)
(* deleted nor overwritten, and one that is open for writing may be        *)
(* neither renamed nor deleted.                                            *)
(***************************************************************************)
EXTENDS Integers

CONSTANTS
    Processes,  \* the connector processes
    MaxVersion  \* versions 1 .. MaxVersion are released

ASSUME UpdaterAssumptions == MaxVersion \in Nat \ {0}

VARIABLES
    latest,  \* the version of the latest release, 0 when there is none
    file,    \* superboss.exe, superboss.exe.incoming and superboss.exe.previous
    image,   \* the file each process runs from
    proc,    \* what each process is doing
    newest,  \* the highest version superboss.exe has had
    clash    \* two processes have replaced the program at the same time

vars == <<latest, file, image, proc, newest, clash>>
history == <<newest, clash>>

Versions == 1 .. MaxVersion
Names == {"target", "incoming", "previous"}

\* A file holds a published package, a download that does not match its digest,
\* part of what is being written, or bytes of two packages.
Kinds == {"absent", "package", "other", "partial", "mixed"}
File == [kind : Kinds, version : 0 .. MaxVersion]
Content(k) == [kind |-> k, version |-> 0]
Package(v) == [kind |-> "package", version |-> v]

Exists(name) == file[name].kind # "absent"

\* loaded is the version the process runs, offer the one it was offered and
\* payload what it has downloaded.
Process == [at : {"idle", "check", "digest", "package", "open", "write", "hasPrevious",
                  "dropPrevious", "hasTarget", "moveTarget", "moveIncoming",
                  "cleanup", "finish"},
            loaded : 0 .. MaxVersion, offer : 0 .. MaxVersion, payload : File]

Idle == [at |-> "idle", loaded |-> 0, offer |-> 0, payload |-> Content("absent")]

Init ==
    /\ latest \in 0 .. MaxVersion
    /\ file = [n \in Names |-> IF n = "target" THEN Package(1) ELSE Content("absent")]
    /\ image = [p \in Processes |-> "none"]
    /\ proc = [p \in Processes |-> Idle]
    /\ newest = 1
    /\ clash = FALSE

Goto(p, at) == proc' = [proc EXCEPT ![p].at = at]

Exit(p) ==
    /\ proc' = [proc EXCEPT ![p] = Idle]
    /\ image' = [image EXCEPT ![p] = "none"]

\* A release is published, or the newest ones are withdrawn.
Publish ==
    /\ \E v \in 0 .. MaxVersion : v # latest /\ latest' = v
    /\ UNCHANGED <<file, image, proc, history>>

-----------------------------------------------------------------------------
(* The file system.                                                        *)

Running(name) == {p \in Processes : image[p] = name}
Writing == {p \in Processes : proc[p].at = "write"}

\* The file may be deleted or replaced.
Removable(name) == Running(name) = {} /\ (name = "incoming" => Writing = {})

\* Path.replace; the processes that run from the file go with it.
Rename(from, to) ==
    /\ file' = [file EXCEPT ![to] = file[from], ![from] = Content("absent")]
    /\ image' = [p \in Processes |-> IF image[p] = from THEN to ELSE image[p]]

Unlink(name) == file' = [file EXCEPT ![name] = Content("absent")]

-----------------------------------------------------------------------------
(* The check and the download.                                             *)

\* superboss --update starts the program that superboss.exe holds.
Start(p) ==
    /\ proc[p].at = "idle"
    /\ file["target"].kind = "package"
    /\ proc' = [proc EXCEPT ![p] = [@ EXCEPT !.at = "check", !.loaded = file["target"].version]]
    /\ image' = [image EXCEPT ![p] = "target"]
    /\ UNCHANGED <<latest, file, history>>

\* Mutant of Newer: any other version is taken for a newer one.
Different(candidate, current) == candidate # current

\* is_newer
Newer(candidate, current) == candidate > current

\* check_for_update: a newer release is offered.
Check(p) ==
    /\ proc[p].at = "check"
    /\ Newer(latest, proc[p].loaded)
    /\ proc' = [proc EXCEPT ![p] = [@ EXCEPT !.at = "digest", !.offer = latest]]
    /\ UNCHANGED <<latest, file, image, history>>

\* No newer release, none at all, --check-update, a release that is refused, a
\* program that is not packaged: the process ends and has changed nothing.
CheckEnds(p) ==
    /\ proc[p].at = "check"
    /\ Exit(p)
    /\ UNCHANGED <<latest, file, history>>

\* install_update, the first request: the digest.
FetchDigest(p) ==
    /\ proc[p].at = "digest"
    /\ Goto(p, "package")
    /\ UNCHANGED <<latest, file, image, history>>

\* Mutant of Matches: the digest is not compared.
Unmatched(download) == download.kind # "absent"

\* install_update, the second request: the package, which may not be the one the
\* digest was taken of.
Matches(download) == download.kind = "package"

FetchPackage(p) ==
    /\ proc[p].at = "package"
    /\ \E k \in {"package", "other"} :
          LET download == [kind |-> k, version |-> proc[p].offer] IN
          /\ Matches(download)
          /\ proc' = [proc EXCEPT ![p] = [@ EXCEPT !.at = "open", !.payload = download]]
    /\ UNCHANGED <<latest, file, image, history>>

\* A request fails, or the digests differ.
FetchFails(p) ==
    /\ proc[p].at \in {"digest", "package"}
    /\ Exit(p)
    /\ UNCHANGED <<latest, file, history>>

-----------------------------------------------------------------------------
(* replace_executable.                                                     *)

Replacing(p) == proc[p].at \in {"write", "hasPrevious", "dropPrevious", "hasTarget",
                                "moveTarget", "moveIncoming"}

\* The operating system refuses what needs a file that is missing or in use.
Allowed(p) ==
    /\ proc[p].at = "dropPrevious" => Exists("previous") /\ Removable("previous")
    /\ proc[p].at = "moveTarget" => Exists("target") /\ Removable("previous")
    /\ proc[p].at = "moveIncoming" =>
          Exists("incoming") /\ Removable("incoming") /\ Removable("target")

\* write_bytes opens the file, which empties it, whoever else has written to it.
OpenIncoming(p) ==
    /\ proc[p].at = "open"
    /\ file' = [file EXCEPT !["incoming"] = Content("partial")]
    /\ Goto(p, "write")
    /\ clash' = (clash \/ \E q \in Processes \ {p} : Replacing(q))
    /\ UNCHANGED <<latest, image, newest>>

\* The bytes go in from the start of the file.  Those another process has written
\* in the meantime stay behind them when its package is longer.
WriteIncoming(p) ==
    /\ proc[p].at = "write"
    /\ \/ file' = [file EXCEPT !["incoming"] = proc[p].payload]
       \/ /\ file["incoming"].kind # "partial" /\ file["incoming"] # proc[p].payload
          /\ file' = [file EXCEPT !["incoming"] = Content("mixed")]
    /\ Goto(p, "hasPrevious")
    /\ UNCHANGED <<latest, image, history>>

\* Mutant of HasPrevious: a leftover of an earlier update is taken for an error.
RefusePrevious(p) ==
    /\ proc[p].at = "hasPrevious"
    /\ Goto(p, IF Exists("previous") THEN "cleanup" ELSE "hasTarget")
    /\ UNCHANGED <<latest, file, image, history>>

\* previous.exists()
HasPrevious(p) ==
    /\ proc[p].at = "hasPrevious"
    /\ Goto(p, IF Exists("previous") THEN "dropPrevious" ELSE "hasTarget")
    /\ UNCHANGED <<latest, file, image, history>>

\* previous.unlink()
DropPrevious(p) ==
    /\ proc[p].at = "dropPrevious"
    /\ Allowed(p)
    /\ Unlink("previous")
    /\ Goto(p, "hasTarget")
    /\ UNCHANGED <<latest, image, history>>

\* target.exists()
HasTarget(p) ==
    /\ proc[p].at = "hasTarget"
    /\ Goto(p, IF Exists("target") THEN "moveTarget" ELSE "moveIncoming")
    /\ UNCHANGED <<latest, file, image, history>>

\* Mutant of MoveTarget: the program is deleted instead of set aside.
DeleteTarget(p) ==
    /\ proc[p].at = "moveTarget"
    /\ Exists("target")
    /\ Unlink("target")
    /\ Goto(p, "moveIncoming")
    /\ UNCHANGED <<latest, image, history>>

\* target.replace(previous)
MoveTarget(p) ==
    /\ proc[p].at = "moveTarget"
    /\ Allowed(p)
    /\ Rename("target", "previous")
    /\ Goto(p, "moveIncoming")
    /\ UNCHANGED <<latest, history>>

\* incoming.replace(target)
MoveIncoming(p) ==
    /\ proc[p].at = "moveIncoming"
    /\ Allowed(p)
    /\ Rename("incoming", "target")
    /\ newest' = IF file["incoming"].version > newest THEN file["incoming"].version ELSE newest
    /\ Goto(p, "finish")
    /\ UNCHANGED <<latest, clash>>

\* A file operation raises OSError: the system refuses it, or anything else
\* stands in its way.  What was renamed is not renamed back.
OperationFails(p) ==
    /\ Replacing(p) \/ proc[p].at = "open"
    /\ Goto(p, "cleanup")
    /\ UNCHANGED <<latest, file, image, history>>

\* incoming.unlink(missing_ok=True); when that is refused too, its error ends the
\* process.
Cleanup(p) ==
    /\ proc[p].at = "cleanup"
    /\ Exit(p)
    /\ \/ Removable("incoming") /\ Unlink("incoming")
       \/ UNCHANGED file
    /\ UNCHANGED <<latest, history>>

\* previous.unlink(missing_ok=True), its error dropped: as a rule previous is the
\* file this process runs from.
Finish(p) ==
    /\ proc[p].at = "finish"
    /\ Exit(p)
    /\ \/ Removable("previous") /\ Unlink("previous")
       \/ UNCHANGED file
    /\ UNCHANGED <<latest, history>>

\* The process is killed.
Crash(p) ==
    /\ proc[p].at # "idle"
    /\ Exit(p)
    /\ UNCHANGED <<latest, file, history>>

-----------------------------------------------------------------------------
Work(p) ==
    \/ Check(p) \/ FetchDigest(p) \/ FetchPackage(p)
    \/ OpenIncoming(p) \/ WriteIncoming(p) \/ HasPrevious(p) \/ DropPrevious(p)
    \/ HasTarget(p) \/ MoveTarget(p) \/ MoveIncoming(p) \/ Cleanup(p) \/ Finish(p)

Trouble(p) == CheckEnds(p) \/ FetchFails(p) \/ OperationFails(p) \/ Crash(p)

Next == Publish \/ \E p \in Processes : Start(p) \/ Work(p) \/ Trouble(p)

Spec == Init /\ [][Next]_vars

\* A process that has started goes on, and the user tries again.
RepeatedSpec ==
    /\ Spec
    /\ \A p \in Processes : WF_vars(Start(p)) /\ WF_vars(Work(p) \/ Trouble(p))

-----------------------------------------------------------------------------
(* Properties.                                                             *)

\* The type invariant of the releases, the files and the processes.
TypeOK ==
    /\ latest \in 0 .. MaxVersion
    /\ file \in [Names -> File]
    /\ image \in [Processes -> {"none", "target", "previous"}]
    /\ proc \in [Processes -> Process]
    /\ newest \in Versions
    /\ clash \in BOOLEAN

\* Wherever replace_executable is killed or refused, and whatever a second update
\* does to the same two names, a complete program is left on the workstation: the
\* one superboss.exe holds, or the one it was renamed to.
ProgramSurvives == file["target"].kind = "package" \/ file["previous"].kind = "package"

\* What superboss.exe holds matched a published digest and is whole, also when
\* updates before were cut off halfway.  Two updates that replace the program at
\* the same time share the name .incoming, and only then may one install what
\* the other has not finished writing.
OnlyVerifiedInstalled == Exists("target") /\ ~clash => file["target"].kind = "package"

\* An update never installs a version older than one installed before, though
\* releases are withdrawn and a slow update ends after a faster one: a process
\* that is out of date runs from previous, which it can neither delete nor
\* overwrite.  Only updates that met in replace_executable are excepted.
NeverDowngraded ==
    file["target"].kind = "package" /\ ~clash => file["target"].version = newest

\* Steps in which nothing goes wrong but what the system itself refuses.
Calm ==
    \E p \in Processes :
        \/ Start(p) \/ Work(p)
        \/ CheckEnds(p) /\ ~Newer(latest, proc[p].loaded)
        \/ OperationFails(p) /\ ~Allowed(p)

\* What interrupted updates leave behind stands in no later one's way: once
\* nothing else goes wrong, trying again installs the latest release, unless the
\* program is gone from its place.
RetryInstallsLatest ==
    <>[][Calm]_vars =>
        <>[](file["target"].kind = "package" => file["target"].version >= latest)
================================================================================
