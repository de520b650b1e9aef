------------------------------ MODULE Connector ------------------------------
(***************************************************************************)
(* The workstation connector                                               *)
(* (integrations/kimi-superboss/connector/src/superboss_connector):        *)
(* the commands pair, submit, retry and status of cli.py, one at a time    *)
(* under the operation lock, with the files the outbox keeps for crash     *)
(* recovery, the rotating credential in the keyring, and the calls they    *)
(* make to the server.  A command can be killed, or a call can fail, at    *)
(* every step; what is on disk, in the keyring and on the server stays.    *)
(***************************************************************************)
EXTENDS Naturals

CONSTANTS
    Devices,      \* device ids the server gives out
    Serials,      \* a device and a serial number make a refresh token, which also
                  \* names its session; numbers nobody holds are used again
    Keys,         \* idempotency keys, a fresh one for every submission
    AttachmentCount,  \* the attachments of a manifest, in upload order
    PartCount,        \* the parts of an attachment
    None

Tokens == Devices \X Serials
Attachments == 1 .. AttachmentCount
Parts == 1 .. PartCount

VARIABLES
    outbox,       \* the one entry, or None
    replacement,  \* replacement.marker, or None
    pairing,      \* pair-completion.marker, or None
    cred,         \* the refresh token in the keyring, or None
    content,      \* the local files: as approved, or changed since
    pc, hand, access, cmd,             \* the running command
    live,                               \* the sessions the server accepts
    job,                                \* the server's import jobs
    used, reported, abandoned           \* keys: submitted, reported, given up

diskVars    == <<outbox, replacement, pairing, cred>>
commandVars == <<pc, hand, access, cmd>>
serverVars  == <<live, job>>
keyVars     == <<used, reported, abandoned>>

vars == <<diskVars, content, commandVars, serverVars, keyVars>>

Phase == {"CREATE", "UPLOAD", "SUBMIT", "EVIDENCE"}

Entry == [key : Keys, phase : Phase, device : Devices \cup {None},
          parts : [Attachments -> Parts \cup {0}], completed : SUBSET Attachments]

Marker == [old : Tokens \cup {None}, key : Keys \cup {None}]

Job == [submitted : BOOLEAN,
        file : [Attachments -> {"UPLOADING", "QUARANTINED", "FAILED"}],
        stored : [Attachments -> [Parts -> {"approved", "changed", None}]]]

\* A token is never the successor of itself, so that there are two serials at least.
ASSUME ConnectorAssumptions ==
    /\ AttachmentCount \in Nat \ {0} /\ PartCount \in Nat \ {0}
    /\ \A n \in Serials : \E m \in Serials : m # n
    /\ Serials # {}
    /\ None \notin Devices \cup Keys \cup Tokens \cup {"approved", "changed"}
    /\ None \notin Entry /\ None \notin Marker /\ None \notin Job

DeviceOf(t) == IF t = None THEN None ELSE t[1]

Init ==
    /\ outbox = None /\ replacement = None /\ pairing = None /\ cred = None
    /\ content = "approved"
    /\ pc = "idle" /\ hand = None /\ access = None /\ cmd = None
    /\ live = {}
    /\ job = [dk \in Devices \X Keys |-> None]
    /\ used = {} /\ reported = {} /\ abandoned = {}

-----------------------------------------------------------------------------

Goto(label) == pc' = label /\ UNCHANGED cmd

\* The command ends.
End ==
    /\ pc' = "idle" /\ cmd' = None
    /\ hand' = None /\ access' = None

\* The tokens that are written somewhere.
Held == {cred, hand, access}
            \cup (IF replacement = None THEN {} ELSE {replacement.old})
            \cup (IF pairing = None THEN {} ELSE {pairing.old})

\* A device id that is new to the workstation.
Unknown(d) ==
    /\ \A t \in Held : DeviceOf(t) # d
    /\ outbox # None => outbox.device # d

NewDevice == CHOOSE d \in Devices : Unknown(d)

NewToken(d) == <<d, CHOOSE n \in Serials : <<d, n>> \notin Held>>

\* The server opens a session and spends another one.  What no later call names
\* is forgotten here: sessions whose token nobody holds, jobs of operations that
\* are over (only status reads them) and those of an id that is given out again.
Issue(t, spent) ==
    /\ live' = ((live \cap Held) \ spent) \cup {t}
    /\ hand' = t
    /\ job' = [dk \in DOMAIN job |->
                  IF outbox = None \/ dk[2] # outbox.key \/ (spent = {} /\ dk[1] = DeviceOf(t))
                  THEN None ELSE job[dk]]

\* _credential_was_replaced
Replaced(marker) == cred # None /\ cred # marker.old

\* The outbox entry is deleted without a report of its result.
Abandon ==
    /\ outbox' = None
    /\ abandoned' = abandoned \cup {outbox.key}

-----------------------------------------------------------------------------
(* Every command first recovers from an interrupted pair.                  *)

\* The commands other than pair refuse to run beside a pairing marker.
Begin(c) ==
    /\ pc = "idle" /\ (c # "pair" => pairing = None)
    /\ cmd' = c /\ pc' = "recover"
    /\ UNCHANGED <<diskVars, content, hand, access, serverVars, keyVars>>

BeginPair == Begin("pair")
BeginSubmit == used # Keys /\ Begin("submit")
BeginRetry == Begin("retry")
BeginStatus == Begin("status")

AfterRecovery == CASE cmd = "pair"   -> "pairCheck"
                   [] cmd = "submit" -> "open"
                   [] cmd = "retry"  -> "load"
                   [] cmd = "status" -> "refresh"

NothingToRecover ==
    /\ pc = "recover" /\ replacement = None
    /\ Goto(AfterRecovery)
    /\ UNCHANGED <<diskVars, content, hand, access, serverVars, keyVars>>

\* The marker names the entry, and the credential is not the old one.
Superseded ==
    /\ Replaced(replacement)
    /\ outbox # None /\ outbox.key = replacement.key

\* _recover_replacement: the pairing took effect, so the operation the old
\* device began is over.
RecoverOutbox ==
    /\ pc = "recover" /\ replacement # None /\ Superseded
    /\ Abandon
    /\ UNCHANGED <<replacement, pairing, cred, content, commandVars, serverVars, used,
                   reported>>

\* pair ends here when its predecessor did take effect.
RecoverMarker ==
    /\ pc = "recover" /\ replacement # None /\ ~Superseded
    /\ replacement' = None
    /\ IF cmd = "pair" /\ Replaced(replacement)
         THEN End
         ELSE Goto(AfterRecovery) /\ UNCHANGED <<hand, access>>
    /\ UNCHANGED <<outbox, pairing, cred, content, serverVars, keyVars>>

-----------------------------------------------------------------------------
(* pair                                                                    *)

\* _recover_initial_pair
PairCheck ==
    /\ pc = "pairCheck"
    /\ pairing' = None
    /\ IF pairing # None /\ Replaced(pairing)
         THEN End
         ELSE Goto("pairMark") /\ UNCHANGED <<hand, access>>
    /\ UNCHANGED <<outbox, replacement, cred, content, serverVars, keyVars>>

\* Mutant of PairAllowed: an unreported result is abandoned as well.
PairAlways == TRUE


PairAllowed == ~(outbox # None /\ outbox.phase = "EVIDENCE")

\* Mutant of PairMark: no marker is written.
PairUnmarked ==
    /\ pc = "pairMark" /\ PairAllowed
    /\ Goto("pairCall")
    /\ UNCHANGED <<diskVars, content, hand, access, serverVars, keyVars>>

SavePairCompletionMarker ==
    /\ outbox = None
    /\ pairing' = [old |-> cred, key |-> None] /\ UNCHANGED replacement

SaveReplacementMarker ==
    /\ outbox # None
    /\ replacement' = [old |-> cred, key |-> outbox.key] /\ UNCHANGED pairing

\* The marker is on disk before the server is asked.
PairMark ==
    /\ pc = "pairMark" /\ PairAllowed
    /\ SavePairCompletionMarker \/ SaveReplacementMarker
    /\ Goto("pairCall")
    /\ UNCHANGED <<outbox, cred, content, hand, access, serverVars, keyVars>>

PairRefused ==
    /\ pc = "pairMark" /\ ~PairAllowed
    /\ End
    /\ UNCHANGED <<diskVars, content, serverVars, keyVars>>

\* The server makes a device and its first session.
PairCall ==
    /\ pc = "pairCall" /\ \E d \in Devices : Unknown(d)
    /\ Issue(NewToken(NewDevice), {})
    /\ Goto("pairStore")
    /\ UNCHANGED <<diskVars, content, access, keyVars>>

PairStore ==
    /\ pc = "pairStore"
    /\ cred' = hand /\ Goto("pairDrop")
    /\ UNCHANGED <<outbox, replacement, pairing, content, hand, access, serverVars,
                   keyVars>>

PairDrop ==
    /\ pc = "pairDrop"
    /\ \/ outbox # None /\ Abandon
       \/ outbox = None /\ UNCHANGED <<outbox, abandoned>>
    /\ Goto("pairDone")
    /\ UNCHANGED <<replacement, pairing, cred, content, hand, access, serverVars, used,
                   reported>>

PairDone ==
    /\ pc = "pairDone"
    /\ replacement' = None /\ pairing' = None
    /\ End
    /\ UNCHANGED <<outbox, cred, content, serverVars, keyVars>>

-----------------------------------------------------------------------------
(* submit and retry up to the access token                                 *)

\* The UUID of a new manifest.
FreshKey == CHOOSE k \in Keys : k \notin used

\* submit checkpoints a new operation; an unfinished one refuses it.
Open ==
    /\ pc = "open"
    /\ \/ /\ outbox = None
          /\ outbox' = [key |-> FreshKey, phase |-> "CREATE", device |-> DeviceOf(cred),
                        parts |-> [a \in Attachments |-> 0], completed |-> {}]
          /\ content' = "approved" /\ used' = used \cup {FreshKey}
          /\ Goto("refresh") /\ UNCHANGED <<hand, access>>
       \/ /\ outbox # None /\ End
          /\ UNCHANGED <<outbox, content, used>>
    /\ UNCHANGED <<replacement, pairing, cred, serverVars, reported, abandoned>>

\* A local file changed: the command ends with exit code 4 and the entry goes.
FileChanged ==
    /\ Abandon
    /\ End
    /\ UNCHANGED <<replacement, pairing, cred, content, serverVars, used, reported>>

\* The manifest and every attachment still hash to what the entry records.
Prepared == content = "approved"

Load ==
    /\ pc = "load"
    /\ \/ /\ outbox = None /\ End
          /\ UNCHANGED <<diskVars, content, serverVars, keyVars>>
       \/ /\ outbox # None /\ outbox.phase = "EVIDENCE" /\ Goto("print")
          /\ UNCHANGED <<diskVars, content, hand, access, serverVars, keyVars>>
       \/ /\ outbox # None /\ outbox.phase # "EVIDENCE" /\ ~Prepared
          /\ FileChanged
       \/ /\ outbox # None /\ outbox.phase # "EVIDENCE" /\ Prepared
          /\ Goto("refresh")
          /\ UNCHANGED <<diskVars, content, hand, access, serverVars, keyVars>>

\* refresh: the server spends the token and issues the next one.
Refresh ==
    /\ pc = "refresh" /\ cred \in live
    /\ Issue(NewToken(DeviceOf(cred)), {cred})
    /\ Goto("store")
    /\ UNCHANGED <<diskVars, content, access, keyVars>>

\* No credential, or one the server does not accept.
RefreshDenied ==
    /\ pc = "refresh" /\ cred \notin live
    /\ End
    /\ UNCHANGED <<diskVars, content, serverVars, keyVars>>

Store ==
    /\ pc = "store"
    /\ cred' = hand /\ access' = hand /\ hand' = None
    /\ Goto(IF cmd = "status" THEN "read" ELSE "resume")
    /\ UNCHANGED <<outbox, replacement, pairing, content, serverVars, keyVars>>

\* status reads one job and keeps nothing.
ReadStatus ==
    /\ pc = "read"
    /\ End
    /\ UNCHANGED <<diskVars, content, serverVars, keyVars>>

-----------------------------------------------------------------------------
(* _resume                                                                 *)

In(phase) == pc = "resume" /\ outbox.phase = phase

\* The job the access token reaches under the entry's key.
Here == <<DeviceOf(access), outbox.key>>

Reached == access \in live /\ job[Here] # None

\* The attachment whose next part is to be sent.
Uploading(a) ==
    /\ a \in Attachments \ outbox.completed
    /\ \A b \in Attachments \ outbox.completed : a <= b
    /\ outbox.parts[a] < PartCount

\* The attachment whose parts are all sent.
Completing(a) ==
    /\ a \in Attachments \ outbox.completed
    /\ \A b \in Attachments \ outbox.completed : a <= b
    /\ outbox.parts[a] = PartCount

Untouched(j) == ~j.submitted /\ \A a \in Attachments : j.file[a] = "UPLOADING"

\* A revoked session, a job of another device, or one that cannot do what is
\* asked of it.
CallRejected ==
    /\ \/ pc = "resume" /\ access \notin live
       \/ In("CREATE") /\ job[Here] # None /\ ~Untouched(job[Here])
       \/ pc = "resume" /\ ~In("CREATE") /\ job[Here] = None
       \/ /\ In("UPLOAD") \/ pc = "put"
          /\ \E a \in Attachments :
                Uploading(a) /\ job[Here] # None /\ job[Here].file[a] # "UPLOADING"
       \/ /\ In("SUBMIT") /\ job[Here] # None
          /\ \E a \in Attachments : job[Here].file[a] = "UPLOADING"
    /\ End
    /\ UNCHANGED <<diskVars, content, serverVars, keyVars>>

NewJob == [submitted |-> FALSE, file |-> [a \in Attachments |-> "UPLOADING"],
           stored |-> [a \in Attachments |-> [n \in Parts |-> None]]]

\* create_job is idempotent; its answer must be a job nothing happened to.
Create ==
    /\ In("CREATE") /\ access \in live
    /\ \/ job[Here] = None /\ job' = [job EXCEPT ![Here] = NewJob]
       \/ job[Here] # None /\ Untouched(job[Here]) /\ UNCHANGED job
    /\ Goto("bind")
    /\ UNCHANGED <<diskVars, content, hand, access, live, keyVars>>

\* A checkpoint: the in-memory entry replaces the file atomically.
Save(entry) ==
    /\ outbox' = entry
    /\ UNCHANGED <<replacement, pairing, cred, content, hand, access, serverVars, keyVars>>

Bind ==
    /\ pc = "bind"
    /\ Save([outbox EXCEPT !.phase = "UPLOAD"])
    /\ Goto("resume")

\* The attachment is hashed again.
Verified == content = "approved"

\* verify_attachment fails before a part, a completion, or on reading a part.
VerifyFails ==
    /\ In("UPLOAD") \/ pc = "put"
    /\ ~Verified
    /\ FileChanged

\* Mutant of PartUrl: the part is checkpointed before it is sent.
PartUrlSaved(a) ==
    /\ In("UPLOAD") /\ Uploading(a) /\ Verified
    /\ Reached /\ job[Here].file[a] = "UPLOADING"
    /\ Save([outbox EXCEPT !.parts[a] = @ + 1])
    /\ Goto("put")

PartUrl(a) ==
    /\ In("UPLOAD") /\ Uploading(a) /\ Verified
    /\ Reached /\ job[Here].file[a] = "UPLOADING"
    /\ Goto("put")
    /\ UNCHANGED <<diskVars, content, hand, access, serverVars, keyVars>>

\* Mutant of DigestMatches: the part that is read is not hashed again.
DigestUnchecked == TRUE

DigestMatches == content = "approved"

\* _read_part hashes what it read, so only approved bytes are sent.
PutPart(a) ==
    /\ pc = "put" /\ Uploading(a)
    /\ DigestMatches /\ job[Here].file[a] = "UPLOADING"
    /\ job' = [job EXCEPT ![Here].stored[a][outbox.parts[a] + 1] = content]
    /\ Goto("partSave")
    /\ UNCHANGED <<diskVars, content, hand, access, live, keyVars>>

PartSave(a) ==
    /\ pc = "partSave" /\ Uploading(a)
    /\ Save([outbox EXCEPT !.parts[a] = @ + 1])
    /\ Goto("resume")

\* complete_attachment; the server answers with the state of a file that is
\* not uploading any more, and the client accepts it.
Complete(a) ==
    /\ In("UPLOAD") /\ Completing(a)
    /\ Verified /\ Reached
    /\ \/ /\ job[Here].file[a] = "UPLOADING"
          /\ job' = [job EXCEPT ![Here].file[a] = "QUARANTINED"]
       \/ job[Here].file[a] # "UPLOADING" /\ UNCHANGED job
    /\ Goto("completeSave")
    /\ UNCHANGED <<diskVars, content, hand, access, live, keyVars>>

CompleteSave(a) ==
    /\ pc = "completeSave" /\ Completing(a)
    /\ Save([outbox EXCEPT !.completed = @ \cup {a}])
    /\ Goto("resume")

ToSubmit ==
    /\ In("UPLOAD") /\ outbox.completed = Attachments
    /\ Save([outbox EXCEPT !.phase = "SUBMIT"])
    /\ Goto("resume")

SubmitJob ==
    /\ In("SUBMIT") /\ Reached
    /\ \A a \in Attachments : job[Here].file[a] # "UPLOADING"
    /\ job' = [job EXCEPT ![Here].submitted = TRUE]
    /\ Goto("evidence")
    /\ UNCHANGED <<diskVars, content, hand, access, live, keyVars>>

SaveEvidence ==
    /\ pc = "evidence"
    /\ Save([outbox EXCEPT !.phase = "EVIDENCE"])
    /\ Goto("print")

\* Mutant of PrintResult: the entry is deleted before the result is printed.
DeleteFirst ==
    /\ pc = "print"
    /\ outbox' = None /\ Goto("drop")
    /\ UNCHANGED <<replacement, pairing, cred, content, hand, access, serverVars, keyVars>>

PrintResult ==
    /\ pc = "print"
    /\ reported' = reported \cup {outbox.key}
    /\ Goto("drop")
    /\ UNCHANGED <<diskVars, content, hand, access, serverVars, used, abandoned>>

DropEntry ==
    /\ pc = "drop"
    /\ outbox' = None
    /\ End
    /\ UNCHANGED <<replacement, pairing, cred, content, serverVars, keyVars>>

-----------------------------------------------------------------------------

\* A call fails or its answer is lost, a write fails, or the process is
\* killed: exit code 2, 3 or 6, or none at all.
Interrupt ==
    /\ pc # "idle"
    /\ End
    /\ UNCHANGED <<diskVars, content, serverVars, keyVars>>

\* The user edits the manifest or an attachment.
ChangeFiles ==
    /\ content = "approved" /\ outbox # None
    /\ content' = "changed"
    /\ UNCHANGED <<diskVars, commandVars, serverVars, keyVars>>

\* The OWNER revokes a device: all its sessions end.
Revoke(d) ==
    /\ \E t \in live : DeviceOf(t) = d
    /\ live' = {t \in live : DeviceOf(t) # d}
    /\ UNCHANGED <<diskVars, content, commandVars, job, keyVars>>

\* The server's janitor expires an upload.
Expire(dk, a) ==
    /\ job[dk] # None /\ job[dk].file[a] = "UPLOADING"
    /\ job' = [job EXCEPT ![dk].file[a] = "FAILED"]
    /\ UNCHANGED <<diskVars, content, commandVars, live, keyVars>>

\* The steps a running command takes by itself.
CommandStep ==
    \/ NothingToRecover \/ RecoverOutbox \/ RecoverMarker
    \/ PairCheck \/ PairMark \/ PairRefused \/ PairCall \/ PairStore \/ PairDrop \/ PairDone
    \/ Open \/ Load \/ Refresh \/ RefreshDenied \/ Store \/ ReadStatus
    \/ CallRejected \/ Create \/ Bind \/ VerifyFails \/ ToSubmit \/ SubmitJob
    \/ \E a \in Attachments :
          PartUrl(a) \/ PutPart(a) \/ PartSave(a) \/ Complete(a) \/ CompleteSave(a)
    \/ SaveEvidence \/ PrintResult \/ DropEntry

Environment ==
    \/ ChangeFiles
    \/ \E d \in Devices : Revoke(d)
    \/ \E dk \in Devices \X Keys, a \in Attachments : Expire(dk, a)

Uninterrupted ==
    \/ BeginPair \/ BeginSubmit \/ BeginRetry \/ BeginStatus
    \/ CommandStep \/ Environment

Next == Uninterrupted \/ Interrupt

Spec == Init /\ [][Next]_vars

\* When the user is told to pair again: until then a command that calls the server
\* ends with exit code 3, or one that meets the marker of a pairing with
\* PAIR_INCOMPLETE.
PairAsked == cred \notin live \/ pairing # None

(***************************************************************************)
(* From some point on nothing is interrupted and running commands go on;   *)
(* the user runs retry again and again, as OUTBOX_CONFLICT asks for while  *)
(* an operation is unfinished, and pairs again when SKILL.md says so, for  *)
(* exit code 3 and a pairing that is incomplete.  After exit code 5 nobody *)
(* need pair.  Commands are bounded by the HTTP and resolver timeouts      *)
(* (config.py), so that they do not hang.                                  *)
(***************************************************************************)
RecoveringSpec ==
    /\ Spec /\ <>[][Uninterrupted]_vars
    /\ WF_vars(CommandStep) /\ SF_vars(BeginRetry) /\ SF_vars(PairAsked /\ BeginPair)

-----------------------------------------------------------------------------
(* Properties.                                                             *)

\* The type invariant of disk, command and server.
TypeOK ==
    /\ outbox \in Entry \cup {None}
    /\ replacement \in Marker \cup {None} /\ pairing \in Marker \cup {None}
    /\ cred \in Tokens \cup {None} /\ hand \in Tokens \cup {None}
    /\ access \in Tokens \cup {None}
    /\ content \in {"approved", "changed"}
    /\ live \subseteq Tokens
    /\ job \in [Devices \X Keys -> Job \cup {None}]
    /\ used \subseteq Keys /\ reported \subseteq Keys /\ abandoned \subseteq Keys

\* Wherever pair was interrupted, an operation in the outbox belongs to the
\* device of the credential, or a marker is left that makes the next command
\* give it up: it is never resumed with another device's identity.
OperationKeepsDevice ==
    outbox # None =>
        \/ outbox.device = DeviceOf(cred)
        \/ replacement # None /\ Superseded

\* After every crash the checkpoint is behind the server, never ahead: a job
\* that is bound exists, a part that is recorded is stored, a completed
\* attachment is not uploading.
CheckpointBehindServer ==
    outbox # None /\ outbox.phase # "CREATE" =>
        LET j == job[<<outbox.device, outbox.key>>] IN
        /\ j # None
        /\ \A a \in Attachments :
            /\ \A n \in 1 .. outbox.parts[a] : j.stored[a][n] # None
            /\ a \in outbox.completed => j.file[a] # "UPLOADING"

\* Whenever a local file is edited, even between its verification and its
\* read, the server never stores bytes other than the approved ones.
ApprovedContentOnly ==
    \A dk \in Devices \X Keys : job[dk] # None =>
        \A a \in Attachments, n \in Parts : job[dk].stored[a][n] # "changed"

\* A job that was submitted is reported, or can still be, unless its entry was
\* given up by a new pairing or a changed file.
SubmittedIsAccountedFor ==
    \A d \in Devices, k \in Keys :
        job[<<d, k>>] # None /\ job[<<d, k>>].submitted =>
            \/ k \in reported \cup abandoned
            \/ outbox # None /\ outbox.key = k /\ outbox.phase \in {"SUBMIT", "EVIDENCE"}

\* A result on disk is only forgotten after it was printed, whatever command
\* comes next.
ReportedBeforeForgotten ==
    [][(outbox # None /\ outbox.phase = "EVIDENCE" /\ outbox' # outbox)
            => outbox' = None /\ outbox.key \in reported]_vars

\* The server refuses the operation for good, and each retry ends with exit code 5:
\* an upload has expired before create_job was answered or all its parts were sent.
Rejected ==
    /\ outbox # None /\ outbox.device \in Devices
    /\ LET j == job[<<outbox.device, outbox.key>>] IN
       /\ j # None
       /\ \/ outbox.phase = "CREATE" /\ ~Untouched(j)
          \/ /\ outbox.phase = "UPLOAD"
             /\ \E a \in Attachments : Uploading(a) /\ j.file[a] # "UPLOADING"

=============================================================================
