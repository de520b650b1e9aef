----------------------------- MODULE ImportJobs -----------------------------
(***************************************************************************)
(* Import jobs of a paired device                                          *)
(* (server/src/superboss/modules/imports/service.py) on top of the files   *)
(* of FileContract: create with an idempotency key, attachment completion, *)
(* submit, read, and the reconciliation a scan worker runs after a scan    *)
(* (files/tasks.py, execute_file_scan).                                    *)
(*                                                                         *)
(* A key stands for (device, Idempotency-Key), so that a job is named by   *)
(* its key: uq_import_jobs_device_idempotency.  The file of an attachment  *)
(* is named by its child idempotency key: (key, kind).                     *)
(***************************************************************************)
CONSTANTS
    Keys,        \* (device, Idempotency-Key) pairs
    Kinds,       \* attachment kinds, "ORIGINAL" among them
    Manifests,   \* canonical manifests; a manifest is its own fingerprint
    Declared,    \* [Manifests -> [Kinds -> Contents \cup {None}]]
    BaseSha256,  \* [Manifests -> Contents \cup {None}]
    Contents,    \* byte strings; a content is its own SHA-256
    Malware,     \* the contents a scan rejects
    Requests,    \* API request handlers
    Workers,     \* scan workers
    None

Files == Keys \X Kinds

Handlers == Requests \cup Workers

ASSUME ImportAssumptions ==
    /\ "ORIGINAL" \in Kinds
    /\ Declared \in [Manifests -> [Kinds -> Contents \cup {None}]]
    /\ BaseSha256 \in [Manifests -> Contents \cup {None}]
    /\ \A m \in Manifests : \E kind \in Kinds : Declared[m][kind] # None
    /\ \A m \in Manifests : BaseSha256[m] # None => Declared[m]["ORIGINAL"] # None
    /\ Malware \subseteq Contents
    /\ Requests \cap Workers = {}
    /\ None \notin Contents \cup Manifests \cup Handlers \cup Keys \cup Files
    /\ None \notin {"ATTACHMENT_INFECTED", "ATTACHMENT_SCAN_FAILED"}

VARIABLES
    state, sha256, published,   \* the files: see FileContract
    deliveries,                 \* files with a scan task in the broker's queue
    lost,                       \* history: a scan worker has died
    manifest,                   \* a job's manifest; None while there is no job
    status, resultCode, submitted, jobLock,
    audit,                      \* audit_log rows of the import actions
    \* the handlers: their position, job, file, manifest, attachments still to
    \* start or to reconcile, and the evaluation they are about to write
    pc, onKey, onFile, draft, todo, seen,
    due                         \* history: reads that began when their job was due

files == INSTANCE FileContract

fileVars    == <<state, sha256, published>>
queueVars   == <<deliveries, lost>>
jobVars     == <<manifest, status, resultCode, submitted>>
handlerVars == <<pc, onKey, onFile, draft, todo, seen, due>>

vars == <<fileVars, queueVars, jobVars, jobLock, audit, handlerVars>>

TerminalStatus == {"RECEIVED", "REJECTED", "CONFLICT"}
ImportStatus == {"UPLOADING", "SCANNING"} \cup TerminalStatus

\* The kinds a manifest declares, and the files attached to a job.
KindsOf(m) == {kind \in Kinds : Declared[m][kind] # None}
Attachments(k) == {k} \X KindsOf(manifest[k])

Exists(k) == manifest[k] # None

Evaluation(st, code) == [status |-> st, code |-> code]

Evaluations == [status : ImportStatus,
                code : {None, "ATTACHMENT_INFECTED", "ATTACHMENT_SCAN_FAILED",
                        "BASE_SHA256_MISMATCH"}]

\* An audit row, with the fields its unique event_key is derived from.
Event(action, k, e) == [action |-> action, key |-> k, status |-> e.status, code |-> e.code]

Init ==
    /\ files!Init
    /\ deliveries = {} /\ lost = FALSE
    /\ manifest = [k \in Keys |-> None]
    /\ status = [k \in Keys |-> "UPLOADING"]
    /\ resultCode = [k \in Keys |-> None]
    /\ submitted = [k \in Keys |-> FALSE]
    /\ jobLock = [k \in Keys |-> None]
    /\ audit = {}
    /\ pc = [p \in Handlers |-> "idle"]
    /\ onKey = [p \in Handlers |-> None]
    /\ onFile = [p \in Handlers |-> None]
    /\ draft = [p \in Handlers |-> None]
    /\ todo = [p \in Handlers |-> {}]
    /\ seen = [p \in Handlers |-> None]
    /\ due = {}

-----------------------------------------------------------------------------

Goto(p, label) == pc' = [pc EXCEPT ![p] = label]

\* A transaction is over and its row locks are released.
Unlock(p) == jobLock' = [k \in Keys |-> IF jobLock[k] = p THEN None ELSE jobLock[k]]

\* The handler ends, and with it its transaction.
Finish(p) ==
    /\ Goto(p, "idle")
    /\ onKey' = [onKey EXCEPT ![p] = None]
    /\ onFile' = [onFile EXCEPT ![p] = None]
    /\ draft' = [draft EXCEPT ![p] = None]
    /\ todo' = [todo EXCEPT ![p] = {}]
    /\ seen' = [seen EXCEPT ![p] = None]
    /\ due' = due \ {p}
    /\ Unlock(p)

\* Mutant of EvaluateFiles: one clean attachment is enough.
EvaluateAnyClean(k) ==
    LET states == {state[f] : f \in Attachments(k)} IN
    IF "INFECTED" \in states THEN Evaluation("REJECTED", "ATTACHMENT_INFECTED")
    ELSE IF "FAILED" \in states THEN Evaluation("REJECTED", "ATTACHMENT_SCAN_FAILED")
    ELSE IF "CLEAN" \in states THEN Evaluation("RECEIVED", None)
    ELSE Evaluation("SCANNING", None)

\* _evaluate_files over one snapshot of the attached files' states.
EvaluateFiles(k) ==
    LET states == {state[f] : f \in Attachments(k)}
        base   == BaseSha256[manifest[k]]
    IN  IF "INFECTED" \in states THEN Evaluation("REJECTED", "ATTACHMENT_INFECTED")
        ELSE IF "FAILED" \in states THEN Evaluation("REJECTED", "ATTACHMENT_SCAN_FAILED")
        ELSE IF states # {"CLEAN"} THEN Evaluation("SCANNING", None)
        ELSE IF base # None /\ sha256[<<k, "ORIGINAL">>] # base
               THEN Evaluation("CONFLICT", "BASE_SHA256_MISMATCH")
        ELSE Evaluation("RECEIVED", None)

\* _apply_transition.  The unique event_key makes a repeated transition fail.
ApplyTransition(action, k, e) ==
    /\ Event(action, k, e) \notin audit
    /\ status' = [status EXCEPT ![k] = e.status]
    /\ resultCode' = [resultCode EXCEPT ![k] = e.code]
    /\ submitted' = [submitted EXCEPT ![k] = TRUE]
    /\ audit' = audit \cup {Event(action, k, e)}
    /\ UNCHANGED manifest

-----------------------------------------------------------------------------
(* create                                                                  *)

\* The first look at the key finds no job; with a job, create answers from
\* it (or refuses another manifest) and changes nothing.
CreateBegin(r, k, m) ==
    /\ pc[r] = "idle" /\ ~Exists(k)
    /\ pc' = [pc EXCEPT ![r] = "create"]
    /\ onKey' = [onKey EXCEPT ![r] = k]
    /\ todo' = [todo EXCEPT ![r] = KindsOf(m)]
    /\ draft' = [draft EXCEPT ![r] = m]
    /\ UNCHANGED <<fileVars, queueVars, jobVars, jobLock, audit, onFile, seen, due>>

\* Mutant of SameUpload: the metadata fingerprint is not compared.
AnyUpload(f, c) == TRUE

SameUpload(f, c) == sha256[f] = c

\* start_import_upload for one attachment, in a transaction of its own: a new
\* file, or the one an earlier create made with the same declaration; any
\* other file under the child key ends the request with an error.
CreateUpload(r, kind) ==
    LET f == <<onKey[r], kind>>
        c == Declared[draft[r]][kind]
    IN  /\ pc[r] = "create" /\ kind \in todo[r]
        /\ \/ files!Start(f, c)
           \/ state[f] = "UPLOADING" /\ SameUpload(f, c) /\ UNCHANGED fileVars
        /\ todo' = [todo EXCEPT ![r] = @ \ {kind}]
        /\ UNCHANGED <<queueVars, jobVars, jobLock, audit, pc, onKey, onFile, draft,
                       seen, due>>

\* _persist_job looks again and inserts; the loser of the race for the unique
\* constraint answers from the winner's row or refuses.
CreatePersist(r) ==
    LET k == onKey[r] IN
    /\ pc[r] = "create" /\ todo[r] = {}
    /\ \/ /\ ~Exists(k)
          /\ manifest' = [manifest EXCEPT ![k] = draft[r]]
          /\ audit' = audit \cup {Event("create", k, Evaluation("UPLOADING", None))}
       \/ Exists(k) /\ UNCHANGED <<manifest, audit>>
    /\ Finish(r)
    /\ UNCHANGED <<fileVars, queueVars, status, resultCode, submitted>>

-----------------------------------------------------------------------------
(* The files as far as the imports drive them.                             *)

\* _resolve_attachment_upload: only an attachment of an existing job is completed.
UploadTarget(k, f) == Exists(k) /\ f \in Attachments(k)

\* complete_attachment.  The enqueue that follows may be lost.
CompleteAttachment(k, f) ==
    /\ UploadTarget(k, f)
    /\ files!Quarantine(f)
    /\ deliveries' \in {deliveries, deliveries \cup {f}}
    /\ UNCHANGED <<lost, jobVars, jobLock, audit, handlerVars>>

\* A completed object of the wrong size, or an upload 24 hours old.
RefuseFile(f) ==
    /\ files!Refuse(f)
    /\ UNCHANGED <<queueVars, jobVars, jobLock, audit, handlerVars>>

\* The janitor's _redispatch_scans.
Redispatch(f) ==
    /\ state[f] = "QUARANTINED" /\ f \notin deliveries
    /\ deliveries' = deliveries \cup {f}
    /\ UNCHANGED <<lost, fileVars, jobVars, jobLock, audit, handlerVars>>

-----------------------------------------------------------------------------
(* execute_file_scan: scan_file, then reconcile_file.                      *)

Deliver(w, f) ==
    /\ pc[w] = "idle" /\ f \in deliveries
    /\ deliveries' = deliveries \ {f}
    /\ Goto(w, "claim")
    /\ onFile' = [onFile EXCEPT ![w] = f]
    /\ UNCHANGED <<lost, fileVars, jobVars, jobLock, audit, onKey, draft, todo,
                   seen, due>>

ScanClaim(w) ==
    LET f == onFile[w] IN
    /\ pc[w] = "claim"
    /\ \/ files!Claim(f) /\ Goto(w, "scan")
       \/ state[f] # "QUARANTINED" /\ Goto(w, "lookup") /\ UNCHANGED fileVars
    /\ UNCHANGED <<queueVars, jobVars, jobLock, audit, onKey, onFile, draft,
                   todo, seen, due>>

\* Mutant of ScanRecord: the task ends without reconcile_file.
ScanRecordOnly(w) ==
    LET f == onFile[w] IN
    /\ pc[w] = "scan"
    /\ files!Publish(f) \/ files!Reject(f)
    /\ Finish(w)
    /\ UNCHANGED <<queueVars, jobVars, audit>>

ScanRecord(w) ==
    LET f == onFile[w] IN
    /\ pc[w] = "scan"
    /\ files!Publish(f) \/ files!Reject(f)
    /\ Goto(w, "lookup")
    /\ UNCHANGED <<queueVars, jobVars, jobLock, audit, onKey, onFile, draft,
                   todo, seen, due>>

\* reconcile_file returns: the worker's task is done, a read goes on with the next
\* file.
EndReconcile(p) ==
    \/ p \in Workers /\ Finish(p)
    \/ /\ p \in Requests
       /\ Goto(p, "read")
       /\ Unlock(p)
       /\ seen' = [seen EXCEPT ![p] = None]
       /\ onFile' = [onFile EXCEPT ![p] = None]
       /\ UNCHANGED <<onKey, draft, todo, due>>

\* reconcile_file looks up the job of a file; without one it is done.
ReconcileLookup(p) ==
    LET k == onFile[p][1] IN
    /\ pc[p] = "lookup"
    /\ \/ /\ Exists(k) /\ onFile[p] \in Attachments(k)
          /\ Goto(p, "reconcile")
          /\ onKey' = [onKey EXCEPT ![p] = k]
          /\ UNCHANGED <<onFile, draft, todo, seen, due, jobLock>>
       \/ /\ ~(Exists(k) /\ onFile[p] \in Attachments(k))
          /\ EndReconcile(p)
    /\ UNCHANGED <<fileVars, queueVars, jobVars, audit>>

\* Mutant of Reconcilable: a finished job is written again.
ReconcileAnyJob(k) == TRUE

Reconcilable(k) == status[k] = "SCANNING"

\* It then locks the job and, if the job is SCANNING, reads its files.
ReconcileLock(p) ==
    LET k == onKey[p] IN
    /\ pc[p] = "reconcile" /\ jobLock[k] = None
    /\ \/ /\ Reconcilable(k)
          /\ jobLock' = [jobLock EXCEPT ![k] = p]
          /\ seen' = [seen EXCEPT ![p] = EvaluateFiles(k)]
          /\ Goto(p, "transition")
          /\ UNCHANGED <<onKey, onFile, draft, todo, due>>
       \/ ~Reconcilable(k) /\ EndReconcile(p)
    /\ UNCHANGED <<fileVars, queueVars, jobVars, audit>>

ReconcileCommit(p) ==
    LET k == onKey[p] IN
    /\ pc[p] = "transition"
    /\ \/ seen[p].status = "SCANNING" /\ UNCHANGED <<jobVars, audit>>
       \/ seen[p].status # "SCANNING" /\ ApplyTransition("reconcile", k, seen[p])
    /\ EndReconcile(p)
    /\ UNCHANGED <<fileVars, queueVars>>

\* The worker is killed or its task cancelled; the delivery comes back or is
\* dropped.
WorkerLost(w) ==
    /\ pc[w] # "idle"
    /\ lost' = TRUE
    /\ deliveries' \in {deliveries, deliveries \cup {onFile[w]}}
    /\ Finish(w)
    /\ UNCHANGED <<fileVars, jobVars, audit>>

-----------------------------------------------------------------------------
(* submit and read                                                         *)

\* Mutant of Incomplete: submit does not ask for the uploads.
NeverIncomplete(k) == FALSE

Incomplete(k) == \E f \in Attachments(k) : state[f] = "UPLOADING"

\* Mutant of Unlocked: the job is read without FOR UPDATE.
NotLocking(k) == TRUE

Unlocked(k) == jobLock[k] = None

\* submit locks the job and reads the files.  A finished job is answered as
\* it is, an incomplete one is refused.
SubmitLock(r, k) ==
    /\ pc[r] = "idle" /\ Exists(k) /\ Unlocked(k)
    /\ status[k] \notin TerminalStatus
    /\ ~(status[k] = "UPLOADING" /\ Incomplete(k))
    /\ jobLock' = [jobLock EXCEPT ![k] = r]
    /\ seen' = [seen EXCEPT ![r] = EvaluateFiles(k)]
    /\ onKey' = [onKey EXCEPT ![r] = k]
    /\ Goto(r, "submit")
    /\ UNCHANGED <<fileVars, queueVars, jobVars, audit, onFile, draft, todo, due>>

SubmitCommit(r) ==
    LET k == onKey[r] IN
    /\ pc[r] = "submit"
    /\ \/ /\ status[k] = "SCANNING" /\ seen[r].status = "SCANNING"
          /\ UNCHANGED <<jobVars, audit>>
       \/ /\ ~(status[k] = "SCANNING" /\ seen[r].status = "SCANNING")
          /\ ApplyTransition("submit", k, seen[r])
    /\ Finish(r)
    /\ UNCHANGED <<fileVars, queueVars>>

\* The job was submitted and all its files have ended: it is due to be settled.
Due(k) ==
    /\ status[k] # "UPLOADING"
    /\ \A f \in Attachments(k) : state[f] \in {"CLEAN", "INFECTED", "FAILED"}

\* read lists the files of the job, reconciles one after the other, ...
ReadBegin(r, k) ==
    /\ pc[r] = "idle" /\ Exists(k)
    /\ Goto(r, "read")
    /\ onKey' = [onKey EXCEPT ![r] = k]
    /\ todo' = [todo EXCEPT ![r] = KindsOf(manifest[k])]
    /\ due' = IF Due(k) THEN due \cup {r} ELSE due
    /\ UNCHANGED <<fileVars, queueVars, jobVars, jobLock, audit, onFile, draft, seen>>

\* Mutant of ReadFile: the job is rendered without reconciling its files.
SkipFile(r, kind) ==
    /\ pc[r] = "read" /\ kind \in todo[r]
    /\ todo' = [todo EXCEPT ![r] = @ \ {kind}]
    /\ UNCHANGED <<fileVars, queueVars, jobVars, jobLock, audit, pc, onFile, onKey, draft,
                   seen, due>>

ReadFile(r, kind) ==
    /\ pc[r] = "read" /\ kind \in todo[r]
    /\ todo' = [todo EXCEPT ![r] = @ \ {kind}]
    /\ Goto(r, "lookup")
    /\ onFile' = [onFile EXCEPT ![r] = <<onKey[r], kind>>]
    /\ UNCHANGED <<fileVars, queueVars, jobVars, jobLock, audit, onKey, draft, seen, due>>

\* ... and renders what it finds then.
ReadAnswer(r) ==
    /\ pc[r] = "read" /\ todo[r] = {}
    /\ Finish(r)
    /\ UNCHANGED <<fileVars, queueVars, jobVars, audit>>

\* A request fails (a provisioning or database error, a refused upload) or
\* its process dies: the open transaction rolls back.
RequestFail(r) ==
    /\ pc[r] # "idle"
    /\ Finish(r)
    /\ UNCHANGED <<fileVars, queueVars, jobVars, audit>>

-----------------------------------------------------------------------------

RequestNext ==
    \E r \in Requests :
        \/ \E k \in Keys, m \in Manifests : CreateBegin(r, k, m)
        \/ \E kind \in Kinds : CreateUpload(r, kind) \/ ReadFile(r, kind)
        \/ \E k \in Keys : SubmitLock(r, k) \/ ReadBegin(r, k)
        \/ CreatePersist(r) \/ SubmitCommit(r) \/ ReadAnswer(r) \/ RequestFail(r)

ReconcileNext ==
    \E p \in Handlers : ReconcileLookup(p) \/ ReconcileLock(p) \/ ReconcileCommit(p)

WorkerNext ==
    \E w \in Workers :
        \/ \E f \in Files : Deliver(w, f)
        \/ ScanClaim(w) \/ ScanRecord(w) \/ WorkerLost(w)

FileNext ==
    \E f \in Files :
        \/ \E k \in Keys : CompleteAttachment(k, f)
        \/ RefuseFile(f) \/ Redispatch(f)

Next == RequestNext \/ ReconcileNext \/ WorkerNext \/ FileNext

Spec == Init /\ [][Next]_vars

\* What a handler does next, whatever it is in the middle of.
HandlerStep(p) ==
    \/ \E kind \in Kinds : CreateUpload(p, kind) \/ ReadFile(p, kind)
    \/ CreatePersist(p) \/ SubmitCommit(p) \/ ReadAnswer(p)
    \/ ScanClaim(p) \/ ScanRecord(p)

(***************************************************************************)
(* Every transaction and call has a timeout, so that handlers go on with   *)
(* what they began.  A job's row is not locked by others every time it is  *)
(* wanted, and no handler is killed every time at the same place.  No      *)
(* client is obliged to do anything, and no delivery has to arrive.        *)
(***************************************************************************)
WorkersFair ==
    \A w \in Workers :
        /\ WF_vars(HandlerStep(w) \/ ReconcileLookup(w))
        /\ SF_vars(ReconcileLock(w)) /\ SF_vars(ReconcileCommit(w))

RequestsFair ==
    \A r \in Requests :
        /\ WF_vars(HandlerStep(r)) /\ SF_vars(\E kind \in Kinds : ReadFile(r, kind))
        /\ SF_vars(ReconcileLookup(r)) /\ SF_vars(ReconcileLock(r)) /\ SF_vars(ReconcileCommit(r))

\* Once a worker has died a device must ask for the status of its job, as the
\* connector's status command does; until then nobody has to.
Polling ==
    \A k \in Keys : SF_vars(lost /\ \E r \in Requests : ReadBegin(r, k))

FairSpec == Spec /\ WorkersFair /\ RequestsFair /\ Polling

-----------------------------------------------------------------------------
(* Properties.                                                             *)

Action == {"create", "submit", "reconcile"}

\* The type invariant of files, jobs, audit rows and handlers.
TypeOK ==
    /\ state \in [Files -> {"ABSENT", "UPLOADING", "QUARANTINED", "SCANNING",
                            "CLEAN", "INFECTED", "FAILED"}]
    /\ sha256 \in [Files -> Contents \cup {None}]
    /\ published \in [Files -> Contents \cup {None}]
    /\ deliveries \subseteq Files /\ lost \in BOOLEAN
    /\ manifest \in [Keys -> Manifests \cup {None}]
    /\ status \in [Keys -> ImportStatus]
    /\ resultCode \in [Keys -> {None, "ATTACHMENT_INFECTED", "ATTACHMENT_SCAN_FAILED",
                                "BASE_SHA256_MISMATCH"}]
    /\ submitted \in [Keys -> BOOLEAN]
    /\ jobLock \in [Keys -> Handlers \cup {None}]
    /\ audit \subseteq {Event(a, k, e) : a \in Action, k \in Keys, e \in Evaluations}
    /\ pc \in [Handlers -> {"idle", "create", "claim", "scan", "lookup", "reconcile",
                            "transition", "submit", "read"}]
    /\ onKey \in [Handlers -> Keys \cup {None}]
    /\ onFile \in [Handlers -> Files \cup {None}]
    /\ draft \in [Handlers -> Manifests \cup {None}]
    /\ todo \in [Handlers -> SUBSET Kinds]
    /\ seen \in [Handlers -> Evaluations \cup {None}]
    /\ due \subseteq Requests

\* Whichever creates raced for the key, crashed half way or were retried with
\* another manifest, the files attached to the job are the ones its manifest
\* declares.
AttachmentsMatchManifest ==
    \A k \in Keys : Exists(k) =>
        \A kind \in KindsOf(manifest[k]) :
            sha256[<<k, kind>>] = Declared[manifest[k]][kind]

FileStates(k) == {state[f] : f \in Attachments(k)}

BaseMatches(k) ==
    BaseSha256[manifest[k]] \in {None, Declared[manifest[k]]["ORIGINAL"]}

\* A job's outcome is true of its files, also after every later step: RECEIVED
\* when each declared content is published and the base is the original,
\* CONFLICT when the base differs, REJECTED when an attachment was refused.
OutcomeJustified ==
    \A k \in Keys :
        /\ status[k] = "RECEIVED" =>
            /\ \A kind \in KindsOf(manifest[k]) :
                    published[<<k, kind>>] = Declared[manifest[k]][kind]
            /\ BaseMatches(k)
        /\ status[k] = "CONFLICT" => FileStates(k) = {"CLEAN"} /\ ~BaseMatches(k)
        /\ resultCode[k] = "ATTACHMENT_INFECTED" => "INFECTED" \in FileStates(k)
        /\ resultCode[k] = "ATTACHMENT_SCAN_FAILED" => "FAILED" \in FileStates(k)

\* No attachment of a job that waits for scans is still being uploaded: it
\* could expire, and the janitor reconciles no job.
ScanningIsComplete ==
    \A k \in Keys : status[k] = "SCANNING" => "UPLOADING" \notin FileStates(k)

\* The audit log tells what happened to a job once: one row for a job's end,
\* with its status and code, and none before.
AuditTellsTheEnd ==
    \A k \in Keys :
        LET ends == {e \in audit : e.key = k /\ e.status \in TerminalStatus} IN
        IF status[k] \in TerminalStatus
          THEN \E e \in ends : /\ ends = {e}
                               /\ e.status = status[k] /\ e.code = resultCode[k]
          ELSE ends = {}

\* A finished job never changes again, and no job changes its manifest or
\* goes back to UPLOADING.
JobsOnlyAdvance ==
    [][\A k \in Keys :
        /\ status[k] \in TerminalStatus => UNCHANGED <<status[k], resultCode[k]>>
        /\ Exists(k) => manifest'[k] = manifest[k]
        /\ status[k] = "SCANNING" => status'[k] # "UPLOADING"]_vars

\* A read of a submitted job whose files had all ended when it began answers with
\* the outcome, also when the worker died before it reconciled and while submits
\* and other reads hold the row: one poll is enough.
ReadSettles ==
    \A r \in due : pc[r] = "read" /\ todo[r] = {} => status[onKey[r]] \in TerminalStatus

\* A submitted job whose scans have all ended is settled, although the submit
\* and the last scan look at each other's rows in different transactions, and
\* workers die between a scan and its reconciliation.
JobsSettle ==
    \A k \in Keys :
        (status[k] = "SCANNING" /\ FileStates(k) \subseteq {"CLEAN", "INFECTED", "FAILED"})
            ~> status[k] \in TerminalStatus
=============================================================================
