---------------------------- MODULE FileLifecycle ----------------------------
(***************************************************************************)
(* The life of a stored file: the rows of the files table, the multipart   *)
(* uploads and objects in S3, the Celery queue with its scan worker, and   *)
(* the hourly janitor (server/src/superboss/modules/files/service.py,      *)
(* tasks.py, workers/schedules.py, infrastructure/s3.py).                  *)
(*                                                                         *)
(* API requests, workers and the janitor interleave.  SELECT ... FOR UPDATE *)
(* is the variable lock: _provision_upload and _complete_upload keep it    *)
(* across their storage calls; every other transaction is one step that    *)
(* needs the row unlocked.  A storage call answers, fails, or is reported  *)
(* as failed and still takes effect later (asyncio.wait_for abandons the   *)
(* thread asyncio.to_thread started; it does not stop it).                 *)
(*                                                                         *)
(* A file stands for one idempotency key: the constraint                   *)
(* uq_files_upload_idempotency gives it at most one row.                   *)
(***************************************************************************)
EXTENDS Naturals, FiniteSets

CONSTANTS
    Files,          \* the rows that can exist
    Contents,       \* byte strings; a content is its own SHA-256
    Size,           \* [Contents -> Nat], the length of a content
    Malware,        \* the contents clamd answers FOUND for
    Requests,       \* API request handlers running at the same time
    Workers,        \* Celery worker processes
    Multiparts,     \* multipart upload ids S3 can hand out
    MaxDeliveries,  \* bound on queued deliveries of one file's scan task
    LateKinds,      \* storage calls that may take effect after they failed
    None            \* SQL NULL, no object, no holder of a lock

ASSUME FileAssumptions ==
    /\ Size \in [Contents -> Nat]
    /\ Malware \subseteq Contents
    /\ MaxDeliveries \in Nat \ {0}
    /\ LateKinds \subseteq {"create", "complete", "abort", "delete"}
    /\ None \notin Files \cup Contents \cup Requests \cup Multiparts

VARIABLES
    \* the files table
    state, sha256, multipartId, scanResult, lock,
    aged,           \* rows with created_at more than 24 hours ago
    quiet,          \* rows in QUARANTINED and not updated for 15 minutes
    \* API requests
    rPc, rFile, rTodo,
    \* object storage
    mpKey,          \* the file whose object key a multipart id was made for
    live,           \* multipart uploads neither completed nor aborted
    granted,        \* multipart uploads a part URL was presigned for
    part,           \* what the client has put into a multipart upload
    object,         \* the object stored under a file's object key
    late,           \* abandoned storage calls that have not taken effect
    \* the broker and the workers
    queue, wPc, wFile, wState,
    \* the janitor
    jPc, jTodo, jFile

rowVars     == <<state, sha256, multipartId, scanResult>>
timeVars    == <<aged, quiet>>
reqVars     == <<rPc, rFile, rTodo>>
storageVars == <<mpKey, live, granted, part, object, late>>
workerVars  == <<queue, wPc, wFile, wState>>
janitorVars == <<jPc, jTodo, jFile>>

vars == <<rowVars, lock, timeVars, reqVars, storageVars, workerVars, janitorVars>>

FileState == {"ABSENT", "UPLOADING", "QUARANTINED", "SCANNING",
              "CLEAN", "INFECTED", "FAILED"}

TerminalStates == {"CLEAN", "INFECTED", "FAILED"}

\* The values of scan_result; every clamd signature is the one value "FOUND".
ScanResult == {None, "CLEAN", "FOUND", "HASH_MISMATCH", "SCAN_FAILED",
               "SIZE_MISMATCH", "UPLOAD_EXPIRED"}

LateCall == [op : {"create", "complete", "abort", "delete"},
             file : Files, mp : Multiparts \cup {None}]

LateCallOf(op, f, m) == [op |-> op, file |-> f, mp |-> m]

Init ==
    /\ state = [f \in Files |-> "ABSENT"]
    /\ sha256 = [f \in Files |-> None]
    /\ multipartId = [f \in Files |-> None]
    /\ scanResult = [f \in Files |-> None]
    /\ lock = [f \in Files |-> None]
    /\ aged = {} /\ quiet = {}
    /\ rPc = [r \in Requests |-> "idle"]
    /\ rFile = [r \in Requests |-> None]
    /\ rTodo = [r \in Requests |-> {}]
    /\ mpKey = [m \in Multiparts |-> None]
    /\ live = {} /\ granted = {} /\ late = {}
    /\ part = [m \in Multiparts |-> None]
    /\ object = [f \in Files |-> None]
    /\ queue = [f \in Files |-> 0]
    /\ wPc = [w \in Workers |-> "idle"]
    /\ wFile = [w \in Workers |-> None]
    /\ wState = [w \in Workers |-> None]
    /\ jPc = "idle" /\ jTodo = {} /\ jFile = None

-----------------------------------------------------------------------------
(* Object storage: what a call does when it reaches S3.                    *)

Uploads(f) == {m \in live : mpKey[m] = f}

CreateMultipart(f, m) ==
    /\ mpKey[m] = None
    /\ mpKey' = [mpKey EXCEPT ![m] = f]
    /\ live' = live \cup {m}

CompleteMultipart(f, m) ==
    /\ m \in live /\ part[m] # None
    /\ live' = live \ {m}
    /\ object' = [object EXCEPT ![f] = part[m]]

\* A call the caller gave up on: it is remembered and may still happen.
Abandon(op, f, m) ==
    /\ op \in LateKinds
    /\ late' = late \cup {LateCallOf(op, f, m)}
    /\ UNCHANGED <<mpKey, live, granted, part, object>>

\* abort_multipart, whose failures every caller swallows; NoSuchUpload is
\* success.
AbortMultipart(f, m) ==
    \/ live' = live \ {m} /\ UNCHANGED <<mpKey, granted, part, object, late>>
    \/ UNCHANGED storageVars
    \/ Abandon("abort", f, m)

\* delete_object, whose failures every caller swallows.
DeleteObject(f) ==
    \/ /\ object' = [object EXCEPT ![f] = None]
       /\ UNCHANGED <<mpKey, live, granted, part, late>>
    \/ UNCHANGED storageVars
    \/ Abandon("delete", f, None)

\* An abandoned call takes effect, or is refused because its upload is gone.
TakeEffect(c) ==
    /\ c \in late
    /\ late' = late \ {c}
    /\ \/ /\ c.op = "create"
          /\ \E m \in Multiparts : CreateMultipart(c.file, m)
          /\ UNCHANGED object
       \/ c.op = "complete" /\ CompleteMultipart(c.file, c.mp) /\ UNCHANGED mpKey
       \/ /\ c.op = "complete" /\ c.mp \notin live
          /\ UNCHANGED <<mpKey, live, object>>
       \/ /\ c.op = "abort"
          /\ live' = live \ {c.mp}
          /\ UNCHANGED <<mpKey, object>>
       \/ /\ c.op = "delete"
          /\ object' = [object EXCEPT ![c.file] = None]
          /\ UNCHANGED <<mpKey, live>>
    /\ UNCHANGED <<rowVars, lock, timeVars, reqVars, granted, part, workerVars,
                   janitorVars>>

\* The client sends a part to a presigned URL.
PutPart(m, c) ==
    /\ m \in live \cap granted
    /\ part' = [part EXCEPT ![m] = c]
    /\ UNCHANGED <<rowVars, lock, timeVars, reqVars, mpKey, live, granted, object,
                   late, workerVars, janitorVars>>

-----------------------------------------------------------------------------
(* API requests.                                                           *)

\* The request ends: its transaction is over and the row lock is released.
\* A rollback and a commit differ only in what the row variables do.
Finish(r) ==
    /\ rPc' = [rPc EXCEPT ![r] = "idle"]
    /\ rFile' = [rFile EXCEPT ![r] = None]
    /\ rTodo' = [rTodo EXCEPT ![r] = {}]
    /\ lock' = [f \in Files |-> IF lock[f] = r THEN None ELSE lock[f]]

\* _start_upload: the first request inserts the row; one that finds it, or
\* loses the race for the unique constraint, goes on with the winner's row.
StartUpload(r, f, c) ==
    /\ rPc[r] = "idle"
    /\ \/ /\ state[f] = "ABSENT"
          /\ state' = [state EXCEPT ![f] = "UPLOADING"]
          /\ sha256' = [sha256 EXCEPT ![f] = c]
       \/ state[f] # "ABSENT" /\ sha256[f] = c /\ UNCHANGED <<state, sha256>>
    /\ rPc' = [rPc EXCEPT ![r] = "provision"]
    /\ rFile' = [rFile EXCEPT ![r] = f]
    /\ UNCHANGED <<multipartId, scanResult, lock, timeVars, rTodo, storageVars,
                   workerVars, janitorVars>>

\* _provision_upload locks the row and looks at it again.
ProvisionLock(r) ==
    LET f == rFile[r] IN
    /\ rPc[r] = "provision" /\ lock[f] = None
    /\ IF state[f] = "UPLOADING" /\ multipartId[f] = None
         THEN /\ lock' = [lock EXCEPT ![f] = r]
              /\ rPc' = [rPc EXCEPT ![r] = "list"]
              /\ UNCHANGED <<rFile, rTodo>>
         ELSE Finish(r)
    /\ UNCHANGED <<rowVars, timeVars, storageVars, workerVars, janitorVars>>

\* list_multipart_uploads: a single upload is adopted; any other number is
\* to be aborted before a new one is created.
ProvisionList(r) ==
    LET f == rFile[r] IN
    /\ rPc[r] = "list"
    /\ \/ /\ Cardinality(Uploads(f)) = 1
          /\ \E m \in Uploads(f) :
                multipartId' = [multipartId EXCEPT ![f] = m]
          /\ Finish(r)
       \/ /\ Cardinality(Uploads(f)) # 1
          /\ rPc' = [rPc EXCEPT ![r] = "create"]
          /\ rTodo' = [rTodo EXCEPT ![r] = Uploads(f)]
          /\ UNCHANGED <<multipartId, rFile, lock>>
    /\ UNCHANGED <<state, sha256, scanResult, timeVars, storageVars, workerVars,
                   janitorVars>>

ProvisionAbort(r, m) ==
    /\ rPc[r] = "create" /\ m \in rTodo[r]
    /\ AbortMultipart(rFile[r], m)
    /\ rTodo' = [rTodo EXCEPT ![r] = @ \ {m}]
    /\ UNCHANGED <<rowVars, lock, timeVars, rPc, rFile, workerVars, janitorVars>>

\* create_multipart and the commit that binds the new upload to the row.
ProvisionCreate(r, m) ==
    LET f == rFile[r] IN
    /\ rPc[r] = "create" /\ rTodo[r] = {}
    /\ CreateMultipart(f, m)
    /\ multipartId' = [multipartId EXCEPT ![f] = m]
    /\ Finish(r)
    /\ UNCHANGED <<state, sha256, scanResult, timeVars, granted, part, object,
                   late, workerVars, janitorVars>>

\* create_multipart times out in the API but not in S3.
ProvisionTimeout(r) ==
    /\ rPc[r] = "create" /\ rTodo[r] = {}
    /\ Abandon("create", rFile[r], None)
    /\ Finish(r)
    /\ UNCHANGED <<rowVars, timeVars, workerVars, janitorVars>>

\* _presign_part
PresignPart(f) ==
    /\ lock[f] = None
    /\ state[f] = "UPLOADING" /\ multipartId[f] # None
    /\ multipartId[f] \notin granted
    /\ granted' = granted \cup {multipartId[f]}
    /\ UNCHANGED <<rowVars, lock, timeVars, reqVars, mpKey, live, part, object,
                   late, workerVars, janitorVars>>

\* Only an active upload with a multipart id reaches complete_multipart; in
\* any other state _complete_upload answers without a change.
Completable(f) == state[f] = "UPLOADING" /\ multipartId[f] # None

\* _complete_upload locks the row and keeps it locked until it has an answer.
CompleteLock(r, f) ==
    /\ rPc[r] = "idle" /\ lock[f] = None
    /\ Completable(f)
    /\ lock' = [lock EXCEPT ![f] = r]
    /\ rPc' = [rPc EXCEPT ![r] = "complete"]
    /\ rFile' = [rFile EXCEPT ![r] = f]
    /\ UNCHANGED <<rowVars, timeVars, rTodo, storageVars, workerVars, janitorVars>>

CompleteStorage(r) ==
    LET f == rFile[r] IN
    /\ rPc[r] = "complete"
    /\ CompleteMultipart(f, multipartId[f])
    /\ rPc' = [rPc EXCEPT ![r] = "head"]
    /\ UNCHANGED <<rowVars, lock, timeVars, rFile, rTodo, mpKey, granted, part,
                   late, workerVars, janitorVars>>

CompleteTimeout(r) ==
    LET f == rFile[r] IN
    /\ rPc[r] = "complete"
    /\ Abandon("complete", f, multipartId[f])
    /\ Finish(r)
    /\ UNCHANGED <<rowVars, timeVars, workerVars, janitorVars>>

SizeMatches(f) == Size[object[f]] = Size[sha256[f]]

\* head_object, the size check and the commit.  The commit releases the lock;
\* the enqueue or the delete comes after it.
CompleteCommit(r) ==
    LET f == rFile[r] IN
    /\ rPc[r] = "head" /\ object[f] # None
    /\ \/ /\ SizeMatches(f)
          /\ state' = [state EXCEPT ![f] = "QUARANTINED"]
          /\ rPc' = [rPc EXCEPT ![r] = "enqueue"]
          /\ UNCHANGED scanResult
       \/ /\ ~SizeMatches(f)
          /\ state' = [state EXCEPT ![f] = "FAILED"]
          /\ scanResult' = [scanResult EXCEPT ![f] = "SIZE_MISMATCH"]
          /\ rPc' = [rPc EXCEPT ![r] = "delete"]
    /\ lock' = [lock EXCEPT ![f] = None]
    /\ UNCHANGED <<sha256, multipartId, timeVars, rFile, rTodo, storageVars,
                   workerVars, janitorVars>>

\* apply_async: the delivery reaches the broker.
Enqueue(f) ==
    /\ queue[f] < MaxDeliveries
    /\ queue' = [queue EXCEPT ![f] = @ + 1]

CompleteEnqueue(r) ==
    /\ rPc[r] = "enqueue"
    /\ Enqueue(rFile[r])
    /\ Finish(r)
    /\ UNCHANGED <<rowVars, timeVars, storageVars, wPc, wFile, wState, janitorVars>>

CompleteDelete(r) ==
    /\ rPc[r] = "delete"
    /\ DeleteObject(rFile[r])
    /\ Finish(r)
    /\ UNCHANGED <<rowVars, timeVars, workerVars, janitorVars>>

\* The request's current call fails (a storage error, NoSuchUpload, a lost
\* broker) or the API process dies: an open transaction rolls back, and what
\* was to follow a commit does not happen.
RequestFail(r) ==
    /\ rPc[r] # "idle"
    /\ Finish(r)
    /\ UNCHANGED <<rowVars, timeVars, storageVars, workerVars, janitorVars>>

-----------------------------------------------------------------------------
(* Scan workers: scan_file_task, execute_file_scan, scan_file.             *)

Deliver(w, f) ==
    /\ wPc[w] = "idle" /\ queue[f] > 0
    /\ queue' = [queue EXCEPT ![f] = @ - 1]
    /\ wPc' = [wPc EXCEPT ![w] = "claim"]
    /\ wFile' = [wFile EXCEPT ![w] = f]
    /\ UNCHANGED <<rowVars, lock, timeVars, reqVars, storageVars, wState,
                   janitorVars>>

\* Mutant of Claimable: a redelivery also takes over a file being scanned.
ClaimableOrScanning(f) == state[f] \in {"QUARANTINED", "SCANNING"}

Claimable(f) == state[f] = "QUARANTINED"

\* The first transaction of scan_file commits SCANNING before any I/O; a file
\* in any other state makes scan_file return.
ScanClaim(w) ==
    LET f == wFile[w] IN
    /\ wPc[w] = "claim" /\ lock[f] = None
    /\ \/ /\ Claimable(f)
          /\ state' = [state EXCEPT ![f] = "SCANNING"]
          /\ quiet' = quiet \ {f}
          /\ wPc' = [wPc EXCEPT ![w] = "scan"]
       \/ /\ ~Claimable(f)
          /\ wPc' = [wPc EXCEPT ![w] = "ack"]
          /\ UNCHANGED <<state, quiet>>
    /\ UNCHANGED <<sha256, multipartId, scanResult, lock, aged, reqVars,
                   storageVars, queue, wFile, wState, janitorVars>>

\* Mutant of Verdict: the digest is not compared.
VerdictWithoutHash(c, d) == IF c \in Malware THEN "FOUND" ELSE "CLEAN"

\* What clamd says of a content it was streamed whole.
Scan(c) == IF c \in Malware THEN "FOUND" ELSE "CLEAN"

\* The outcome of streaming content c past the hash and clamd when the row
\* declares digest d.
Verdict(c, d) == IF c # d THEN "HASH_MISMATCH" ELSE Scan(c)

\* stream, hash and scan, outside any transaction; an error is SCAN_FAILED.
ScanObject(w) ==
    LET f == wFile[w] IN
    /\ wPc[w] = "scan"
    /\ wPc' = [wPc EXCEPT ![w] = "record"]
    /\ \/ /\ object[f] # None
          /\ wState' = [wState EXCEPT ![w] = Verdict(object[f], sha256[f])]
       \/ wState' = [wState EXCEPT ![w] = "SCAN_FAILED"]
    /\ UNCHANGED <<rowVars, lock, timeVars, reqVars, storageVars, queue, wFile,
                   janitorVars>>

\* Mutant of StateOf: the result is stored as the state.
StateIsResult(result) == result

StateOf(result) == CASE result = "CLEAN" -> "CLEAN"
                     [] result = "FOUND" -> "INFECTED"
                     [] OTHER -> "FAILED"

\* The second transaction of scan_file writes the outcome if the row is still
\* SCANNING.
ScanRecord(w) ==
    LET f == wFile[w] IN
    /\ wPc[w] = "record" /\ lock[f] = None
    /\ \/ /\ state[f] = "SCANNING"
          /\ state' = [state EXCEPT ![f] = StateOf(wState[w])]
          /\ scanResult' = [scanResult EXCEPT ![f] = wState[w]]
          /\ wPc' = [wPc EXCEPT ![w] = IF wState[w] = "CLEAN" THEN "ack" ELSE "delete"]
       \/ /\ state[f] # "SCANNING"
          /\ wPc' = [wPc EXCEPT ![w] = "ack"]
          /\ UNCHANGED <<state, scanResult>>
    /\ wState' = [wState EXCEPT ![w] = None]
    /\ UNCHANGED <<sha256, multipartId, lock, timeVars, reqVars, storageVars,
                   queue, wFile, janitorVars>>

ScanDelete(w) ==
    /\ wPc[w] = "delete"
    /\ DeleteObject(wFile[w])
    /\ wPc' = [wPc EXCEPT ![w] = "ack"]
    /\ UNCHANGED <<rowVars, lock, timeVars, reqVars, queue, wFile, wState,
                   janitorVars>>

\* execute_file_scan is done (its last call, reconcile_file, is modelled in
\* ImportJobs) and acks_late acknowledges the delivery.
ScanAck(w) ==
    /\ wPc[w] = "ack"
    /\ wPc' = [wPc EXCEPT ![w] = "idle"]
    /\ wFile' = [wFile EXCEPT ![w] = None]
    /\ UNCHANGED <<rowVars, lock, timeVars, reqVars, storageVars, queue, wState,
                   janitorVars>>

\* The worker is killed, its task is cancelled or raises.  The delivery goes
\* back to the queue (reject_on_worker_lost, autoretry_for, the broker's
\* visibility timeout) or is dropped (hard time limit, retries exhausted).
WorkerLost(w) ==
    /\ wPc[w] # "idle"
    /\ Enqueue(wFile[w]) \/ UNCHANGED queue
    /\ wPc' = [wPc EXCEPT ![w] = "idle"]
    /\ wFile' = [wFile EXCEPT ![w] = None]
    /\ wState' = [wState EXCEPT ![w] = None]
    /\ UNCHANGED <<rowVars, lock, timeVars, reqVars, storageVars, janitorVars>>

-----------------------------------------------------------------------------
(* The hourly janitor: recover_stale_uploads.                              *)

\* Time passes for a row.
Age(f) ==
    /\ state[f] = "UPLOADING" /\ f \notin aged
    /\ aged' = aged \cup {f}
    /\ UNCHANGED <<rowVars, lock, quiet, reqVars, storageVars, workerVars,
                   janitorVars>>

Quiesce(f) ==
    /\ state[f] = "QUARANTINED" /\ f \notin quiet
    /\ quiet' = quiet \cup {f}
    /\ UNCHANGED <<rowVars, lock, aged, reqVars, storageVars, workerVars,
                   janitorVars>>

\* Mutant of ExpiryCandidates: uploads that were never provisioned are left.
ProvisionedCandidates ==
    {f \in aged : state[f] = "UPLOADING" /\ multipartId[f] # None}

ExpiryCandidates == {f \in aged : state[f] = "UPLOADING"}

\* _expire_uploads reads the candidates without locking them.
JanitorSelect ==
    /\ jPc = "idle"
    /\ jPc' = "expire"
    /\ jTodo' = ExpiryCandidates
    /\ UNCHANGED <<rowVars, lock, timeVars, reqVars, storageVars, workerVars, jFile>>

\* Mutant of Expirable: the candidate's state is not read again.
ExpirableUnchecked(f) == f \in aged

Expirable(f) == state[f] = "UPLOADING" /\ f \in aged

\* Mutant of JanitorExpire: the storage is cleaned before the row is locked.
JanitorCleanFirst(f) ==
    /\ jPc = "expire" /\ f \in jTodo
    /\ jTodo' = jTodo \ {f}
    /\ object' = [object EXCEPT ![f] = None]
    /\ UNCHANGED <<rowVars, lock, timeVars, reqVars, mpKey, live, granted, part,
                   late, workerVars, jPc, jFile>>

\* _expire_one locks a candidate and looks at it again.
JanitorExpire(f) ==
    /\ jPc = "expire" /\ f \in jTodo /\ lock[f] = None
    /\ jTodo' = jTodo \ {f}
    /\ \/ /\ Expirable(f)
          /\ state' = [state EXCEPT ![f] = "FAILED"]
          /\ scanResult' = [scanResult EXCEPT ![f] = "UPLOAD_EXPIRED"]
          /\ jFile' = f
          /\ jPc' = IF multipartId[f] = None THEN "delete" ELSE "abort"
       \/ ~Expirable(f) /\ UNCHANGED <<state, scanResult, jFile, jPc>>
    /\ UNCHANGED <<sha256, multipartId, lock, timeVars, reqVars, storageVars,
                   workerVars>>

JanitorAbort ==
    /\ jPc = "abort"
    /\ AbortMultipart(jFile, multipartId[jFile])
    /\ jPc' = "delete"
    /\ UNCHANGED <<rowVars, lock, timeVars, reqVars, workerVars, jTodo, jFile>>

JanitorDelete ==
    /\ jPc = "delete"
    /\ DeleteObject(jFile)
    /\ jPc' = "expire" /\ jFile' = None
    /\ UNCHANGED <<rowVars, lock, timeVars, reqVars, workerVars, jTodo>>

\* Mutant of RedispatchCandidates: the state of a running scan is looked for.
RunningScans == {f \in quiet : state[f] = "SCANNING"}

RedispatchCandidates == {f \in quiet : state[f] = "QUARANTINED"}

\* _redispatch_scans reads the quarantined files ...
JanitorSelectScans ==
    /\ jPc = "expire" /\ jTodo = {}
    /\ jTodo' = RedispatchCandidates
    /\ jPc' = IF jTodo' = {} THEN "done" ELSE "redispatch"
    /\ UNCHANGED <<rowVars, lock, timeVars, reqVars, storageVars, workerVars, jFile>>

\* ... and enqueues each of them.
JanitorDequeue(f) ==
    /\ jPc = "redispatch" /\ f \in jTodo
    /\ jTodo' = jTodo \ {f}
    /\ jPc' = IF jTodo' = {} THEN "done" ELSE "redispatch"
    /\ UNCHANGED <<rowVars, lock, timeVars, reqVars, storageVars, wPc, wFile,
                   wState, jFile>>

JanitorRedispatch(f) == JanitorDequeue(f) /\ Enqueue(f)

\* _safe_enqueue swallows a broker error.
JanitorRedispatchFails(f) == JanitorDequeue(f) /\ UNCHANGED queue

JanitorDone ==
    /\ jPc = "done"
    /\ jPc' = "idle"
    /\ UNCHANGED <<rowVars, lock, timeVars, reqVars, storageVars, workerVars, jTodo,
                   jFile>>

\* The janitor's task dies; beat starts a fresh one.
JanitorLost ==
    /\ jPc \notin {"idle", "done"}
    /\ jPc' = "idle" /\ jTodo' = {} /\ jFile' = None
    /\ UNCHANGED <<rowVars, lock, timeVars, reqVars, storageVars, workerVars>>

-----------------------------------------------------------------------------

RequestNext ==
    \E r \in Requests :
        \/ \E f \in Files : (\E c \in Contents : StartUpload(r, f, c)) \/ CompleteLock(r, f)
        \/ \E m \in Multiparts : ProvisionAbort(r, m) \/ ProvisionCreate(r, m)
        \/ ProvisionLock(r) \/ ProvisionList(r) \/ ProvisionTimeout(r)
        \/ CompleteStorage(r) \/ CompleteTimeout(r) \/ CompleteCommit(r)
        \/ CompleteEnqueue(r) \/ CompleteDelete(r) \/ RequestFail(r)

WorkerNext ==
    \E w \in Workers :
        \/ \E f \in Files : Deliver(w, f)
        \/ ScanClaim(w) \/ ScanObject(w) \/ ScanRecord(w) \/ ScanDelete(w)
        \/ ScanAck(w) \/ WorkerLost(w)

JanitorNext ==
    \/ \E f \in Files : JanitorExpire(f) \/ JanitorRedispatch(f) \/ JanitorRedispatchFails(f)
    \/ JanitorSelect \/ JanitorAbort \/ JanitorDelete \/ JanitorSelectScans
    \/ JanitorDone \/ JanitorLost

Environment ==
    \/ \E f \in Files : Age(f) \/ Quiesce(f) \/ PresignPart(f)
    \/ \E m \in Multiparts, c \in Contents : PutPart(m, c)
    \/ \E c \in late : TakeEffect(c)

Next == RequestNext \/ WorkerNext \/ JanitorNext \/ Environment

Spec == Init /\ [][Next]_vars

\* What a request does once it has begun.
RequestStep(r) ==
    \/ \E m \in Multiparts : ProvisionAbort(r, m) \/ ProvisionCreate(r, m)
    \/ ProvisionLock(r) \/ ProvisionList(r) \/ ProvisionTimeout(r)
    \/ CompleteStorage(r) \/ CompleteTimeout(r) \/ CompleteCommit(r)
    \/ CompleteEnqueue(r) \/ CompleteDelete(r) \/ RequestFail(r)

(***************************************************************************)
(* Time passes, every storage call ends (20 seconds, or the client's own   *)
(* timeouts), beat starts the janitor every hour and the worker is         *)
(* restarted (restart: unless-stopped).  Strong fairness says that a step  *)
(* that keeps being possible is not killed, or refused by the broker or by *)
(* a locked row, every single time; the janitor, which has six minutes for *)
(* one run, is not killed in every run.  No client is obliged to do        *)
(* anything.                                                               *)
(***************************************************************************)
Fairness ==
    /\ \A f \in Files : WF_vars(Age(f)) /\ WF_vars(Quiesce(f))
    /\ \A r \in Requests : WF_vars(RequestStep(r))
    /\ \A w \in Workers :
        /\ SF_vars(ScanClaim(w)) /\ SF_vars(ScanRecord(w))
        /\ WF_vars(ScanObject(w)) /\ WF_vars(ScanDelete(w)) /\ WF_vars(ScanAck(w))
    /\ \A f \in Files :
        /\ SF_vars(\E w \in Workers : Deliver(w, f))
        /\ SF_vars(JanitorExpire(f)) /\ SF_vars(JanitorRedispatch(f))
    /\ WF_vars(JanitorSelect) /\ WF_vars(JanitorAbort) /\ WF_vars(JanitorDelete)
    /\ WF_vars(JanitorSelectScans) /\ WF_vars(JanitorDone)
    /\ <>[][~JanitorLost]_vars

FairSpec == Spec /\ Fairness

-----------------------------------------------------------------------------
(* Properties.                                                             *)

\* The type invariant of the rows, requests, storage, queue and workers.
TypeOK ==
    /\ state \in [Files -> FileState]
    /\ sha256 \in [Files -> Contents \cup {None}]
    /\ multipartId \in [Files -> Multiparts \cup {None}]
    /\ scanResult \in [Files -> ScanResult]
    /\ lock \in [Files -> Requests \cup {None}]
    /\ aged \subseteq Files /\ quiet \subseteq Files
    /\ rPc \in [Requests -> {"idle", "provision", "list", "create", "complete",
                             "head", "enqueue", "delete"}]
    /\ rFile \in [Requests -> Files \cup {None}]
    /\ rTodo \in [Requests -> SUBSET Multiparts]
    /\ mpKey \in [Multiparts -> Files \cup {None}]
    /\ live \subseteq Multiparts /\ granted \subseteq Multiparts
    /\ part \in [Multiparts -> Contents \cup {None}]
    /\ object \in [Files -> Contents \cup {None}]
    /\ late \subseteq LateCall
    /\ queue \in [Files -> 0..MaxDeliveries]
    /\ wPc \in [Workers -> {"idle", "claim", "scan", "record", "delete", "ack"}]
    /\ wFile \in [Workers -> Files \cup {None}]
    /\ wState \in [Workers -> ScanResult]
    /\ jPc \in {"idle", "expire", "abort", "delete", "redispatch", "done"}
    /\ jTodo \subseteq Files
    /\ jFile \in Files \cup {None}

\* What ensure_downloadable lets out is exactly the content the uploader
\* declared, still in storage, and clamd found nothing in it.
CleanIsVerified ==
    \A f \in Files : state[f] = "CLEAN" =>
        /\ object[f] = sha256[f]
        /\ sha256[f] \in Contents \ Malware

\* Once _complete_upload has accepted an object, no late storage call,
\* cleanup or second completion changes it before the scan has decided, nor
\* after it was found clean: the bytes scanned are the bytes served.
AcceptedObjectIsStable ==
    [][\A f \in Files : state[f] \in {"QUARANTINED", "SCANNING", "CLEAN"}
                            => object'[f] = object[f]]_vars

\* Duplicate and repeated deliveries never have two workers scan one file.
SingleScanner ==
    \A w1, w2 \in Workers :
        /\ wPc[w1] \in {"scan", "record"} /\ wPc[w2] \in {"scan", "record"}
        /\ wFile[w1] = wFile[w2]
        => w1 = w2

\* The detailed model keeps the promise of FileContract.
Contract == INSTANCE FileContract WITH
    published <- [f \in Files |-> IF state[f] = "CLEAN" THEN object[f] ELSE None]

ContractSpec == Contract!Spec

\* Every upload ends: it is completed, or the janitor expires it, also when
\* it was never provisioned, its row is locked again and again, or its
\* completion took effect in S3 behind the API's back.
UploadsEnd ==
    \A f \in Files : state[f] = "UPLOADING" ~> state[f] # "UPLOADING"

\* No quarantined file is forgotten, whichever enqueue was lost and whichever
\* delivery was dropped: a worker claims it in the end.
QuarantineDrains ==
    \A f \in Files : state[f] = "QUARANTINED" ~> state[f] # "QUARANTINED"

-----------------------------------------------------------------------------
(* What the repository says of the code and the code does not do.          *)

\* test_cancelled_scan_rolls_back_to_retryable_quarantine: a scan that is
\* cut short stays retryable, so that every scan ends with a result.
ScanningEnds ==
    \A f \in Files : state[f] = "SCANNING" ~> state[f] \in TerminalStates
=============================================================================
