-------------------------- MODULE ImportJobs_proofs --------------------------
(***************************************************************************)
(* ImportJobs is type correct, uses its files only as FileContract allows, *)
(* and keeps its promises -- for every number of keys, kinds, manifests,   *)
(* requests and workers, whichever of them die and however their           *)
(* transactions interleave.                                                *)
(***************************************************************************)
EXTENDS ImportJobs, TLAPS

\* The states in which a file stays.
Ended == {"CLEAN", "INFECTED", "FAILED"}

\* The steps of reconcile_file, and those at which its job's row is locked.
Reconciling == {"lookup", "reconcile", "transition"}
Holding == {"transition", "submit"}

\* A file has a declared content from its start on, and offers it once clean.
FileInv ==
    \A f \in Files : /\ state[f] # "ABSENT" => sha256[f] \in Contents
                     /\ state[f] = "CLEAN" => published[f] = sha256[f]

\* A status and code that the files of the job bear out.
Justified(k, st, resCode) ==
    /\ st \in {"UPLOADING", "SCANNING"} => resCode = None
    /\ st = "RECEIVED" => FileStates(k) = {"CLEAN"} /\ BaseMatches(k) /\ resCode = None
    /\ st = "CONFLICT" =>
          FileStates(k) = {"CLEAN"} /\ ~BaseMatches(k) /\ resCode = "BASE_SHA256_MISMATCH"
    /\ st = "REJECTED" =>
          \/ resCode = "ATTACHMENT_INFECTED" /\ "INFECTED" \in FileStates(k)
          \/ resCode = "ATTACHMENT_SCAN_FAILED" /\ "FAILED" \in FileStates(k)

\* The file of a declared attachment was started with the declared content.
Started(k, m, kind) ==
    state[<<k, kind>>] # "ABSENT" /\ sha256[<<k, kind>>] = Declared[m][kind]

JobInv(k) ==
    /\ Exists(k) => \A kind \in KindsOf(manifest[k]) : Started(k, manifest[k], kind)
    /\ ~Exists(k) => status[k] = "UPLOADING"
    /\ Justified(k, status[k], resultCode[k])
    /\ status[k] = "SCANNING" => "UPLOADING" \notin FileStates(k)

\* What a handler works on.
WorksOn(p) ==
    /\ pc[p] \in {"create", "submit", "read"} => p \in Requests /\ onKey[p] \in Keys
    /\ pc[p] \in {"claim", "scan"} => p \in Workers
    /\ pc[p] \in {"claim", "scan"} \cup Reconciling => onFile[p] \in Files
    /\ pc[p] \in {"reconcile", "transition"} =>
          onKey[p] = onFile[p][1] /\ Exists(onKey[p]) /\ onFile[p] \in Attachments(onKey[p])
    /\ pc[p] \in {"submit", "read"} => Exists(onKey[p])
    /\ p \in Requests /\ pc[p] \in Reconciling =>
          /\ onKey[p] = onFile[p][1]
          /\ Exists(onKey[p]) /\ onFile[p] \in Attachments(onKey[p])
    /\ p \in Requests /\ pc[p] \in {"read"} \cup Reconciling =>
          todo[p] \subseteq KindsOf(manifest[onKey[p]])

\* A create has started the attachments it has left behind.
CreateInv(p) ==
    pc[p] = "create" =>
        /\ draft[p] \in Manifests /\ todo[p] \subseteq KindsOf(draft[p])
        /\ \A kind \in KindsOf(draft[p]) \ todo[p] : Started(onKey[p], draft[p], kind)

\* What a handler is about to write is still true, and the job still its own.
WriteInv(p) ==
    pc[p] \in Holding =>
        /\ jobLock[onKey[p]] = p
        /\ status[onKey[p]] \in (IF pc[p] = "submit" THEN {"UPLOADING", "SCANNING"} ELSE {"SCANNING"})
        /\ "UPLOADING" \notin FileStates(onKey[p])
        /\ seen[p] \in Evaluations /\ seen[p].status # "UPLOADING"
        /\ Justified(onKey[p], seen[p].status, seen[p].code)

\* A read of a job that was due has not passed it by.
DueInv(p) ==
    p \in due =>
        /\ pc[p] \in {"read"} \cup Reconciling /\ Due(onKey[p])
        /\ pc[p] = "read" /\ status[onKey[p]] \notin TerminalStatus =>
              todo[p] = KindsOf(manifest[onKey[p]])
        /\ pc[p] = "transition" => seen[p].status # "SCANNING"

HandlerInv(p) == WorksOn(p) /\ CreateInv(p) /\ WriteInv(p) /\ DueInv(p)

StateInv ==
    /\ FileInv /\ AuditTellsTheEnd
    /\ \A k \in Keys : JobInv(k)
    /\ \A p \in Handlers : HandlerInv(p)

IInv == TypeOK /\ StateInv

-----------------------------------------------------------------------------

\* What a step of the files does to each of them.
FilesForward ==
    \A f \in Files :
        /\ state[f] # "ABSENT" => state'[f] # "ABSENT" /\ sha256'[f] = sha256[f]
        /\ state[f] \notin {"ABSENT", "UPLOADING"} => state'[f] \notin {"ABSENT", "UPLOADING"}
        /\ state[f] \in Ended => state'[f] = state[f]

FileTypes ==
    /\ state \in [Files -> {"ABSENT", "UPLOADING", "QUARANTINED", "SCANNING",
                            "CLEAN", "INFECTED", "FAILED"}]
    /\ sha256 \in [Files -> Contents \cup {None}]
    /\ published \in [Files -> Contents \cup {None}]

\* The first state satisfies the inductive invariant.
LEMMA InitInv == Init => IInv
<1> SUFFICES ASSUME Init PROVE IInv
  OBVIOUS
<1>1. TypeOK
  <2>1. FileTypes
    BY DEF Init, files!Init, FileTypes
  <2>2. /\ deliveries \subseteq Files /\ lost \in BOOLEAN
        /\ manifest \in [Keys -> Manifests \cup {None}]
        /\ status \in [Keys -> ImportStatus]
        /\ resultCode \in [Keys -> {None, "ATTACHMENT_INFECTED", "ATTACHMENT_SCAN_FAILED",
                                    "BASE_SHA256_MISMATCH"}]
        /\ submitted \in [Keys -> BOOLEAN]
        /\ jobLock \in [Keys -> Handlers \cup {None}]
    BY DEF Init, ImportStatus
  <2>3. audit \subseteq {Event(a, k, e) : a \in Action, k \in Keys, e \in Evaluations}
    BY DEF Init
  <2>4. /\ pc \in [Handlers -> {"idle", "create", "claim", "scan", "lookup", "reconcile",
                                "transition", "submit", "read"}]
        /\ onKey \in [Handlers -> Keys \cup {None}]
        /\ onFile \in [Handlers -> Files \cup {None}]
        /\ draft \in [Handlers -> Manifests \cup {None}]
        /\ todo \in [Handlers -> SUBSET Kinds]
        /\ seen \in [Handlers -> Evaluations \cup {None}]
        /\ due \subseteq Requests
    BY DEF Init
  <2> QED BY <2>1, <2>2, <2>3, <2>4 DEF TypeOK, FileTypes
<1>2. FileInv
  BY DEF Init, files!Init, FileInv
<1>3. AuditTellsTheEnd
  BY DEF Init, AuditTellsTheEnd, TerminalStatus
<1>4. \A k \in Keys : JobInv(k)
  BY DEF Init, JobInv, Exists, Justified
<1>5. \A q \in Handlers : HandlerInv(q)
  BY DEF Init, HandlerInv, WorksOn, CreateInv, WriteInv, DueInv, Reconciling, Holding
<1> QED BY <1>1, <1>2, <1>3, <1>4, <1>5 DEF IInv, StateInv

\* A step of FileContract only takes files forward.
LEMMA FilesMove ==
    ASSUME FileTypes, FileInv, [files!Next]_(files!fileVars)
    PROVE  FileTypes' /\ FileInv' /\ FilesForward
<1>1. CASE UNCHANGED files!fileVars
  BY <1>1 DEF files!fileVars, FileTypes, FileInv, FilesForward, Ended
<1>2. ASSUME NEW f \in Files, NEW c \in Contents, files!Start(f, c)
      PROVE  FileTypes' /\ FileInv' /\ FilesForward
  BY <1>2 DEF files!Start, files!Move, FileTypes, FileInv, FilesForward, Ended
<1>3. ASSUME NEW f \in Files, files!Refuse(f) \/ files!Quarantine(f) \/ files!Claim(f)
      PROVE  FileTypes' /\ FileInv' /\ FilesForward
  BY <1>3 DEF files!Refuse, files!Quarantine, files!Claim, files!Move, FileTypes, FileInv,
        FilesForward, Ended
<1>4. ASSUME NEW f \in Files, files!Publish(f) \/ files!Reject(f)
      PROVE  FileTypes' /\ FileInv' /\ FilesForward
  BY <1>4 DEF files!Publish, files!Reject, files!Move, FileTypes, FileInv, FilesForward, Ended
<1> QED BY <1>1, <1>2, <1>3, <1>4 DEF files!Next

\* The attachments of a job are files, and there are some.
LEMMA AttachmentFacts ==
    ASSUME TypeOK, NEW k \in Keys, Exists(k)
    PROVE  /\ manifest[k] \in Manifests /\ KindsOf(manifest[k]) # {}
           /\ KindsOf(manifest[k]) \subseteq Kinds
           /\ \A kind \in KindsOf(manifest[k]) : <<k, kind>> \in Attachments(k)
           /\ \A f \in Attachments(k) :
                 f \in Files /\ \E kind \in KindsOf(manifest[k]) : f = <<k, kind>>
           /\ FileStates(k) # {}
<1>1. manifest[k] \in Manifests
  BY DEF TypeOK, Exists
<1>2. KindsOf(manifest[k]) # {} /\ KindsOf(manifest[k]) \subseteq Kinds
  BY <1>1, ImportAssumptions DEF KindsOf
<1>3. \A kind \in KindsOf(manifest[k]) : <<k, kind>> \in Attachments(k)
  BY DEF Attachments
<1>4. \A f \in Attachments(k) :
        f \in Files /\ \E kind \in KindsOf(manifest[k]) : f = <<k, kind>>
  BY <1>2 DEF Attachments, Files
<1>5. FileStates(k) # {}
  BY <1>2, <1>3 DEF FileStates
<1> QED BY <1>1, <1>2, <1>3, <1>4, <1>5

\* _evaluate_files says what is true of the files it saw, and says more than
\* SCANNING when all of them have ended.
LEMMA EvaluateJustified ==
    ASSUME TypeOK, NEW k \in Keys, Exists(k), JobInv(k), NEW e, e = EvaluateFiles(k)
    PROVE  /\ e \in Evaluations /\ e.status # "UPLOADING"
           /\ Justified(k, e.status, e.code)
           /\ FileStates(k) \subseteq Ended => e.status # "SCANNING"
<1> DEFINE states == FileStates(k)
           base == BaseSha256[manifest[k]]
<1>1. base # None /\ sha256[<<k, "ORIGINAL">>] # base <=> ~BaseMatches(k)
  <2>1. manifest[k] \in Manifests
    BY AttachmentFacts
  <2>2. base # None => "ORIGINAL" \in KindsOf(manifest[k])
    BY <2>1, ImportAssumptions DEF KindsOf
  <2>3. base # None => sha256[<<k, "ORIGINAL">>] = Declared[manifest[k]]["ORIGINAL"]
    BY <2>2 DEF JobInv, Started
  <2> QED BY <2>3 DEF BaseMatches
<1>2. e = IF "INFECTED" \in states THEN Evaluation("REJECTED", "ATTACHMENT_INFECTED")
          ELSE IF "FAILED" \in states THEN Evaluation("REJECTED", "ATTACHMENT_SCAN_FAILED")
          ELSE IF states # {"CLEAN"} THEN Evaluation("SCANNING", None)
          ELSE IF ~BaseMatches(k) THEN Evaluation("CONFLICT", "BASE_SHA256_MISMATCH")
          ELSE Evaluation("RECEIVED", None)
  BY <1>1 DEF EvaluateFiles, FileStates
<1>3. states # {}
  BY AttachmentFacts
<1> HIDE DEF states
<1>4. e \in Evaluations /\ e.status # "UPLOADING"
  BY <1>2 DEF Evaluation, Evaluations, ImportStatus, TerminalStatus
<1>5. Justified(k, e.status, e.code)
  BY <1>2 DEF Evaluation, Justified, states
<1>6. states \subseteq Ended => e.status # "SCANNING"
  <2> SUFFICES ASSUME states \subseteq Ended, e.status = "SCANNING" PROVE FALSE
    OBVIOUS
  <2>1. "INFECTED" \notin states /\ "FAILED" \notin states /\ states # {"CLEAN"}
    BY <1>2 DEF Evaluation
  <2> QED BY <1>3, <2>1 DEF Ended
<1> QED BY <1>4, <1>5, <1>6 DEF states

\* What the files of a job bear out they bear out after every later step.
LEMMA StatesKept ==
    ASSUME TypeOK, NEW k \in Keys, Exists(k), JobInv(k), FilesForward, manifest'[k] = manifest[k]
    PROVE  /\ Attachments(k)' = Attachments(k) /\ (BaseMatches(k)' <=> BaseMatches(k))
           /\ FileStates(k) = {"CLEAN"} => FileStates(k)' = {"CLEAN"}
           /\ "INFECTED" \in FileStates(k) => "INFECTED" \in FileStates(k)'
           /\ "FAILED" \in FileStates(k) => "FAILED" \in FileStates(k)'
           /\ "UPLOADING" \notin FileStates(k) => "UPLOADING" \notin FileStates(k)'
           /\ FileStates(k) \subseteq Ended => FileStates(k)' = FileStates(k)
<1>1. Attachments(k)' = Attachments(k) /\ (BaseMatches(k)' <=> BaseMatches(k))
  BY DEF Attachments, BaseMatches
<1>2. \A f \in Attachments(k) : f \in Files /\ state[f] # "ABSENT"
  BY AttachmentFacts DEF JobInv, Started
<1>3. FileStates(k)' = {state'[f] : f \in Attachments(k)}
  BY <1>1 DEF FileStates
<1>4. ASSUME FileStates(k) \subseteq Ended PROVE FileStates(k)' = FileStates(k)
  <2>1. \A f \in Attachments(k) : state'[f] = state[f]
    BY <1>2, <1>4 DEF FileStates, FilesForward
  <2> QED BY <1>3, <2>1 DEF FileStates
<1>5. FileStates(k) = {"CLEAN"} => FileStates(k)' = {"CLEAN"}
  BY <1>4 DEF Ended
<1>6. /\ "INFECTED" \in FileStates(k) => "INFECTED" \in FileStates(k)'
      /\ "FAILED" \in FileStates(k) => "FAILED" \in FileStates(k)'
  BY <1>2, <1>3 DEF FileStates, FilesForward, Ended
<1>7. "UPLOADING" \notin FileStates(k) => "UPLOADING" \notin FileStates(k)'
  BY <1>2, <1>3 DEF FileStates, FilesForward
<1> QED BY <1>1, <1>4, <1>5, <1>6, <1>7

\* So does every verdict they have justified.
LEMMA JustifiedKept ==
    ASSUME TypeOK, NEW k \in Keys, Exists(k), JobInv(k), FilesForward, manifest'[k] = manifest[k],
           NEW st, NEW resCode, Justified(k, st, resCode)
    PROVE  Justified(k, st, resCode)'
  BY StatesKept DEF Justified

\* A job that is not written keeps its invariant.
LEMMA JobKept ==
    ASSUME TypeOK, NEW k \in Keys, JobInv(k), FilesForward,
           manifest'[k] = manifest[k], status'[k] = status[k], resultCode'[k] = resultCode[k]
    PROVE  JobInv(k)'
<1>1. CASE ~Exists(k)
  BY <1>1 DEF JobInv, Exists, Justified
<1>2. CASE Exists(k)
  <2>1. \A kind \in KindsOf(manifest[k]) : Started(k, manifest[k], kind)'
    BY <1>2, AttachmentFacts DEF JobInv, Started, FilesForward
  <2>2. Justified(k, status[k], resultCode[k])'
    <3>1. PICK st, resCode : st = status[k] /\ resCode = resultCode[k]
      OBVIOUS
    <3>2. Justified(k, st, resCode)'
      BY <1>2, <3>1, JustifiedKept DEF JobInv
    <3> QED BY <3>1, <3>2
  <2>3. status'[k] = "SCANNING" => "UPLOADING" \notin FileStates(k)'
    BY <1>2, StatesKept DEF JobInv
  <2> QED BY <1>2, <2>1, <2>2, <2>3 DEF JobInv, Exists
<1> QED BY <1>1, <1>2

-----------------------------------------------------------------------------

QueueTypes == deliveries \subseteq Files /\ lost \in BOOLEAN

JobTypes ==
    /\ manifest \in [Keys -> Manifests \cup {None}]
    /\ status \in [Keys -> ImportStatus]
    /\ resultCode \in [Keys -> {None, "ATTACHMENT_INFECTED", "ATTACHMENT_SCAN_FAILED",
                                "BASE_SHA256_MISMATCH"}]
    /\ submitted \in [Keys -> BOOLEAN]
    /\ audit \subseteq {Event(a, k, e) : a \in Action, k \in Keys, e \in Evaluations}

HandlerTypes ==
    /\ jobLock \in [Keys -> Handlers \cup {None}]
    /\ pc \in [Handlers -> {"idle", "create", "claim", "scan", "lookup", "reconcile",
                            "transition", "submit", "read"}]
    /\ onKey \in [Handlers -> Keys \cup {None}]
    /\ onFile \in [Handlers -> Files \cup {None}]
    /\ draft \in [Handlers -> Manifests \cup {None}]
    /\ todo \in [Handlers -> SUBSET Kinds]
    /\ seen \in [Handlers -> Evaluations \cup {None}]
    /\ due \subseteq Requests

\* A step of p leaves the other handlers and the locks they hold alone.
OthersKept(p) ==
    /\ \A q \in Handlers : q # p =>
          /\ pc'[q] = pc[q] /\ onKey'[q] = onKey[q] /\ onFile'[q] = onFile[q]
          /\ draft'[q] = draft[q] /\ todo'[q] = todo[q] /\ seen'[q] = seen[q]
          /\ q \in due' => q \in due
    /\ \A k \in Keys, q \in Handlers : q # p /\ jobLock[k] = q => jobLock'[k] = q

\* A step of p takes jobs forward, and writes none that another has locked.
JobsForward(p) ==
    \A k \in Keys :
        /\ Exists(k) => manifest'[k] = manifest[k]
        /\ status[k] # "UPLOADING" => status'[k] # "UPLOADING"
        /\ status[k] \in TerminalStatus =>
              status'[k] = status[k] /\ resultCode'[k] = resultCode[k]
        /\ \A q \in Handlers : q # p /\ jobLock[k] = q => status'[k] = status[k]

\* The type invariant by the parts that different steps touch.
LEMMA TypeParts == TypeOK <=> FileTypes /\ QueueTypes /\ JobTypes /\ HandlerTypes
  BY DEF TypeOK, FileTypes, QueueTypes, JobTypes, HandlerTypes

\* A job that was due stays due.
LEMMA DueKept ==
    ASSUME IInv, NEW p, NEW k \in Keys, Exists(k), Due(k), JobsForward(p), FilesForward
    PROVE  Due(k)'
<1>1. Attachments(k)' = Attachments(k)
  BY DEF JobsForward, Attachments
<1>2. \A f \in Attachments(k) : f \in Files
  BY AttachmentFacts DEF IInv
<1> QED BY <1>1, <1>2 DEF Due, JobsForward, FilesForward, Ended

\* The handlers that do not step keep their invariant.
LEMMA HandlerKept ==
    ASSUME IInv, NEW p, OthersKept(p), JobsForward(p), FilesForward,
           NEW q \in Handlers, q # p
    PROVE  HandlerInv(q)'
<1>1. /\ pc'[q] = pc[q] /\ onKey'[q] = onKey[q] /\ onFile'[q] = onFile[q]
      /\ draft'[q] = draft[q] /\ todo'[q] = todo[q] /\ seen'[q] = seen[q]
      /\ q \in due' => q \in due
  BY DEF OthersKept
<1>2. HandlerInv(q) /\ TypeOK
  BY DEF IInv, StateInv
<1>3. \A k \in Keys : Exists(k) => /\ Exists(k)' /\ Attachments(k)' = Attachments(k)
                                   /\ manifest'[k] = manifest[k]
  BY DEF JobsForward, Exists, Attachments
<1>4. onFile[q] \in Files => onFile[q][1] \in Keys
  BY DEF Files
<1>5. WorksOn(q)'
  BY <1>1, <1>2, <1>3, <1>4 DEF HandlerInv, WorksOn, Reconciling
<1>6. CreateInv(q)'
  <2> SUFFICES ASSUME pc[q] = "create"
               PROVE  /\ draft[q] \in Manifests /\ todo[q] \subseteq KindsOf(draft[q])
                      /\ \A kind \in KindsOf(draft[q]) \ todo[q] :
                            state'[<<onKey[q], kind>>] # "ABSENT"
                            /\ sha256'[<<onKey[q], kind>>] = Declared[draft[q]][kind]
    BY <1>1 DEF CreateInv, Started, KindsOf
  <2>1. onKey[q] \in Keys
    BY <1>2 DEF HandlerInv, WorksOn
  <2>2. /\ draft[q] \in Manifests /\ todo[q] \subseteq KindsOf(draft[q])
        /\ \A kind \in KindsOf(draft[q]) \ todo[q] : Started(onKey[q], draft[q], kind)
    BY <1>2 DEF HandlerInv, CreateInv
  <2>3. \A kind \in KindsOf(draft[q]) : <<onKey[q], kind>> \in Files
    BY <2>1 DEF KindsOf, Files
  <2> QED BY <2>2, <2>3 DEF Started, FilesForward
<1>7. WriteInv(q)'
  <2> SUFFICES ASSUME pc[q] \in Holding PROVE WriteInv(q)'
    BY <1>1 DEF WriteInv
  <2>1. onKey[q] \in Keys /\ Exists(onKey[q])
    BY <1>2, <1>4 DEF HandlerInv, WorksOn, Holding, Reconciling
  <2>2. PICK e : e = seen[q]
    OBVIOUS
  <2>3. PICK k \in Keys : k = onKey[q] /\ e = seen[q]
    BY <2>1, <2>2
  <2>4. /\ jobLock[k] = q
        /\ status[k] \in (IF pc[q] = "submit" THEN {"UPLOADING", "SCANNING"} ELSE {"SCANNING"})
        /\ "UPLOADING" \notin FileStates(k)
        /\ e \in Evaluations /\ e.status # "UPLOADING"
        /\ Justified(k, e.status, e.code)
    BY <1>2, <2>3 DEF HandlerInv, WriteInv
  <2>5. JobInv(k) /\ Exists(k) /\ manifest'[k] = manifest[k]
    BY <2>1, <2>3 DEF IInv, StateInv, JobsForward
  <2>6. jobLock'[k] = q /\ status'[k] = status[k]
    BY <2>4 DEF OthersKept, JobsForward
  <2>7. "UPLOADING" \notin FileStates(k)'
    BY <1>2, <2>4, <2>5, StatesKept
  <2>8. Justified(k, e.status, e.code)'
    <3>1. PICK st, resCode : st = e.status /\ resCode = e.code
      OBVIOUS
    <3> QED BY <1>2, <2>4, <2>5, <3>1, JustifiedKept
  <2> QED BY <1>1, <2>3, <2>4, <2>6, <2>7, <2>8 DEF WriteInv
<1>8. DueInv(q)'
  <2> SUFFICES ASSUME q \in due PROVE DueInv(q)'
    BY <1>1 DEF DueInv
  <2>1. q \in Requests /\ pc[q] \in {"read"} \cup Reconciling
    BY <1>2 DEF HandlerInv, DueInv, TypeOK
  <2>2. PICK k \in Keys : k = onKey[q] /\ Exists(k)
    BY <1>2, <1>4, <2>1 DEF HandlerInv, WorksOn, Reconciling
  <2>3. /\ Due(k)
        /\ pc[q] = "read" /\ status[k] \notin TerminalStatus => todo[q] = KindsOf(manifest[k])
        /\ pc[q] = "transition" => seen[q].status # "SCANNING"
    BY <1>2, <2>2 DEF HandlerInv, DueInv
  <2>4. Due(k)'
    BY <2>2, <2>3, DueKept
  <2>5. status'[k] \notin TerminalStatus => status[k] \notin TerminalStatus
    BY DEF JobsForward
  <2>6. KindsOf(manifest'[k]) = KindsOf(manifest[k])
    BY <2>2 DEF JobsForward
  <2>7. pc[q] = "read" /\ status'[k] \notin TerminalStatus => todo[q] = KindsOf(manifest'[k])
    BY <2>3, <2>5, <2>6
  <2> QED BY <1>1, <2>1, <2>2, <2>3, <2>4, <2>7 DEF DueInv, KindsOf
<1> QED BY <1>5, <1>6, <1>7, <1>8 DEF HandlerInv

\* Jobs that a step does not write keep their invariant, and so does the audit log.
LEMMA JobsKept ==
    ASSUME IInv, UNCHANGED <<jobVars, audit>>, FilesForward
    PROVE  /\ JobTypes' /\ AuditTellsTheEnd' /\ \A k \in Keys : JobInv(k)'
           /\ \A p : JobsForward(p)
<1>1. JobTypes' /\ AuditTellsTheEnd'
  BY DEF IInv, StateInv, TypeOK, JobTypes, AuditTellsTheEnd, jobVars
<1>2. \A k \in Keys : JobInv(k)'
  BY JobKept DEF IInv, StateInv, jobVars
<1>3. \A p : JobsForward(p)
  BY DEF JobsForward, jobVars
<1> QED BY <1>1, <1>2, <1>3
\* _apply_transition, by the handler that holds the job, with what it has seen.
LEMMA JobWritten ==
    ASSUME IInv, NEW p \in Handlers, pc[p] \in Holding, NEW action \in Action,
           ApplyTransition(action, onKey[p], seen[p]), FilesForward, UNCHANGED fileVars
    PROVE  /\ JobTypes' /\ AuditTellsTheEnd' /\ \A k \in Keys : JobInv(k)'
           /\ JobsForward(p) /\ status'[onKey[p]] = seen[p].status
<1>1. TypeOK /\ HandlerInv(p)
  BY DEF IInv, StateInv
<1>2. onFile[p] \in Files => onFile[p][1] \in Keys
  BY DEF Files
<1>3. onKey[p] \in Keys /\ Exists(onKey[p])
  BY <1>1, <1>2 DEF HandlerInv, WorksOn, Holding, Reconciling
<1>4. PICK e : e = seen[p]
  OBVIOUS
<1>5. PICK k \in Keys : k = onKey[p] /\ e = seen[p] /\ Exists(k)
  BY <1>3, <1>4
<1>6. /\ jobLock[k] = p /\ status[k] \in {"UPLOADING", "SCANNING"}
      /\ "UPLOADING" \notin FileStates(k)
      /\ e \in Evaluations /\ e.status # "UPLOADING"
      /\ Justified(k, e.status, e.code)
  BY <1>1, <1>5 DEF HandlerInv, WriteInv
<1>7. PICK row : row = Event(action, k, e)
  OBVIOUS
<1>8. /\ row.key = k /\ row.status = e.status /\ row.code = e.code
      /\ row \in {Event(a, j, v) : a \in Action, j \in Keys, v \in Evaluations}
  BY <1>6, <1>7 DEF Event
<1>9. /\ status' = [status EXCEPT ![k] = e.status]
      /\ resultCode' = [resultCode EXCEPT ![k] = e.code]
      /\ submitted' = [submitted EXCEPT ![k] = TRUE]
      /\ audit' = audit \cup {row} /\ manifest' = manifest
  BY <1>5, <1>7 DEF ApplyTransition
<1>10. /\ e.status \in ImportStatus
       /\ e.code \in {None, "ATTACHMENT_INFECTED", "ATTACHMENT_SCAN_FAILED",
                       "BASE_SHA256_MISMATCH"}
  BY <1>6 DEF Evaluations
<1>11. status'[k] = e.status /\ resultCode'[k] = e.code
  BY <1>1, <1>9 DEF TypeOK
<1>12. \A j \in Keys : j # k => status'[j] = status[j] /\ resultCode'[j] = resultCode[j]
  BY <1>1, <1>9 DEF TypeOK
<1>13. JobTypes'
  BY <1>1, <1>8, <1>9, <1>10 DEF TypeOK, JobTypes
<1>14. AuditTellsTheEnd'
  <2> DEFINE ends(j) == {v \in audit : v.key = j /\ v.status \in TerminalStatus}
             ends1(j) == {v \in audit' : v.key = j /\ v.status \in TerminalStatus}
  <2> SUFFICES ASSUME NEW j \in Keys
               PROVE  IF status'[j] \in TerminalStatus
                        THEN \E v \in ends1(j) : /\ ends1(j) = {v}
                                  /\ v.status = status'[j] /\ v.code = resultCode'[j]
                        ELSE ends1(j) = {}
    BY DEF AuditTellsTheEnd
  <2>1. IF status[j] \in TerminalStatus
          THEN \E v \in ends(j) : /\ ends(j) = {v}
                                  /\ v.status = status[j] /\ v.code = resultCode[j]
          ELSE ends(j) = {}
    BY DEF IInv, StateInv, AuditTellsTheEnd
  <2>2. CASE j # k
    <3>1. ends1(j) = ends(j)
      BY <1>8, <1>9, <2>2
    <3> QED BY <1>12, <2>1, <2>2, <3>1
  <2>3. CASE j = k /\ e.status \in TerminalStatus
    <3>1. ends(j) = {}
      BY <1>6, <2>1, <2>3 DEF TerminalStatus
    <3>2. ends1(j) = {row}
      BY <1>8, <1>9, <2>3, <3>1
    <3> QED BY <1>8, <1>11, <2>3, <3>2
  <2>4. CASE j = k /\ e.status \notin TerminalStatus
    <3>1. ends(j) = {}
      BY <1>6, <2>1, <2>4 DEF TerminalStatus
    <3>2. ends1(j) = {}
      BY <1>8, <1>9, <2>4, <3>1
    <3> QED BY <1>11, <2>4, <3>2
  <2> QED BY <2>2, <2>3, <2>4
<1>15. ASSUME NEW j \in Keys PROVE JobInv(j)'
  <2>1. CASE j # k
    BY <1>1, <1>9, <1>12, <2>1, JobKept DEF IInv, StateInv
  <2>2. CASE j = k
    <3>1. JobInv(k)
      BY DEF IInv, StateInv
    <3>2. \A kind \in KindsOf(manifest[k]) : Started(k, manifest[k], kind)
      BY <1>5, <3>1 DEF JobInv
    <3>3. (\A kind \in KindsOf(manifest[k]) : Started(k, manifest[k], kind))'
      BY <1>9, <3>2 DEF Started, KindsOf, fileVars
    <3>4. FileStates(k)' = FileStates(k) /\ BaseMatches(k)' = BaseMatches(k)
      BY <1>9 DEF FileStates, Attachments, BaseMatches, fileVars
    <3>5. Exists(k)'
      BY <1>5, <1>9 DEF Exists
    <3>6. Justified(k, status[k], resultCode[k])'
      BY <1>6, <1>11, <3>4 DEF Justified
    <3> QED BY <1>6, <2>2, <3>3, <3>4, <3>5, <3>6 DEF JobInv
  <2> QED BY <2>1, <2>2
<1>16. JobsForward(p)
  <2> SUFFICES ASSUME NEW j \in Keys
               PROVE  /\ Exists(j) => manifest'[j] = manifest[j]
                      /\ status[j] # "UPLOADING" => status'[j] # "UPLOADING"
                      /\ status[j] \in TerminalStatus =>
                            status'[j] = status[j] /\ resultCode'[j] = resultCode[j]
                      /\ \A q \in Handlers : q # p /\ jobLock[j] = q => status'[j] = status[j]
    BY DEF JobsForward
  <2>1. CASE j # k
    BY <1>9, <1>12, <2>1
  <2>2. CASE j = k
    BY <1>6, <1>9, <1>11, <2>2 DEF TerminalStatus
  <2> QED BY <2>1, <2>2
<1> QED BY <1>5, <1>11, <1>13, <1>14, <1>15, <1>16

\* The end of a handler releases its locks and disturbs no other handler.
LEMMA FinishKept ==
    ASSUME TypeOK, NEW p \in Handlers, Finish(p)
    PROVE  HandlerTypes' /\ OthersKept(p) /\ HandlerInv(p)'
<1>1. /\ jobLock' \in [Keys -> Handlers \cup {None}]
      /\ \A k \in Keys, q \in Handlers : q # p /\ jobLock[k] = q => jobLock'[k] = q
  BY DEF Finish, Unlock, TypeOK
<1>2. /\ pc' \in [Handlers -> {"idle", "create", "claim", "scan", "lookup", "reconcile",
                                "transition", "submit", "read"}]
      /\ onKey' \in [Handlers -> Keys \cup {None}]
      /\ onFile' \in [Handlers -> Files \cup {None}]
      /\ draft' \in [Handlers -> Manifests \cup {None}]
      /\ todo' \in [Handlers -> SUBSET Kinds]
      /\ seen' \in [Handlers -> Evaluations \cup {None}]
      /\ due' \subseteq Requests
  BY DEF Finish, Goto, TypeOK
<1>3. \A q \in Handlers : q # p =>
          /\ pc'[q] = pc[q] /\ onKey'[q] = onKey[q] /\ onFile'[q] = onFile[q]
          /\ draft'[q] = draft[q] /\ todo'[q] = todo[q] /\ seen'[q] = seen[q]
          /\ q \in due' => q \in due
  BY DEF Finish, Goto, TypeOK
<1>4. pc'[p] = "idle" /\ p \notin due'
  BY DEF Finish, Goto, TypeOK
<1>5. HandlerInv(p)'
  BY <1>4 DEF HandlerInv, WorksOn, CreateInv, WriteInv, DueInv, Reconciling, Holding
<1> QED BY <1>1, <1>2, <1>3, <1>5 DEF HandlerTypes, OthersKept

\* reconcile_file returns: a worker ends, a read of a due job has seen it settled.
LEMMA ReconcileEnds ==
    ASSUME IInv, NEW p \in Handlers, EndReconcile(p), JobsForward(p), FilesForward,
           pc[p] \in Reconciling, p \in due => status'[onKey[p]] \in TerminalStatus
    PROVE  HandlerTypes' /\ OthersKept(p) /\ HandlerInv(p)'
<1>1. TypeOK /\ HandlerInv(p)
  BY DEF IInv, StateInv
<1>2. CASE p \in Workers /\ Finish(p)
  BY <1>1, <1>2, FinishKept
<1>3. CASE /\ p \in Requests
           /\ Goto(p, "read")
           /\ Unlock(p)
           /\ seen' = [seen EXCEPT ![p] = None]
           /\ onFile' = [onFile EXCEPT ![p] = None]
           /\ UNCHANGED <<onKey, draft, todo, due>>
  <2>1. /\ jobLock' \in [Keys -> Handlers \cup {None}]
        /\ \A k \in Keys, q \in Handlers : q # p /\ jobLock[k] = q => jobLock'[k] = q
    BY <1>1, <1>3 DEF Unlock, TypeOK
  <2>2. HandlerTypes'
    BY <1>1, <1>3, <2>1 DEF Goto, TypeOK, HandlerTypes
  <2>3. OthersKept(p)
    BY <1>1, <1>3, <2>1 DEF Goto, TypeOK, OthersKept
  <2>4. pc'[p] = "read" /\ onKey'[p] = onKey[p]
    BY <1>1, <1>3 DEF Goto, TypeOK
  <2>5. onFile[p] \in Files /\ onKey[p] = onFile[p][1] /\ Exists(onKey[p])
    BY <1>1, <1>3 DEF HandlerInv, WorksOn
  <2>6. onKey[p] \in Keys
    BY <2>5 DEF Files
  <2>7. PICK k \in Keys : k = onKey[p] /\ Exists(k)
    BY <2>5, <2>6
  <2>8. Exists(k)'
    BY <2>7 DEF JobsForward, Exists
  <2>9. p \in due => Due(k)'
    BY <1>1, <2>7, DueKept DEF HandlerInv, DueInv
  <2>10. todo'[p] \subseteq KindsOf(manifest'[k])
    BY <1>1, <1>3, <2>7 DEF HandlerInv, WorksOn, JobsForward
  <2>11. WorksOn(p)' /\ CreateInv(p)' /\ WriteInv(p)'
    BY <1>3, <2>4, <2>7, <2>8, <2>10 DEF WorksOn, CreateInv, WriteInv, Reconciling, Holding
  <2>12. DueInv(p)'
    BY <1>3, <2>4, <2>7, <2>9 DEF DueInv
  <2> QED BY <2>2, <2>3, <2>11, <2>12 DEF HandlerInv
<1> QED BY <1>2, <1>3 DEF EndReconcile
-----------------------------------------------------------------------------

\* Whatever the handlers do, the files see a step of FileContract or none.
LEMMA FilesStep ==
    ASSUME IInv, [Next]_vars
    PROVE  [files!Next]_(files!fileVars)
<1> USE DEF fileVars, files!fileVars
<1>1. CASE UNCHANGED vars
  BY <1>1 DEF vars
<1>2. ASSUME NEW r \in Requests, NEW kind \in Kinds, CreateUpload(r, kind)
      PROVE  [files!Next]_(files!fileVars)
  <2>1. r \in Handlers /\ pc[r] = "create"
    BY <1>2 DEF Handlers, CreateUpload
  <2>2. onKey[r] \in Keys /\ draft[r] \in Manifests /\ kind \in KindsOf(draft[r])
    BY <1>2, <2>1 DEF CreateUpload, IInv, StateInv, HandlerInv, WorksOn, CreateInv
  <2>3. <<onKey[r], kind>> \in Files /\ Declared[draft[r]][kind] \in Contents
    BY <2>2, ImportAssumptions DEF Files, KindsOf
  <2> QED BY <1>2, <2>3 DEF CreateUpload, files!Next
<1>3. ASSUME NEW w \in Workers, ScanClaim(w) \/ ScanRecord(w)
      PROVE  [files!Next]_(files!fileVars)
  <2>1. w \in Handlers /\ pc[w] \in {"claim", "scan"}
    BY <1>3 DEF Handlers, ScanClaim, ScanRecord
  <2>2. onFile[w] \in Files
    BY <2>1 DEF IInv, StateInv, HandlerInv, WorksOn
  <2> QED BY <1>3, <2>2 DEF ScanClaim, ScanRecord, files!Next
<1>4. ASSUME NEW f \in Files, NEW k \in Keys, CompleteAttachment(k, f)
      PROVE  [files!Next]_(files!fileVars)
  BY <1>4 DEF CompleteAttachment, files!Next
<1>5. ASSUME NEW f \in Files, RefuseFile(f) \/ Redispatch(f)
      PROVE  [files!Next]_(files!fileVars)
  BY <1>5 DEF RefuseFile, Redispatch, files!Next
<1>6. ASSUME NEW r \in Requests,
             \/ \E k \in Keys, m \in Manifests : CreateBegin(r, k, m)
             \/ \E kind \in Kinds : ReadFile(r, kind)
             \/ \E k \in Keys : SubmitLock(r, k) \/ ReadBegin(r, k)
             \/ CreatePersist(r) \/ SubmitCommit(r) \/ ReadAnswer(r) \/ RequestFail(r)
      PROVE  [files!Next]_(files!fileVars)
  BY <1>6 DEF CreateBegin, ReadFile, SubmitLock, ReadBegin, CreatePersist, SubmitCommit,
        ReadAnswer, RequestFail
<1>7. ASSUME NEW p \in Handlers, ReconcileLookup(p) \/ ReconcileLock(p) \/ ReconcileCommit(p)
      PROVE  [files!Next]_(files!fileVars)
  BY <1>7 DEF ReconcileLookup, ReconcileLock, ReconcileCommit
<1>8. ASSUME NEW w \in Workers, WorkerLost(w) \/ \E f \in Files : Deliver(w, f)
      PROVE  [files!Next]_(files!fileVars)
  BY <1>8 DEF WorkerLost, Deliver
<1> HIDE DEF fileVars, files!fileVars
<1>9. CASE RequestNext
  BY <1>9, <1>2, <1>6, Zenon DEF RequestNext
<1>10. CASE ReconcileNext
  BY <1>10, <1>7, Zenon DEF ReconcileNext
<1>11. CASE WorkerNext
  BY <1>11, <1>3, <1>8, Zenon DEF WorkerNext
<1>12. CASE FileNext
  BY <1>12, <1>4, <1>5, Zenon DEF FileNext
<1> QED BY <1>1, <1>9, <1>10, <1>11, <1>12 DEF Next

\* The invariant after a step of p, from its parts.
LEMMA Assembled ==
    ASSUME IInv, NEW p, [files!Next]_(files!fileVars),
           QueueTypes', JobTypes', HandlerTypes', AuditTellsTheEnd',
           \A k \in Keys : JobInv(k)',
           OthersKept(p), JobsForward(p), p \in Handlers => HandlerInv(p)'
    PROVE  IInv'
<1>1. FileTypes' /\ FileInv' /\ FilesForward
  BY FilesMove, TypeParts DEF IInv, StateInv
<1>2. TypeOK'
  BY <1>1 DEF TypeOK, FileTypes, QueueTypes, JobTypes, HandlerTypes
<1>3. \A q \in Handlers : HandlerInv(q)'
  BY <1>1, HandlerKept
<1> QED BY <1>1, <1>2, <1>3 DEF IInv, StateInv

\* A step that writes no job.
LEMMA Quiet ==
    ASSUME IInv, [files!Next]_(files!fileVars), UNCHANGED <<jobVars, audit>>
    PROVE  /\ FilesForward /\ JobTypes' /\ AuditTellsTheEnd' /\ \A k \in Keys : JobInv(k)'
           /\ \A p : JobsForward(p)
  BY FilesMove, TypeParts, JobsKept DEF IInv, StateInv

\* Steps between the system and its files: no handler moves.
LEMMA FileSteps ==
    ASSUME IInv, NEW f \in Files, [files!Next]_(files!fileVars),
           \/ \E k \in Keys : CompleteAttachment(k, f)
           \/ RefuseFile(f) \/ Redispatch(f)
    PROVE  IInv' /\ \E p : JobsForward(p)
<1>1. /\ UNCHANGED <<jobVars, audit>> /\ UNCHANGED <<jobLock, handlerVars>>
      /\ QueueTypes'
  BY DEF IInv, TypeOK, QueueTypes, CompleteAttachment, RefuseFile, Redispatch, queueVars
<1>2. HandlerTypes' /\ OthersKept(None)
  BY <1>1 DEF IInv, TypeOK, HandlerTypes, OthersKept, handlerVars
<1>3. None \notin Handlers
  BY ImportAssumptions
<1> QED BY <1>1, <1>2, <1>3, Quiet, Assembled

\* create: the look-up, the upload of each attachment and the insert.
LEMMA CreateSteps ==
    ASSUME IInv, NEW r \in Requests, [files!Next]_(files!fileVars),
           \/ \E k \in Keys, m \in Manifests : CreateBegin(r, k, m)
           \/ \E kind \in Kinds : CreateUpload(r, kind)
           \/ CreatePersist(r)
    PROVE  IInv' /\ \E p : JobsForward(p)
<1>1. r \in Handlers /\ TypeOK /\ HandlerInv(r)
  BY DEF Handlers, IInv, StateInv
<1>2. ASSUME NEW k \in Keys, NEW m \in Manifests, CreateBegin(r, k, m)
      PROVE  IInv' /\ \E p : JobsForward(p)
  <2>1. UNCHANGED <<jobVars, audit>> /\ QueueTypes'
    BY <1>1, <1>2 DEF CreateBegin, TypeOK, QueueTypes, queueVars
  <2>2. KindsOf(m) \subseteq Kinds
    BY DEF KindsOf
  <2>3. HandlerTypes'
    BY <1>1, <1>2, <2>2 DEF CreateBegin, TypeOK, HandlerTypes
  <2>4. OthersKept(r)
    BY <1>1, <1>2 DEF CreateBegin, TypeOK, OthersKept
  <2>5. pc'[r] = "create" /\ onKey'[r] = k /\ todo'[r] = KindsOf(m) /\ draft'[r] = m
    BY <1>1, <1>2 DEF CreateBegin, TypeOK
  <2>6. r \notin due'
    BY <1>1, <1>2 DEF CreateBegin, HandlerInv, DueInv, Reconciling
  <2>7. HandlerInv(r)'
    BY <2>5, <2>6 DEF HandlerInv, WorksOn, CreateInv, WriteInv, DueInv, Reconciling, Holding,
          KindsOf
  <2> QED BY <1>1, <2>1, <2>3, <2>4, <2>7, Quiet, Assembled
<1>3. ASSUME NEW kind \in Kinds, CreateUpload(r, kind)
      PROVE  IInv' /\ \E p : JobsForward(p)
  <2>1. UNCHANGED <<jobVars, audit>> /\ QueueTypes'
    BY <1>1, <1>3 DEF CreateUpload, TypeOK, QueueTypes, queueVars
  <2>2. HandlerTypes'
    BY <1>1, <1>3 DEF CreateUpload, TypeOK, HandlerTypes
  <2>3. OthersKept(r)
    BY <1>1, <1>3 DEF CreateUpload, TypeOK, OthersKept
  <2>4. /\ pc[r] = "create" /\ pc'[r] = pc[r] /\ onKey'[r] = onKey[r] /\ draft'[r] = draft[r]
        /\ todo'[r] = todo[r] \ {kind}
    BY <1>1, <1>3 DEF CreateUpload, TypeOK
  <2>5. r \notin due'
    BY <1>1, <1>3 DEF CreateUpload, HandlerInv, DueInv, Reconciling
  <2>6. /\ onKey[r] \in Keys /\ draft[r] \in Manifests /\ todo[r] \subseteq KindsOf(draft[r])
        /\ \A other \in KindsOf(draft[r]) \ todo[r] : Started(onKey[r], draft[r], other)
    BY <1>1, <2>4 DEF HandlerInv, WorksOn, CreateInv
  <2>7. PICK k \in Keys, m \in Manifests : k = onKey[r] /\ m = draft[r]
    BY <2>6
  <2> DEFINE f == <<k, kind>>
             c == Declared[m][kind]
  <2>8. state'[f] # "ABSENT" /\ sha256'[f] = c
    <3>1. files!Start(f, c) \/ (state[f] = "UPLOADING" /\ SameUpload(f, c) /\ UNCHANGED fileVars)
      BY <1>3, <2>7 DEF CreateUpload
    <3>2. f \in Files
      BY DEF Files
    <3> HIDE DEF f, c
    <3> QED BY <1>1, <3>1, <3>2 DEF files!Start, files!Move, SameUpload, fileVars, TypeOK
  <2>9. FilesForward
    BY <2>1, Quiet
  <2>10. ASSUME NEW other \in KindsOf(m), other \notin todo'[r]
         PROVE  state'[<<k, other>>] # "ABSENT" /\ sha256'[<<k, other>>] = Declared[m][other]
    <3>1. CASE other = kind
      BY <2>7, <2>8, <3>1
    <3>2. CASE other # kind
      <4>1. Started(k, m, other) /\ <<k, other>> \in Files
        BY <2>4, <2>6, <2>7, <2>10, <3>2 DEF KindsOf, Files
      <4> QED BY <2>9, <4>1 DEF Started, FilesForward
    <3> QED BY <3>1, <3>2
  <2>11. CreateInv(r)'
    BY <2>4, <2>6, <2>7, <2>10 DEF CreateInv, Started, KindsOf
  <2>12. HandlerInv(r)'
    BY <2>4, <2>5, <2>6, <2>11 DEF HandlerInv, WorksOn, WriteInv, DueInv, Reconciling, Holding
  <2> QED BY <1>1, <2>1, <2>2, <2>3, <2>12, Quiet, Assembled
<1>4. CASE CreatePersist(r)
  <2>1. HandlerTypes' /\ OthersKept(r) /\ HandlerInv(r)'
    BY <1>1, <1>4, FinishKept DEF CreatePersist
  <2>2. QueueTypes'
    BY <1>1, <1>4 DEF CreatePersist, TypeOK, QueueTypes, queueVars
  <2>3. CASE Exists(onKey[r])
    <3>1. UNCHANGED <<jobVars, audit>>
      BY <1>4, <2>3 DEF CreatePersist, jobVars
    <3> QED BY <1>1, <2>1, <2>2, <3>1, Quiet, Assembled
  <2>4. CASE ~Exists(onKey[r])
    <3>1. /\ onKey[r] \in Keys /\ draft[r] \in Manifests
          /\ \A kind \in KindsOf(draft[r]) : Started(onKey[r], draft[r], kind)
      BY <1>1, <1>4 DEF CreatePersist, HandlerInv, WorksOn, CreateInv
    <3>2. PICK row : row = Event("create", onKey[r], Evaluation("UPLOADING", None))
      OBVIOUS
    <3>3. PICK k \in Keys, m \in Manifests :
             /\ k = onKey[r] /\ m = draft[r]
             /\ row = Event("create", k, Evaluation("UPLOADING", None))
      BY <3>1, <3>2
    <3>4. /\ manifest' = [manifest EXCEPT ![k] = m] /\ audit' = audit \cup {row}
          /\ UNCHANGED <<status, resultCode, submitted, fileVars>>
      BY <1>4, <2>4, <3>3 DEF CreatePersist
    <3>5. ~Exists(k) /\ status[k] = "UPLOADING" /\ Justified(k, status[k], resultCode[k])
      BY <2>4, <3>3 DEF IInv, StateInv, JobInv
    <3>6. /\ row.status = "UPLOADING"
          /\ row \in {Event(a, j, v) : a \in Action, j \in Keys, v \in Evaluations}
      <4>1. Evaluation("UPLOADING", None) \in Evaluations
        BY DEF Evaluation, Evaluations, ImportStatus
      <4> QED BY <3>3, <4>1 DEF Event, Evaluation, Action
    <3>7. JobTypes'
      BY <1>1, <3>4, <3>6 DEF TypeOK, JobTypes
    <3>8. AuditTellsTheEnd'
      <4>1. \A j \in Keys : {v \in audit' : v.key = j /\ v.status \in TerminalStatus}
                           = {v \in audit : v.key = j /\ v.status \in TerminalStatus}
        BY <3>4, <3>6 DEF TerminalStatus
      <4>2. AuditTellsTheEnd
        BY DEF IInv, StateInv
      <4> QED BY <3>4, <4>1, <4>2 DEF AuditTellsTheEnd
    <3>9. FilesForward
      BY FilesMove, TypeParts DEF IInv, StateInv
    <3>10. \A j \in Keys : j # k => manifest'[j] = manifest[j]
      BY <1>1, <3>4 DEF TypeOK
    <3>11. manifest'[k] = m
      BY <1>1, <3>4 DEF TypeOK
    <3>12. ASSUME NEW j \in Keys PROVE JobInv(j)'
      <4>1. CASE j # k
        BY <1>1, <3>4, <3>9, <3>10, <4>1, JobKept DEF IInv, StateInv
      <4>2. CASE j = k
        <5>1. (\A kind \in KindsOf(manifest[k]) : Started(k, manifest[k], kind))'
          BY <3>1, <3>3, <3>4, <3>11 DEF Started, KindsOf, fileVars
        <5>2. Exists(k)'
          BY <3>11, ImportAssumptions DEF Exists
        <5>3. Justified(k, status[k], resultCode[k])'
          BY <3>4, <3>5 DEF Justified
        <5> QED BY <3>4, <3>5, <4>2, <5>1, <5>2, <5>3 DEF JobInv
      <4> QED BY <4>1, <4>2
    <3>13. JobsForward(r)
      BY <3>4, <3>5, <3>10 DEF JobsForward
    <3> QED BY <1>1, <2>1, <2>2, <3>7, <3>8, <3>12, <3>13, Assembled
  <2> QED BY <2>3, <2>4
<1> QED BY <1>2, <1>3, <1>4
\* submit: the look at the job and its files, and the write.
LEMMA SubmitSteps ==
    ASSUME IInv, NEW r \in Requests, [files!Next]_(files!fileVars),
           (\E k \in Keys : SubmitLock(r, k)) \/ SubmitCommit(r)
    PROVE  IInv' /\ \E p : JobsForward(p)
<1>1. r \in Handlers /\ TypeOK /\ HandlerInv(r)
  BY DEF Handlers, IInv, StateInv
<1>2. ASSUME NEW k \in Keys, SubmitLock(r, k)
      PROVE  IInv' /\ \E p : JobsForward(p)
  <2>1. UNCHANGED <<jobVars, audit>> /\ QueueTypes'
    BY <1>1, <1>2 DEF SubmitLock, TypeOK, QueueTypes, queueVars
  <2>2. PICK e : e = EvaluateFiles(k)
    OBVIOUS
  <2>3. Exists(k) /\ JobInv(k)
    BY <1>2 DEF SubmitLock, IInv, StateInv
  <2>4. e \in Evaluations /\ e.status # "UPLOADING" /\ Justified(k, e.status, e.code)
    BY <1>1, <2>2, <2>3, EvaluateJustified
  <2>5. /\ jobLock[k] = None /\ jobLock' = [jobLock EXCEPT ![k] = r]
        /\ seen' = [seen EXCEPT ![r] = e] /\ onKey' = [onKey EXCEPT ![r] = k]
        /\ pc' = [pc EXCEPT ![r] = "submit"] /\ UNCHANGED <<onFile, draft, todo, due>>
        /\ pc[r] = "idle" /\ status[k] \notin TerminalStatus
        /\ ~(status[k] = "UPLOADING" /\ Incomplete(k))
    BY <1>2, <2>2 DEF SubmitLock, Goto, Unlocked
  <2>6. HandlerTypes'
    BY <1>1, <2>4, <2>5 DEF TypeOK, HandlerTypes
  <2>7. OthersKept(r)
    BY <1>1, <2>5, ImportAssumptions DEF TypeOK, OthersKept
  <2>8. pc'[r] = "submit" /\ onKey'[r] = k /\ seen'[r] = e /\ jobLock'[k] = r
    BY <1>1, <2>5 DEF TypeOK
  <2>9. r \notin due'
    BY <1>1, <2>5 DEF HandlerInv, DueInv, Reconciling
  <2>10. status[k] \in {"UPLOADING", "SCANNING"} /\ "UPLOADING" \notin FileStates(k)
    BY <1>1, <2>3, <2>5 DEF TypeOK, ImportStatus, TerminalStatus, JobInv, Incomplete, FileStates
  <2>11. FilesForward /\ JobsForward(r)
    BY <2>1, Quiet
  <2>12. Exists(k)' /\ manifest'[k] = manifest[k] /\ status'[k] = status[k]
    BY <2>1, <2>3 DEF jobVars, Exists
  <2>13. "UPLOADING" \notin FileStates(k)' /\ Justified(k, e.status, e.code)'
    <3>1. PICK st, resCode : st = e.status /\ resCode = e.code
      OBVIOUS
    <3>2. Justified(k, st, resCode)'
      BY <1>1, <2>3, <2>4, <2>11, <2>12, <3>1, JustifiedKept
    <3>3. "UPLOADING" \notin FileStates(k)'
      BY <1>1, <2>3, <2>10, <2>11, <2>12, StatesKept
    <3> QED BY <3>1, <3>2, <3>3
  <2>14. WriteInv(r)'
    BY <2>4, <2>8, <2>10, <2>12, <2>13 DEF WriteInv
  <2>15. WorksOn(r)' /\ CreateInv(r)' /\ DueInv(r)'
    BY <2>8, <2>9, <2>12 DEF WorksOn, CreateInv, DueInv, Reconciling
  <2>16. HandlerInv(r)'
    BY <2>14, <2>15 DEF HandlerInv
  <2> QED BY <1>1, <2>1, <2>6, <2>7, <2>16, Quiet, Assembled
<1>3. CASE SubmitCommit(r)
  <2>1. HandlerTypes' /\ OthersKept(r) /\ HandlerInv(r)'
    BY <1>1, <1>3, FinishKept DEF SubmitCommit
  <2>2. QueueTypes' /\ UNCHANGED fileVars
    BY <1>1, <1>3 DEF SubmitCommit, TypeOK, QueueTypes, queueVars
  <2>3. CASE UNCHANGED <<jobVars, audit>>
    BY <1>1, <2>1, <2>2, <2>3, Quiet, Assembled
  <2>4. CASE ApplyTransition("submit", onKey[r], seen[r])
    <3>1. FilesForward
      BY FilesMove, TypeParts DEF IInv, StateInv
    <3>2. pc[r] \in Holding /\ "submit" \in Action
      BY <1>3 DEF SubmitCommit, Holding, Action
    <3>3. JobTypes' /\ AuditTellsTheEnd' /\ (\A k \in Keys : JobInv(k)') /\ JobsForward(r)
      BY <1>1, <2>2, <2>4, <3>1, <3>2, JobWritten
    <3> QED BY <1>1, <2>1, <2>2, <3>3, Assembled
  <2> QED BY <1>3, <2>3, <2>4 DEF SubmitCommit
<1> QED BY <1>2, <1>3

\* read: its beginning, one file after the other, and its answer; and the failure
\* of any request.
LEMMA ReadSteps ==
    ASSUME IInv, NEW r \in Requests, [files!Next]_(files!fileVars),
           \/ \E k \in Keys : ReadBegin(r, k)
           \/ \E kind \in Kinds : ReadFile(r, kind)
           \/ ReadAnswer(r) \/ RequestFail(r)
    PROVE  IInv' /\ \E p : JobsForward(p)
<1>1. r \in Handlers /\ TypeOK /\ HandlerInv(r)
  BY DEF Handlers, IInv, StateInv
<1>2. ASSUME NEW k \in Keys, ReadBegin(r, k)
      PROVE  IInv' /\ \E p : JobsForward(p)
  <2>1. UNCHANGED <<jobVars, audit>> /\ QueueTypes'
    BY <1>1, <1>2 DEF ReadBegin, TypeOK, QueueTypes, queueVars
  <2>2. PICK kinds : kinds = KindsOf(manifest[k]) /\ kinds \subseteq Kinds
    BY DEF KindsOf
  <2>3. /\ pc[r] = "idle" /\ Exists(k) /\ pc' = [pc EXCEPT ![r] = "read"]
        /\ onKey' = [onKey EXCEPT ![r] = k] /\ todo' = [todo EXCEPT ![r] = kinds]
        /\ UNCHANGED <<jobLock, onFile, draft, seen>>
        /\ due' \subseteq due \cup {r} /\ (r \in due' => r \in due \/ Due(k))
    BY <1>2, <2>2 DEF ReadBegin, Goto
  <2>4. HandlerTypes'
    BY <1>1, <2>2, <2>3 DEF TypeOK, HandlerTypes
  <2>5. OthersKept(r)
    BY <1>1, <2>3 DEF TypeOK, OthersKept
  <2>6. pc'[r] = "read" /\ onKey'[r] = k /\ todo'[r] = kinds
    BY <1>1, <2>3 DEF TypeOK
  <2>7. r \in due' => Due(k)
    BY <1>1, <2>3 DEF HandlerInv, DueInv, Reconciling
  <2>8. FilesForward /\ JobsForward(r)
    BY <2>1, Quiet
  <2>9. Exists(k)' /\ KindsOf(manifest'[k]) = kinds
    BY <2>1, <2>2, <2>3 DEF jobVars, Exists
  <2>10. r \in due' => Due(k)'
    BY <2>3, <2>7, <2>8, DueKept
  <2>11. WorksOn(r)' /\ CreateInv(r)' /\ WriteInv(r)'
    BY <2>6, <2>9 DEF WorksOn, CreateInv, WriteInv, Reconciling, Holding
  <2>12. DueInv(r)'
    BY <2>6, <2>9, <2>10 DEF DueInv, KindsOf
  <2>13. HandlerInv(r)'
    BY <2>11, <2>12 DEF HandlerInv
  <2> QED BY <1>1, <2>1, <2>4, <2>5, <2>13, Quiet, Assembled
<1>3. ASSUME NEW kind \in Kinds, ReadFile(r, kind)
      PROVE  IInv' /\ \E p : JobsForward(p)
  <2>1. UNCHANGED <<jobVars, audit>> /\ QueueTypes'
    BY <1>1, <1>3 DEF ReadFile, TypeOK, QueueTypes, queueVars
  <2>2. pc[r] = "read" /\ kind \in todo[r]
    BY <1>3 DEF ReadFile
  <2>3. onKey[r] \in Keys /\ Exists(onKey[r])
    BY <1>1, <2>2 DEF HandlerInv, WorksOn
  <2>4. PICK k \in Keys : k = onKey[r] /\ Exists(k)
    BY <2>3
  <2>5. <<k, kind>>[1] = k /\ <<k, kind>> \in Files
    BY DEF Files
  <2>6. PICK f \in Files : f = <<k, kind>> /\ f[1] = k
    BY <2>5
  <2>7. /\ todo' = [todo EXCEPT ![r] = todo[r] \ {kind}] /\ pc' = [pc EXCEPT ![r] = "lookup"]
        /\ onFile' = [onFile EXCEPT ![r] = f]
        /\ UNCHANGED <<jobLock, onKey, draft, seen, due>>
    BY <1>3, <2>4, <2>6 DEF ReadFile, Goto
  <2>8. HandlerTypes'
    BY <1>1, <2>7 DEF TypeOK, HandlerTypes
  <2>9. OthersKept(r)
    BY <1>1, <2>7 DEF TypeOK, OthersKept
  <2>10. pc'[r] = "lookup" /\ onFile'[r] = f /\ onKey'[r] = k
    BY <1>1, <2>4, <2>7 DEF TypeOK
  <2>11. /\ kind \in KindsOf(manifest[k]) /\ todo'[r] \subseteq KindsOf(manifest[k])
    BY <1>1, <2>2, <2>4, <2>7 DEF HandlerInv, WorksOn, TypeOK
  <2>12. FilesForward /\ JobsForward(r)
    BY <2>1, Quiet
  <2>13. Exists(k)' /\ manifest'[k] = manifest[k] /\ f \in Attachments(k)'
    BY <2>1, <2>4, <2>6, <2>11 DEF jobVars, Exists, Attachments
  <2>14. r \in due' => Due(k)'
    BY <1>1, <2>2, <2>4, <2>7, <2>12, DueKept DEF HandlerInv, DueInv
  <2>15. WorksOn(r)'
    BY <2>6, <2>10, <2>11, <2>13 DEF WorksOn, Reconciling
  <2>16. CreateInv(r)' /\ WriteInv(r)'
    BY <2>10 DEF CreateInv, WriteInv, Holding
  <2>17. DueInv(r)'
    BY <2>10, <2>14 DEF DueInv, Reconciling
  <2>18. HandlerInv(r)'
    BY <2>15, <2>16, <2>17 DEF HandlerInv
  <2> QED BY <1>1, <2>1, <2>8, <2>9, <2>18, Quiet, Assembled
<1>4. CASE ReadAnswer(r) \/ RequestFail(r)
  <2>1. HandlerTypes' /\ OthersKept(r) /\ HandlerInv(r)'
    BY <1>1, <1>4, FinishKept DEF ReadAnswer, RequestFail
  <2>2. QueueTypes' /\ UNCHANGED <<jobVars, audit>>
    BY <1>1, <1>4 DEF ReadAnswer, RequestFail, TypeOK, QueueTypes, queueVars
  <2> QED BY <1>1, <2>1, <2>2, Quiet, Assembled
<1> QED BY <1>2, <1>3, <1>4
\* The worker: the delivery, the scan and its end by a crash.
LEMMA WorkerSteps ==
    ASSUME IInv, NEW w \in Workers, [files!Next]_(files!fileVars),
           \/ \E f \in Files : Deliver(w, f)
           \/ ScanClaim(w) \/ ScanRecord(w) \/ WorkerLost(w)
    PROVE  IInv' /\ \E p : JobsForward(p)
<1>1. w \in Handlers /\ w \notin Requests /\ TypeOK /\ HandlerInv(w)
  BY ImportAssumptions DEF Handlers, IInv, StateInv
<1>2. w \notin due
  BY <1>1 DEF TypeOK
<1>3. ASSUME NEW f \in Files, Deliver(w, f)
      PROVE  IInv' /\ \E p : JobsForward(p)
  <2>1. UNCHANGED <<jobVars, audit>> /\ QueueTypes'
    BY <1>1, <1>3 DEF Deliver, TypeOK, QueueTypes
  <2>2. HandlerTypes'
    BY <1>1, <1>3 DEF Deliver, Goto, TypeOK, HandlerTypes
  <2>3. OthersKept(w)
    BY <1>1, <1>3 DEF Deliver, Goto, TypeOK, OthersKept
  <2>4. pc'[w] = "claim" /\ onFile'[w] = f /\ w \notin due'
    BY <1>1, <1>2, <1>3 DEF Deliver, Goto, TypeOK
  <2>5. HandlerInv(w)'
    BY <1>1, <2>4 DEF HandlerInv, WorksOn, CreateInv, WriteInv, DueInv, Reconciling, Holding
  <2> QED BY <1>1, <2>1, <2>2, <2>3, <2>5, Quiet, Assembled
<1>4. CASE ScanClaim(w) \/ ScanRecord(w)
  <2>1. UNCHANGED <<jobVars, audit>> /\ QueueTypes'
    BY <1>1, <1>4 DEF ScanClaim, ScanRecord, TypeOK, QueueTypes, queueVars
  <2>2. PICK label \in {"scan", "lookup"} : pc' = [pc EXCEPT ![w] = label]
    BY <1>4 DEF ScanClaim, ScanRecord, Goto
  <2>3. UNCHANGED <<jobLock, onKey, onFile, draft, todo, seen, due>>
    BY <1>4 DEF ScanClaim, ScanRecord
  <2>4. HandlerTypes' /\ OthersKept(w)
    BY <1>1, <2>2, <2>3 DEF TypeOK, HandlerTypes, OthersKept
  <2>5. pc[w] \in {"claim", "scan"}
    BY <1>4 DEF ScanClaim, ScanRecord
  <2>6. pc'[w] \in {"scan", "lookup"} /\ onFile'[w] \in Files /\ w \notin due'
    BY <1>1, <1>2, <2>2, <2>3, <2>5 DEF TypeOK, HandlerInv, WorksOn
  <2>7. HandlerInv(w)'
    BY <1>1, <2>6 DEF HandlerInv, WorksOn, CreateInv, WriteInv, DueInv, Reconciling, Holding
  <2> QED BY <1>1, <2>1, <2>4, <2>7, Quiet, Assembled
<1>5. CASE WorkerLost(w)
  <2>1. HandlerTypes' /\ OthersKept(w) /\ HandlerInv(w)'
    BY <1>1, <1>5, FinishKept DEF WorkerLost
  <2>2. onFile[w] \in Files
    BY <1>1, <1>5 DEF WorkerLost, TypeOK, HandlerInv, WorksOn, Reconciling
  <2>3. QueueTypes' /\ UNCHANGED <<jobVars, audit>>
    BY <1>1, <1>5, <2>2 DEF WorkerLost, TypeOK, QueueTypes
  <2> QED BY <1>1, <2>1, <2>3, Quiet, Assembled
<1> QED BY <1>3, <1>4, <1>5

\* reconcile_file, by a worker or by a read.
LEMMA ReconcileSteps ==
    ASSUME IInv, NEW p \in Handlers, [files!Next]_(files!fileVars),
           ReconcileLookup(p) \/ ReconcileLock(p) \/ ReconcileCommit(p)
    PROVE  IInv' /\ \E q : JobsForward(q)
<1>1. TypeOK /\ HandlerInv(p)
  BY DEF IInv, StateInv
<1>2. QueueTypes' /\ UNCHANGED fileVars /\ FilesForward
  <2>1. UNCHANGED <<fileVars, queueVars>>
    BY DEF ReconcileLookup, ReconcileLock, ReconcileCommit
  <2> QED BY <1>1, <2>1, FilesMove, TypeParts DEF IInv, StateInv, TypeOK, QueueTypes, queueVars
<1>3. pc[p] \in Reconciling /\ onFile[p] \in Files
  BY <1>1 DEF ReconcileLookup, ReconcileLock, ReconcileCommit, Reconciling, HandlerInv, WorksOn
<1>4. onFile[p][1] \in Keys
  BY <1>3 DEF Files
<1>5. p \in due => p \in Requests /\ Due(onKey[p])
  BY <1>1 DEF TypeOK, HandlerInv, DueInv
<1>6. ASSUME UNCHANGED <<jobVars, audit>>, EndReconcile(p),
             p \in due => status[onKey[p]] \in TerminalStatus
      PROVE  IInv' /\ \E q : JobsForward(q)
  <2>1. JobsForward(p)
    BY <1>6, Quiet
  <2>2. status' = status
    BY <1>6 DEF jobVars
  <2>3. HandlerTypes' /\ OthersKept(p) /\ HandlerInv(p)'
    BY <1>2, <1>3, <1>6, <2>1, <2>2, ReconcileEnds
  <2> QED BY <1>2, <1>6, <2>3, Quiet, Assembled
<1>7. CASE ReconcileLookup(p)
  <2>1. UNCHANGED <<jobVars, audit>> /\ pc[p] = "lookup"
    BY <1>7 DEF ReconcileLookup
  <2>2. PICK k \in Keys : k = onFile[p][1]
    BY <1>4
  <2>3. CASE ~(Exists(k) /\ onFile[p] \in Attachments(k))
    <3>1. EndReconcile(p)
      BY <1>7, <2>2, <2>3 DEF ReconcileLookup
    <3>2. p \notin Requests
      BY <1>1, <2>1, <2>2, <2>3 DEF HandlerInv, WorksOn, Reconciling
    <3> QED BY <1>5, <1>6, <2>1, <3>1, <3>2
  <2>4. CASE Exists(k) /\ onFile[p] \in Attachments(k)
    <3>1. /\ pc' = [pc EXCEPT ![p] = "reconcile"] /\ onKey' = [onKey EXCEPT ![p] = k]
          /\ UNCHANGED <<onFile, draft, todo, seen, due, jobLock>>
      BY <1>7, <2>2, <2>4 DEF ReconcileLookup, Goto
    <3>2. HandlerTypes' /\ OthersKept(p)
      BY <1>1, <3>1 DEF TypeOK, HandlerTypes, OthersKept
    <3>3. /\ pc'[p] = "reconcile" /\ onKey'[p] = k /\ onFile'[p] = onFile[p]
          /\ todo'[p] = todo[p]
      BY <1>1, <3>1 DEF TypeOK
    <3>4. JobsForward(p)
      BY <2>1, Quiet
    <3>5. Exists(k)' /\ onFile[p] \in Attachments(k)' /\ manifest' = manifest
      BY <2>1, <2>4 DEF jobVars, Exists, Attachments
    <3>6. p \in Requests => onKey[p] = k /\ todo[p] \subseteq KindsOf(manifest[k])
      BY <1>1, <2>1, <2>2 DEF HandlerInv, WorksOn, Reconciling
    <3>7. p \in due' => Due(k)'
      BY <1>2, <1>5, <2>4, <3>1, <3>4, <3>6, DueKept
    <3>8. WorksOn(p)'
      BY <1>3, <2>2, <3>3, <3>5, <3>6 DEF WorksOn, Reconciling
    <3>9. CreateInv(p)' /\ WriteInv(p)' /\ DueInv(p)'
      BY <3>3, <3>7 DEF CreateInv, WriteInv, DueInv, Reconciling, Holding
    <3>10. HandlerInv(p)'
      BY <3>8, <3>9 DEF HandlerInv
    <3> QED BY <1>2, <2>1, <3>2, <3>10, Quiet, Assembled
  <2> QED BY <2>3, <2>4
<1>8. CASE ReconcileLock(p)
  <2>1. UNCHANGED <<jobVars, audit>> /\ pc[p] = "reconcile"
    BY <1>8 DEF ReconcileLock
  <2>2. /\ onKey[p] = onFile[p][1] /\ Exists(onKey[p])
        /\ onFile[p] \in Attachments(onKey[p])
    BY <1>1, <2>1 DEF HandlerInv, WorksOn
  <2>3. PICK k \in Keys : k = onKey[p] /\ Exists(k)
    BY <1>4, <2>2
  <2>4. JobInv(k)
    BY DEF IInv, StateInv
  <2>5. CASE ~Reconcilable(k)
    <3>1. EndReconcile(p)
      BY <1>8, <2>3, <2>5 DEF ReconcileLock
    <3>2. p \in due => status[k] \in TerminalStatus
      BY <1>1, <1>5, <2>3, <2>5 DEF Reconcilable, Due, TypeOK, ImportStatus
    <3> QED BY <1>6, <2>1, <2>3, <3>1, <3>2
  <2>6. CASE Reconcilable(k)
    <3>1. PICK e : e = EvaluateFiles(k)
      OBVIOUS
    <3>2. /\ e \in Evaluations /\ e.status # "UPLOADING" /\ Justified(k, e.status, e.code)
          /\ FileStates(k) \subseteq Ended => e.status # "SCANNING"
      BY <1>1, <2>3, <2>4, <3>1, EvaluateJustified
    <3>3. /\ jobLock[k] = None /\ jobLock' = [jobLock EXCEPT ![k] = p]
          /\ seen' = [seen EXCEPT ![p] = e] /\ pc' = [pc EXCEPT ![p] = "transition"]
          /\ UNCHANGED <<onKey, onFile, draft, todo, due>>
      BY <1>8, <2>3, <2>6, <3>1 DEF ReconcileLock, Goto, EndReconcile
    <3>4. HandlerTypes'
      BY <1>1, <3>2, <3>3 DEF TypeOK, HandlerTypes
    <3>5. OthersKept(p)
      BY <1>1, <3>3, ImportAssumptions DEF TypeOK, OthersKept
    <3>6. /\ pc'[p] = "transition" /\ onKey'[p] = k /\ onFile'[p] = onFile[p]
          /\ todo'[p] = todo[p] /\ seen'[p] = e /\ jobLock'[k] = p
      BY <1>1, <2>3, <3>3 DEF TypeOK
    <3>7. JobsForward(p)
      BY <2>1, Quiet
    <3>8. /\ Exists(k)' /\ Attachments(k)' = Attachments(k)
          /\ manifest' = manifest /\ status' = status
      BY <2>1, <2>3 DEF jobVars, Exists, Attachments
    <3>9. "UPLOADING" \notin FileStates(k)' /\ Justified(k, e.status, e.code)'
      <4>1. PICK st, resCode : st = e.status /\ resCode = e.code
        OBVIOUS
      <4>2. Justified(k, st, resCode)'
        BY <1>1, <1>2, <2>3, <2>4, <3>2, <3>8, <4>1, JustifiedKept
      <4>3. "UPLOADING" \notin FileStates(k)'
        BY <1>1, <1>2, <2>3, <2>4, <2>6, <3>8, StatesKept DEF JobInv, Reconcilable
      <4> QED BY <4>1, <4>2, <4>3
    <3>10. WriteInv(p)'
      BY <2>6, <3>2, <3>6, <3>8, <3>9 DEF WriteInv, Reconcilable
    <3>11. p \in due => Due(k)' /\ e.status # "SCANNING"
      <4>1. p \in due => FileStates(k) \subseteq Ended
        BY <1>5, <2>3 DEF Due, FileStates, Ended
      <4> QED BY <1>2, <1>5, <2>3, <3>2, <3>7, <4>1, DueKept
    <3>12. p \in Requests => todo[p] \subseteq KindsOf(manifest[k])
      BY <1>1, <2>1, <2>3 DEF HandlerInv, WorksOn, Reconciling
    <3>13. WorksOn(p)'
      BY <1>3, <2>2, <2>3, <3>6, <3>8, <3>12 DEF WorksOn, Reconciling
    <3>14. CreateInv(p)' /\ DueInv(p)'
      BY <3>3, <3>6, <3>11 DEF CreateInv, DueInv, Reconciling
    <3>15. HandlerInv(p)'
      BY <3>10, <3>13, <3>14 DEF HandlerInv
    <3> QED BY <1>2, <2>1, <3>4, <3>5, <3>15, Quiet, Assembled
  <2> QED BY <2>5, <2>6
<1>9. CASE ReconcileCommit(p)
  <2>1. pc[p] = "transition" /\ EndReconcile(p)
    BY <1>9 DEF ReconcileCommit
  <2>2. CASE seen[p].status = "SCANNING" /\ UNCHANGED <<jobVars, audit>>
    <3>1. p \notin due
      BY <1>1, <2>1, <2>2 DEF HandlerInv, DueInv
    <3> QED BY <1>6, <2>1, <2>2, <3>1
  <2>3. CASE seen[p].status # "SCANNING" /\ ApplyTransition("reconcile", onKey[p], seen[p])
    <3>1. pc[p] \in Holding /\ "reconcile" \in Action
      BY <2>1 DEF Holding, Action
    <3>2. /\ JobTypes' /\ AuditTellsTheEnd' /\ (\A k \in Keys : JobInv(k)') /\ JobsForward(p)
          /\ status'[onKey[p]] = seen[p].status
      BY <1>2, <2>3, <3>1, JobWritten
    <3>3. seen[p] \in Evaluations /\ seen[p].status # "UPLOADING"
      BY <1>1, <3>1 DEF HandlerInv, WriteInv
    <3>4. seen[p].status \in TerminalStatus
      BY <2>3, <3>3 DEF Evaluations, ImportStatus
    <3>5. HandlerTypes' /\ OthersKept(p) /\ HandlerInv(p)'
      BY <1>2, <1>3, <2>1, <3>2, <3>4, ReconcileEnds
    <3> QED BY <1>2, <3>2, <3>5, Assembled
  <2> QED BY <1>9, <2>2, <2>3 DEF ReconcileCommit
<1> QED BY <1>7, <1>8, <1>9
-----------------------------------------------------------------------------

\* A step of the system: the invariant is kept, and jobs go forward.
LEMMA Step ==
    ASSUME IInv, [Next]_vars
    PROVE  IInv' /\ \E p : JobsForward(p)
<1>1. [files!Next]_(files!fileVars)
  BY FilesStep
<1>2. CASE RequestNext
  BY <1>1, <1>2, CreateSteps, SubmitSteps, ReadSteps, Zenon DEF RequestNext
<1>3. CASE ReconcileNext
  BY <1>1, <1>3, ReconcileSteps, Zenon DEF ReconcileNext
<1>4. CASE WorkerNext
  BY <1>1, <1>4, WorkerSteps, Zenon DEF WorkerNext
<1>5. CASE FileNext
  BY <1>1, <1>5, FileSteps, Zenon DEF FileNext
<1>6. CASE UNCHANGED vars
  <2>1. UNCHANGED <<jobVars, audit>> /\ UNCHANGED <<queueVars, jobLock, handlerVars>>
    BY <1>6 DEF vars
  <2>2. QueueTypes' /\ HandlerTypes' /\ OthersKept(None)
    BY <2>1 DEF IInv, TypeOK, QueueTypes, HandlerTypes, OthersKept, queueVars, handlerVars
  <2>3. None \notin Handlers
    BY ImportAssumptions
  <2> QED BY <1>1, <2>1, <2>2, <2>3, Quiet, Assembled
<1> QED BY <1>2, <1>3, <1>4, <1>5, <1>6 DEF Next

\* The inductive invariant: it holds in every state the system can reach, with
\* any number of jobs, attachments, requests and workers.
THEOREM Invariance == Spec => []IInv
  BY InitInv, Step, PTL DEF Spec

\* Files, jobs, audit rows and handlers keep their types.
THEOREM TypeCorrect == Spec => []TypeOK
<1>1. IInv => TypeOK
  BY DEF IInv
<1> QED BY <1>1, Invariance, PTL

\* The files attached to a job are the ones its manifest declares, whichever
\* creates raced for its key, died half way or were retried.
THEOREM AttachmentsDeclared == Spec => []AttachmentsMatchManifest
<1>1. IInv => AttachmentsMatchManifest
  BY DEF IInv, StateInv, JobInv, Started, AttachmentsMatchManifest
<1> QED BY <1>1, Invariance, PTL

\* The outcome of a job is true of its files when it is written and for ever
\* after, although it is computed in an earlier step than it is written.
THEOREM OutcomesHold == Spec => []OutcomeJustified
<1>1. ASSUME IInv PROVE OutcomeJustified
  <2> SUFFICES ASSUME NEW k \in Keys
               PROVE  /\ status[k] = "RECEIVED" =>
                          /\ \A kind \in KindsOf(manifest[k]) :
                                published[<<k, kind>>] = Declared[manifest[k]][kind]
                          /\ BaseMatches(k)
                      /\ status[k] = "CONFLICT" => FileStates(k) = {"CLEAN"} /\ ~BaseMatches(k)
                      /\ resultCode[k] = "ATTACHMENT_INFECTED" => "INFECTED" \in FileStates(k)
                      /\ resultCode[k] = "ATTACHMENT_SCAN_FAILED" => "FAILED" \in FileStates(k)
    BY DEF OutcomeJustified
  <2>1. TypeOK /\ JobInv(k) /\ FileInv
    BY <1>1 DEF IInv, StateInv
  <2>2. Justified(k, status[k], resultCode[k]) /\ status[k] \in ImportStatus
    BY <2>1 DEF JobInv, TypeOK
  <2>3. ASSUME status[k] = "RECEIVED", NEW kind \in KindsOf(manifest[k])
        PROVE  published[<<k, kind>>] = Declared[manifest[k]][kind]
    <3>1. Exists(k)
      BY <2>1, <2>3 DEF JobInv
    <3>2. <<k, kind>> \in Attachments(k) /\ <<k, kind>> \in Files
      BY <2>1, <2>3, <3>1, AttachmentFacts
    <3>3. state[<<k, kind>>] = "CLEAN"
      BY <2>2, <2>3, <3>2 DEF Justified, FileStates
    <3>4. sha256[<<k, kind>>] = Declared[manifest[k]][kind]
      BY <2>1, <2>3, <3>1 DEF JobInv, Started
    <3> QED BY <2>1, <3>2, <3>3, <3>4 DEF FileInv
  <2>4. resultCode[k] = "ATTACHMENT_INFECTED" => "INFECTED" \in FileStates(k)
    BY <2>2, ImportAssumptions DEF Justified, ImportStatus, TerminalStatus
  <2>5. resultCode[k] = "ATTACHMENT_SCAN_FAILED" => "FAILED" \in FileStates(k)
    BY <2>2, ImportAssumptions DEF Justified, ImportStatus, TerminalStatus
  <2>6. /\ status[k] = "RECEIVED" => BaseMatches(k)
        /\ status[k] = "CONFLICT" => FileStates(k) = {"CLEAN"} /\ ~BaseMatches(k)
    BY <2>2 DEF Justified
  <2> QED BY <2>3, <2>4, <2>5, <2>6
<1> QED BY <1>1, Invariance, PTL

\* A job that waits for scans waits for none of its uploads.
THEOREM ScanningComplete == Spec => []ScanningIsComplete
<1>1. IInv => ScanningIsComplete
  BY DEF IInv, StateInv, JobInv, ScanningIsComplete
<1> QED BY <1>1, Invariance, PTL

\* The audit log has exactly one row for the end of a finished job, with its
\* outcome, and none for a job that goes on.
THEOREM AuditIsTrue == Spec => []AuditTellsTheEnd
<1>1. IInv => AuditTellsTheEnd
  BY DEF IInv, StateInv
<1> QED BY <1>1, Invariance, PTL

\* One read of a due job is enough to settle it, whoever else works on it and
\* whichever worker died before.
THEOREM OneReadSettles == Spec => []ReadSettles
<1>1. ASSUME IInv PROVE ReadSettles
  <2> SUFFICES ASSUME NEW r \in due, pc[r] = "read", todo[r] = {},
                      status[onKey[r]] \notin TerminalStatus
               PROVE  FALSE
    BY DEF ReadSettles
  <2>1. r \in Handlers /\ TypeOK
    BY <1>1 DEF IInv, TypeOK, Handlers
  <2>2. HandlerInv(r)
    BY <1>1, <2>1 DEF IInv, StateInv
  <2>3. onKey[r] \in Keys /\ Exists(onKey[r]) /\ KindsOf(manifest[onKey[r]]) = {}
    BY <2>2 DEF HandlerInv, WorksOn, DueInv
  <2>4. KindsOf(manifest[onKey[r]]) # {}
    BY <2>1, <2>3, AttachmentFacts
  <2> QED BY <2>3, <2>4
<1> QED BY <1>1, Invariance, PTL

\* No step changes a finished job or the manifest of any job, or takes a job back
\* to UPLOADING.
THEOREM NoJobGoesBack == Spec => JobsOnlyAdvance
<1> DEFINE Advance ==
        \A k \in Keys :
            /\ status[k] \in TerminalStatus => UNCHANGED <<status[k], resultCode[k]>>
            /\ Exists(k) => manifest'[k] = manifest[k]
            /\ status[k] = "SCANNING" => status'[k] # "UPLOADING"
<1>1. ASSUME IInv, [Next]_vars PROVE Advance
  <2>1. PICK p : JobsForward(p)
    BY <1>1, Step
  <2> QED BY <2>1 DEF JobsForward
<1>2. IInv /\ [Next]_vars => [Advance]_vars
  BY <1>1
<1>3. Spec => [][Advance]_vars
  <2> HIDE DEF Advance
  <2> QED BY <1>2, Invariance, PTL DEF Spec
<1> QED BY <1>3 DEF JobsOnlyAdvance

\* The imports use the file service only as FileContract allows: what is proved of
\* the contract, and that FileLifecycle implements it, holds of their files.
THEOREM FilesComposed == Spec => files!Spec
<1>1. Init => files!Init
  BY DEF Init
<1>2. IInv /\ [Next]_vars => [files!Next]_(files!fileVars)
  BY FilesStep
<1> QED BY <1>1, <1>2, Invariance, PTL DEF Spec, files!Spec
=============================================================================
