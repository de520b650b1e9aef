------------------------ MODULE FileLifecycle_proofs ------------------------
(***************************************************************************)
(* FileLifecycle is type correct, serves only verified content, scans a    *)
(* file once, leaves an accepted object alone, and implements FileContract *)
(* -- for every number of files, requests, workers, multipart ids and      *)
(* queued deliveries, and whichever storage calls take effect late.        *)
(***************************************************************************)
EXTENDS FileLifecycle, TLAPS

\* The states in which the row stands for an object that must not change.
Accepted == {"QUARANTINED", "SCANNING", "CLEAN"}

\* The program counters at which a request holds its file's row lock.
Holding == {"list", "create", "complete", "head"}

\* A lock is held by the request that took it, and a request that has begun
\* works on a file.
LockInv ==
    /\ \A r \in Requests : rPc[r] # "idle" => rFile[r] \in Files
    /\ \A r \in Requests : rPc[r] \in Holding => lock[rFile[r]] = r
    /\ \A f \in Files : lock[f] # None => rPc[lock[f]] \in Holding /\ rFile[lock[f]] = f

\* What a request knows about its row while it holds the lock, and which
\* rows it may still delete the object of.
RequestInv ==
    \A r \in Requests :
        /\ rPc[r] # "idle" => state[rFile[r]] # "ABSENT"
        /\ rPc[r] \in {"list", "create"} =>
             state[rFile[r]] = "UPLOADING" /\ multipartId[rFile[r]] = None
        /\ rPc[r] \in {"complete", "head"} =>
             state[rFile[r]] = "UPLOADING" /\ multipartId[rFile[r]] # None
        /\ rPc[r] = "head" =>
             object[rFile[r]] # None /\ multipartId[rFile[r]] \notin live
        /\ rPc[r] = "delete" => state[rFile[r]] = "FAILED"

\* A row's multipart id was made for its object key; a live upload has a key.
MultipartInv ==
    /\ \A f \in Files : multipartId[f] # None => mpKey[multipartId[f]] = f
    /\ \A m \in live : mpKey[m] # None
    /\ \A f \in Files : state[f] = "ABSENT" => multipartId[f] = None
    /\ \A f \in Files : state[f] # "ABSENT" => sha256[f] # None

\* An accepted file has its object, and the upload it came from is used up.
ObjectInv ==
    \A f \in Files : state[f] \in Accepted =>
        /\ object[f] # None
        /\ multipartId[f] # None
        /\ multipartId[f] \notin live

\* A late completion belongs to the row's own upload; a late deletion to a
\* file that was refused.
LateInv ==
    \A c \in late :
        /\ c.op = "complete" => c.mp # None /\ c.mp = multipartId[c.file]
        /\ c.op = "delete" => state[c.file] \in {"INFECTED", "FAILED"}

\* A worker past its claim is the only one scanning its file, and what it is
\* about to record is true of the object.
WorkerInv ==
    /\ \A w \in Workers :
        /\ wPc[w] # "idle" => wFile[w] \in Files
        /\ wPc[w] \in {"scan", "record"} => state[wFile[w]] = "SCANNING"
        /\ wPc[w] = "delete" => state[wFile[w]] \in {"INFECTED", "FAILED"}
        /\ wPc[w] = "record" =>
             wState[w] \in {"CLEAN", "FOUND", "HASH_MISMATCH", "SCAN_FAILED"}
        /\ wPc[w] = "record" /\ wState[w] = "CLEAN" =>
             object[wFile[w]] = sha256[wFile[w]] /\ sha256[wFile[w]] \in Contents \ Malware
        /\ wPc[w] = "record" /\ wState[w] = "FOUND" => sha256[wFile[w]] \in Malware
    /\ SingleScanner

JanitorInv ==
    jPc \in {"abort", "delete"} => jFile \in Files /\ state[jFile] = "FAILED"

StateInv ==
    /\ LockInv /\ RequestInv /\ MultipartInv /\ ObjectInv /\ LateInv
    /\ WorkerInv /\ JanitorInv /\ CleanIsVerified

IInv == TypeOK /\ StateInv
\* The initial state satisfies the inductive invariant.
LEMMA InitInv == Init => IInv
  BY FileAssumptions
    DEF Init, IInv, StateInv, TypeOK, LockInv, RequestInv, MultipartInv, ObjectInv,
      LateInv, WorkerInv,
                        JanitorInv, CleanIsVerified, SingleScanner, Accepted, Holding,
              FileState, ScanResult,
            LateCall,
            rowVars, timeVars, reqVars, storageVars, workerVars, janitorVars

\* A step keeps the types.
LEMMA TypeStep ==
    ASSUME IInv, [Next]_vars
    PROVE  TypeOK'
<1> USE FileAssumptions DEF IInv, StateInv, TypeOK, LockInv, RequestInv, WorkerInv, JanitorInv,
            FileState, ScanResult, LateCall, Holding,
            rowVars, timeVars, reqVars, storageVars, workerVars, janitorVars
<1>1. ASSUME NEW r \in Requests, NEW f \in Files, NEW c \in Contents, StartUpload(r, f, c) PROVE TypeOK'
  BY <1>1 DEF StartUpload
<1>2. ASSUME NEW r \in Requests, NEW f \in Files, CompleteLock(r, f) PROVE TypeOK'
  BY <1>2 DEF CompleteLock, Completable
<1>3. ASSUME NEW r \in Requests, NEW m \in Multiparts, ProvisionAbort(r, m) PROVE TypeOK'
  BY <1>3 DEF ProvisionAbort, AbortMultipart, Abandon, LateCallOf
<1>4. ASSUME NEW r \in Requests, NEW m \in Multiparts, ProvisionCreate(r, m) PROVE TypeOK'
  BY <1>4 DEF ProvisionCreate, CreateMultipart, Finish
<1>5. ASSUME NEW r \in Requests, ProvisionLock(r) PROVE TypeOK'
  <2>1. CASE state[rFile[r]] = "UPLOADING" /\ multipartId[rFile[r]] = None
    BY <1>5, <2>1 DEF ProvisionLock
  <2>2. CASE ~(state[rFile[r]] = "UPLOADING" /\ multipartId[rFile[r]] = None)
    BY <1>5, <2>2 DEF ProvisionLock, Finish
  <2> QED BY <2>1, <2>2
<1>6. ASSUME NEW r \in Requests, ProvisionList(r) PROVE TypeOK'
  <2>1. multipartId' \in [Files -> Multiparts \cup {None}]
    BY <1>6 DEF ProvisionList, Uploads
  <2>2. /\ rPc' \in [Requests -> {"idle", "provision", "list", "create", "complete",
                                 "head", "enqueue", "delete"}]
        /\ rFile' \in [Requests -> Files \cup {None}]
        /\ rTodo' \in [Requests -> SUBSET Multiparts]
        /\ lock' \in [Files -> Requests \cup {None}]
    BY <1>6 DEF ProvisionList, Finish, Uploads
  <2> QED BY <1>6, <2>1, <2>2 DEF ProvisionList
<1>7. ASSUME NEW r \in Requests, ProvisionTimeout(r) PROVE TypeOK'
  BY <1>7 DEF ProvisionTimeout, Abandon, LateCallOf, Finish
<1>8. ASSUME NEW r \in Requests, CompleteStorage(r) PROVE TypeOK'
  BY <1>8 DEF CompleteStorage, CompleteMultipart
<1>9. ASSUME NEW r \in Requests, CompleteTimeout(r) PROVE TypeOK'
  BY <1>9 DEF CompleteTimeout, Abandon, LateCallOf, Finish
<1>10. ASSUME NEW r \in Requests, CompleteCommit(r) PROVE TypeOK'
  BY <1>10 DEF CompleteCommit
<1>11. ASSUME NEW r \in Requests, CompleteEnqueue(r) PROVE TypeOK'
  BY <1>11 DEF CompleteEnqueue, Enqueue, Finish
<1>12. ASSUME NEW r \in Requests, CompleteDelete(r) PROVE TypeOK'
  BY <1>12 DEF CompleteDelete, DeleteObject, Abandon, LateCallOf, Finish
<1>13. ASSUME NEW r \in Requests, RequestFail(r) PROVE TypeOK'
  BY <1>13 DEF RequestFail, Finish
<1>14. ASSUME NEW w \in Workers, NEW f \in Files, Deliver(w, f) PROVE TypeOK'
  BY <1>14 DEF Deliver
<1>15. ASSUME NEW w \in Workers, ScanClaim(w) PROVE TypeOK'
  BY <1>15 DEF ScanClaim, Claimable
<1>16. ASSUME NEW w \in Workers, ScanObject(w) PROVE TypeOK'
  BY <1>16 DEF ScanObject, Verdict, Scan
<1>17. ASSUME NEW w \in Workers, ScanRecord(w) PROVE TypeOK'
  <2>1. wState[w] \in ScanResult
    BY DEF TypeOK
  <2>2. StateOf(wState[w]) \in FileState
    BY DEF StateOf
  <2>3. state' \in [Files -> FileState]
    BY <1>17, <2>2 DEF ScanRecord
  <2>4. scanResult' \in [Files -> ScanResult]
    BY <1>17, <2>1 DEF ScanRecord
  <2> QED BY <1>17, <2>3, <2>4 DEF ScanRecord
<1>18. ASSUME NEW w \in Workers, ScanDelete(w) PROVE TypeOK'
  BY <1>18 DEF ScanDelete, DeleteObject, Abandon, LateCallOf
<1>19. ASSUME NEW w \in Workers, ScanAck(w) PROVE TypeOK'
  BY <1>19 DEF ScanAck
<1>20. ASSUME NEW w \in Workers, WorkerLost(w) PROVE TypeOK'
  BY <1>20 DEF WorkerLost, Enqueue
<1>21. ASSUME NEW f \in Files, JanitorExpire(f) PROVE TypeOK'
  BY <1>21 DEF JanitorExpire, Expirable
<1>22. ASSUME NEW f \in Files, JanitorRedispatch(f) PROVE TypeOK'
  BY <1>22 DEF JanitorRedispatch, JanitorDequeue, Enqueue
<1>23. ASSUME NEW f \in Files, JanitorRedispatchFails(f) PROVE TypeOK'
  BY <1>23 DEF JanitorRedispatchFails, JanitorDequeue
<1>24. ASSUME JanitorSelect PROVE TypeOK'
  BY <1>24 DEF JanitorSelect, ExpiryCandidates
<1>25. ASSUME JanitorAbort PROVE TypeOK'
  BY <1>25 DEF JanitorAbort, AbortMultipart, Abandon, LateCallOf
<1>26. ASSUME JanitorDelete PROVE TypeOK'
  BY <1>26 DEF JanitorDelete, DeleteObject, Abandon, LateCallOf
<1>27. ASSUME JanitorSelectScans PROVE TypeOK'
  BY <1>27 DEF JanitorSelectScans, RedispatchCandidates
<1>28. ASSUME JanitorDone PROVE TypeOK'
  BY <1>28 DEF JanitorDone
<1>29. ASSUME JanitorLost PROVE TypeOK'
  BY <1>29 DEF JanitorLost
<1>30. ASSUME NEW f \in Files, Age(f) PROVE TypeOK'
  BY <1>30 DEF Age
<1>31. ASSUME NEW f \in Files, Quiesce(f) PROVE TypeOK'
  BY <1>31 DEF Quiesce
<1>32. ASSUME NEW f \in Files, PresignPart(f) PROVE TypeOK'
  BY <1>32 DEF PresignPart
<1>33. ASSUME NEW m \in Multiparts, NEW c \in Contents, PutPart(m, c) PROVE TypeOK'
  BY <1>33 DEF PutPart
<1>34. ASSUME NEW c \in late, TakeEffect(c) PROVE TypeOK'
  BY <1>34 DEF TakeEffect, CreateMultipart, CompleteMultipart
<1>35. CASE UNCHANGED vars
  BY <1>35 DEF vars
<1> QED
    BY <1>1, <1>2, <1>3, <1>4, <1>5, <1>6, <1>7, <1>8, <1>9, <1>10, <1>11, <1>12, <1>13,
      <1>14, <1>15, <1>16, <1>17, <1>18, <1>19, <1>20, <1>21, <1>22, <1>23, <1>24, <1>25,
      <1>26, <1>27, <1>28, <1>29, <1>30, <1>31, <1>32, <1>33, <1>34, <1>35
  DEF Next, RequestNext, WorkerNext, JanitorNext, Environment

\* A step keeps the other conjuncts of the inductive invariant.
LEMMA StateStep ==
    ASSUME IInv, [Next]_vars
    PROVE  StateInv'
<1> USE FileAssumptions DEF IInv, StateInv, TypeOK, LockInv, RequestInv, MultipartInv, ObjectInv, LateInv, WorkerInv,
                        JanitorInv, CleanIsVerified, SingleScanner, Accepted, Holding,
              FileState, ScanResult,
            LateCall,
            rowVars, timeVars, reqVars, storageVars, workerVars, janitorVars
<1>1. ASSUME NEW r \in Requests, NEW f \in Files, NEW c \in Contents, StartUpload(r, f, c) PROVE StateInv'
  BY <1>1 DEF StartUpload
<1>2. ASSUME NEW r \in Requests, NEW f \in Files, CompleteLock(r, f) PROVE StateInv'
  BY <1>2 DEF CompleteLock, Completable
<1>3. ASSUME NEW r \in Requests, NEW m \in Multiparts, ProvisionAbort(r, m) PROVE StateInv'
  BY <1>3 DEF ProvisionAbort, AbortMultipart, Abandon, LateCallOf
<1>4. ASSUME NEW r \in Requests, NEW m \in Multiparts, ProvisionCreate(r, m) PROVE StateInv'
  BY <1>4 DEF ProvisionCreate, CreateMultipart, Finish
<1>5. ASSUME NEW r \in Requests, ProvisionLock(r) PROVE StateInv'
  BY <1>5 DEF ProvisionLock, Finish
<1>6. ASSUME NEW r \in Requests, ProvisionList(r) PROVE StateInv'
  <2> DEFINE g == rFile[r]
  <2>1. CASE \E m \in Uploads(g) :
            multipartId' = [multipartId EXCEPT ![g] = m] /\ Finish(r)
    <3>1. PICK m \in Uploads(g) : multipartId' = [multipartId EXCEPT ![g] = m]
      BY <2>1
    <3>2. m \in Multiparts /\ m \in live /\ mpKey[m] = g
      BY DEF Uploads
    <3>3. LockInv' /\ RequestInv'
      BY <1>6, <2>1, <3>1, <3>2 DEF ProvisionList, Finish
    <3>4. MultipartInv'
      BY <1>6, <3>1, <3>2 DEF ProvisionList
    <3>5. ObjectInv' /\ LateInv'
      BY <1>6, <3>1, <3>2 DEF ProvisionList
    <3>6. WorkerInv' /\ JanitorInv' /\ CleanIsVerified'
      BY <1>6 DEF ProvisionList
    <3> QED BY <3>3, <3>4, <3>5, <3>6
  <2>2. CASE /\ rPc' = [rPc EXCEPT ![r] = "create"]
             /\ UNCHANGED <<multipartId, rFile, lock>>
    BY <1>6, <2>2 DEF ProvisionList
  <2> QED BY <1>6, <2>1, <2>2 DEF ProvisionList
<1>7. ASSUME NEW r \in Requests, ProvisionTimeout(r) PROVE StateInv'
  BY <1>7 DEF ProvisionTimeout, Abandon, LateCallOf, Finish
<1>8. ASSUME NEW r \in Requests, CompleteStorage(r) PROVE StateInv'
  BY <1>8 DEF CompleteStorage, CompleteMultipart
<1>9. ASSUME NEW r \in Requests, CompleteTimeout(r) PROVE StateInv'
  BY <1>9 DEF CompleteTimeout, Abandon, LateCallOf, Finish
<1>10. ASSUME NEW r \in Requests, CompleteCommit(r) PROVE StateInv'
  BY <1>10 DEF CompleteCommit
<1>11. ASSUME NEW r \in Requests, CompleteEnqueue(r) PROVE StateInv'
  BY <1>11 DEF CompleteEnqueue, Enqueue, Finish
<1>12. ASSUME NEW r \in Requests, CompleteDelete(r) PROVE StateInv'
  BY <1>12 DEF CompleteDelete, DeleteObject, Abandon, LateCallOf, Finish
<1>13. ASSUME NEW r \in Requests, RequestFail(r) PROVE StateInv'
  BY <1>13 DEF RequestFail, Finish
<1>14. ASSUME NEW w \in Workers, NEW f \in Files, Deliver(w, f) PROVE StateInv'
  BY <1>14 DEF Deliver
<1>15. ASSUME NEW w \in Workers, ScanClaim(w) PROVE StateInv'
  BY <1>15 DEF ScanClaim, Claimable
<1>16. ASSUME NEW w \in Workers, ScanObject(w) PROVE StateInv'
  BY <1>16 DEF ScanObject, Verdict, Scan
<1>17. ASSUME NEW w \in Workers, ScanRecord(w) PROVE StateInv'
  BY <1>17 DEF ScanRecord, StateOf
<1>18. ASSUME NEW w \in Workers, ScanDelete(w) PROVE StateInv'
  BY <1>18 DEF ScanDelete, DeleteObject, Abandon, LateCallOf
<1>19. ASSUME NEW w \in Workers, ScanAck(w) PROVE StateInv'
  BY <1>19 DEF ScanAck
<1>20. ASSUME NEW w \in Workers, WorkerLost(w) PROVE StateInv'
  BY <1>20 DEF WorkerLost, Enqueue
<1>21. ASSUME NEW f \in Files, JanitorExpire(f) PROVE StateInv'
  BY <1>21 DEF JanitorExpire, Expirable
<1>22. ASSUME NEW f \in Files, JanitorRedispatch(f) PROVE StateInv'
  BY <1>22 DEF JanitorRedispatch, JanitorDequeue, Enqueue
<1>23. ASSUME NEW f \in Files, JanitorRedispatchFails(f) PROVE StateInv'
  BY <1>23 DEF JanitorRedispatchFails, JanitorDequeue
<1>24. ASSUME JanitorSelect PROVE StateInv'
  BY <1>24 DEF JanitorSelect, ExpiryCandidates
<1>25. ASSUME JanitorAbort PROVE StateInv'
  BY <1>25 DEF JanitorAbort, AbortMultipart, Abandon, LateCallOf
<1>26. ASSUME JanitorDelete PROVE StateInv'
  BY <1>26 DEF JanitorDelete, DeleteObject, Abandon, LateCallOf
<1>27. ASSUME JanitorSelectScans PROVE StateInv'
  BY <1>27 DEF JanitorSelectScans, RedispatchCandidates
<1>28. ASSUME JanitorDone PROVE StateInv'
  BY <1>28 DEF JanitorDone
<1>29. ASSUME JanitorLost PROVE StateInv'
  BY <1>29 DEF JanitorLost
<1>30. ASSUME NEW f \in Files, Age(f) PROVE StateInv'
  BY <1>30 DEF Age
<1>31. ASSUME NEW f \in Files, Quiesce(f) PROVE StateInv'
  BY <1>31 DEF Quiesce
<1>32. ASSUME NEW f \in Files, PresignPart(f) PROVE StateInv'
  BY <1>32 DEF PresignPart
<1>33. ASSUME NEW m \in Multiparts, NEW c \in Contents, PutPart(m, c) PROVE StateInv'
  BY <1>33 DEF PutPart
<1>34. ASSUME NEW c \in late, TakeEffect(c) PROVE StateInv'
  BY <1>34 DEF TakeEffect, CreateMultipart, CompleteMultipart
<1>35. CASE UNCHANGED vars
  BY <1>35 DEF vars
<1> QED
    BY <1>1, <1>2, <1>3, <1>4, <1>5, <1>6, <1>7, <1>8, <1>9, <1>10, <1>11, <1>12, <1>13,
      <1>14, <1>15, <1>16, <1>17, <1>18, <1>19, <1>20, <1>21, <1>22, <1>23, <1>24, <1>25,
      <1>26, <1>27, <1>28, <1>29, <1>30, <1>31, <1>32, <1>33, <1>34, <1>35
  DEF Next, RequestNext, WorkerNext, JanitorNext, Environment

\* The inductive invariant holds in every behaviour.
THEOREM Invariance == Spec => []IInv
<1>1. IInv /\ [Next]_vars => IInv'
  BY TypeStep, StateStep DEF IInv
<1> QED BY InitInv, <1>1, PTL DEF Spec

\* Rows, requests, storage, queue, workers and janitor keep their types.
THEOREM TypeCorrect == Spec => []TypeOK
<1>1. IInv => TypeOK
  BY DEF IInv
<1> QED BY Invariance, <1>1, PTL

\* Only verified, malware-free content is ever downloadable.
THEOREM DownloadsVerified == Spec => []CleanIsVerified
<1>1. IInv => CleanIsVerified
  BY DEF IInv, StateInv
<1> QED BY Invariance, <1>1, PTL

\* Whatever the broker redelivers, a file is scanned by one worker.
THEOREM ScannedOnce == Spec => []SingleScanner
<1>1. IInv => SingleScanner
  BY DEF IInv, StateInv, WorkerInv
<1> QED BY Invariance, <1>1, PTL

\* A step changes the object of no accepted file: only CompleteStorage, the
\* deletions and late storage calls write objects, and each of them is for a
\* file in another state.
LEMMA StableStep ==
    ASSUME IInv, [Next]_vars, NEW g \in Files, state[g] \in Accepted
    PROVE  object'[g] = object[g]
<1> USE DEF IInv, StateInv, TypeOK, LockInv, RequestInv, ObjectInv, LateInv, WorkerInv,
            JanitorInv, Accepted, LateCall, storageVars
<1>1. ASSUME NEW r \in Requests, NEW m \in Multiparts, ProvisionAbort(r, m) PROVE object'[g] = object[g]
  BY <1>1 DEF ProvisionAbort, AbortMultipart, Abandon
<1>2. ASSUME NEW r \in Requests, CompleteStorage(r) PROVE object'[g] = object[g]
  BY <1>2 DEF CompleteStorage, CompleteMultipart
<1>3. ASSUME NEW r \in Requests, CompleteDelete(r) PROVE object'[g] = object[g]
  BY <1>3 DEF CompleteDelete, DeleteObject, Abandon
<1>4. ASSUME NEW w \in Workers, ScanDelete(w) PROVE object'[g] = object[g]
  BY <1>4 DEF ScanDelete, DeleteObject, Abandon
<1>5. ASSUME JanitorAbort PROVE object'[g] = object[g]
  BY <1>5 DEF JanitorAbort, AbortMultipart, Abandon
<1>6. ASSUME JanitorDelete PROVE object'[g] = object[g]
  BY <1>6 DEF JanitorDelete, DeleteObject, Abandon
<1>7. ASSUME NEW c \in late, TakeEffect(c) PROVE object'[g] = object[g]
  BY <1>7 DEF TakeEffect, CreateMultipart, CompleteMultipart
<1>8. CASE UNCHANGED object
  BY <1>8
<1> QED
  BY <1>1, <1>2, <1>3, <1>4, <1>5, <1>6, <1>7, <1>8
    DEF vars, Next, RequestNext, WorkerNext, JanitorNext, Environment, Abandon,
      JanitorDequeue,
            StartUpload, CompleteLock, ProvisionCreate, ProvisionLock, ProvisionList,
        ProvisionTimeout, CompleteTimeout, CompleteCommit, CompleteEnqueue, RequestFail,
        Deliver, ScanClaim, ScanObject, ScanRecord, ScanAck, WorkerLost, JanitorExpire,
        JanitorRedispatch, JanitorRedispatchFails, JanitorSelect, JanitorSelectScans,
        JanitorDone, JanitorLost, Age, Quiesce, PresignPart, PutPart

\* The bytes that were scanned are the bytes that are served.
THEOREM ObjectsStable == Spec => AcceptedObjectIsStable
<1>1. IInv /\ [Next]_vars =>
        [\A f \in Files : state[f] \in {"QUARANTINED", "SCANNING", "CLEAN"}
                            => object'[f] = object[f]]_vars
  BY StableStep DEF Accepted
<1> QED BY Invariance, <1>1, PTL DEF Spec, AcceptedObjectIsStable

\* A step of the model is a step of the contract or leaves its state alone.
LEMMA ContractStep ==
    ASSUME IInv, [Next]_vars
    PROVE  [Contract!Next]_(Contract!fileVars)
<1> DEFINE published == [f \in Files |-> IF state[f] = "CLEAN" THEN object[f] ELSE None]
<1> USE FileAssumptions
<1>a. \A f \in Files : state[f] \in Accepted => object'[f] = object[f]
  BY StableStep
<1>b. ASSUME UNCHANGED state PROVE UNCHANGED published
  BY <1>a, <1>b DEF Accepted
<1>1. ASSUME NEW r \in Requests, NEW f \in Files, NEW c \in Contents, StartUpload(r, f, c)
      PROVE  Contract!Next \/ UNCHANGED Contract!fileVars
  <2>1. CASE state[f] = "ABSENT"
    <3>1. UNCHANGED published
      BY <1>1, <2>1 DEF StartUpload, storageVars, IInv, TypeOK
    <3> QED BY <1>1, <2>1, <3>1 DEF StartUpload, Contract!Next, Contract!Start, Contract!Move
  <2>2. CASE state[f] # "ABSENT"
    BY <1>1, <1>b, <2>2 DEF StartUpload, Contract!fileVars
  <2> QED BY <2>1, <2>2
<1>2. ASSUME NEW r \in Requests, CompleteCommit(r) PROVE Contract!Next
  <2>1. rFile[r] \in Files /\ state[rFile[r]] = "UPLOADING"
    BY <1>2 DEF CompleteCommit, IInv, TypeOK, StateInv, LockInv, RequestInv
  <2>2. UNCHANGED published
    BY <1>2, <2>1 DEF CompleteCommit, storageVars, IInv, TypeOK
  <2> QED BY <1>2, <2>1, <2>2
                    DEF CompleteCommit, Contract!Next, Contract!Quarantine,
              Contract!Refuse, Contract!Move
<1>3. ASSUME NEW w \in Workers, ScanClaim(w)
      PROVE  Contract!Next \/ UNCHANGED Contract!fileVars
  <2>1. wFile[w] \in Files
    BY <1>3 DEF ScanClaim, IInv, StateInv, WorkerInv
  <2>2. CASE Claimable(wFile[w])
    <3>1. UNCHANGED published
      BY <1>3, <2>1, <2>2 DEF ScanClaim, Claimable, storageVars, IInv, TypeOK
    <3> QED BY <1>3, <2>1, <2>2, <3>1
            DEF ScanClaim, Claimable, Contract!Next, Contract!Claim, Contract!Move
  <2>3. CASE ~Claimable(wFile[w])
    BY <1>3, <1>b, <2>3 DEF ScanClaim, Contract!fileVars
  <2> QED BY <2>2, <2>3
<1>4. ASSUME NEW w \in Workers, ScanRecord(w) PROVE Contract!Next
  <2> DEFINE g == wFile[w]
  <2>1. /\ g \in Files /\ state[g] = "SCANNING"
        /\ wState[w] \in {"CLEAN", "FOUND", "HASH_MISMATCH", "SCAN_FAILED"}
        /\ wState[w] = "CLEAN" => object[g] = sha256[g] /\ sha256[g] \in Contents \ Malware
        /\ wState[w] = "FOUND" => sha256[g] \in Malware
    BY <1>4 DEF ScanRecord, IInv, StateInv, WorkerInv
  <2>2. state' = [state EXCEPT ![g] = StateOf(wState[w])] /\ UNCHANGED <<sha256, object>>
    BY <1>4, <2>1 DEF ScanRecord, storageVars
  <2>3. CASE wState[w] = "CLEAN"
    <3>1. state' = [state EXCEPT ![g] = "CLEAN"]
      BY <2>2, <2>3 DEF StateOf
    <3>2. published' = [published EXCEPT ![g] = sha256[g]]
      BY <2>1, <2>2, <2>3, <3>1 DEF IInv, TypeOK
    <3> QED BY <2>1, <2>2, <2>3, <3>1, <3>2 DEF Contract!Next, Contract!Publish, Contract!Move
  <2>4. CASE wState[w] # "CLEAN"
    <3>1. state' = [state EXCEPT ![g] = IF wState[w] = "FOUND" THEN "INFECTED" ELSE "FAILED"]
      BY <2>1, <2>2, <2>4 DEF StateOf
    <3>2. UNCHANGED published
      BY <2>1, <2>2, <3>1 DEF IInv, TypeOK
    <3> QED BY <2>1, <2>2, <2>4, <3>1, <3>2 DEF Contract!Next, Contract!Reject, Contract!Move
  <2> QED BY <2>3, <2>4
<1>5. ASSUME NEW f \in Files, JanitorExpire(f)
      PROVE  Contract!Next \/ UNCHANGED Contract!fileVars
  <2>1. CASE Expirable(f)
    <3>1. UNCHANGED published
      BY <1>5, <2>1 DEF JanitorExpire, Expirable, storageVars, IInv, TypeOK
    <3> QED BY <1>5, <2>1, <3>1
            DEF JanitorExpire, Expirable, Contract!Next, Contract!Refuse, Contract!Move
  <2>2. CASE ~Expirable(f)
    BY <1>5, <1>b, <2>2 DEF JanitorExpire, Contract!fileVars
  <2> QED BY <2>1, <2>2
<1>6. CASE UNCHANGED <<state, sha256>>
  BY <1>6, <1>b DEF Contract!fileVars
<1> QED
  BY <1>1, <1>2, <1>3, <1>4, <1>5, <1>6
    DEF vars, rowVars, Next, RequestNext, WorkerNext, JanitorNext, Environment,
      JanitorDequeue,
            CompleteLock, ProvisionAbort, ProvisionCreate, ProvisionLock, ProvisionList,
        ProvisionTimeout, CompleteStorage, CompleteTimeout, CompleteEnqueue,
        CompleteDelete, RequestFail, Deliver, ScanObject, ScanDelete, ScanAck, WorkerLost,
        JanitorRedispatch, JanitorRedispatchFails, JanitorSelect, JanitorAbort,
        JanitorDelete, JanitorSelectScans, JanitorDone, JanitorLost, Age, Quiesce,
        PresignPart, PutPart, TakeEffect

\* FileLifecycle implements FileContract.
THEOREM ImplementsContract == Spec => ContractSpec
<1>1. Init => Contract!Init
  BY DEF Init, Contract!Init
<1> QED BY <1>1, Invariance, ContractStep, PTL DEF Spec, ContractSpec, Contract!Spec
=============================================================================
