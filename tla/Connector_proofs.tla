--------------------------- MODULE Connector_proofs ---------------------------
(***************************************************************************)
(* What the workstation connector keeps true wherever it is interrupted,   *)
(* proved for every number of devices, keys, attachments and parts.        *)
(***************************************************************************)
EXTENDS Connector, TLAPS

Commands == {"pair", "submit", "retry", "status"}

\* The steps before the command holds a token.
Bare == {"idle", "recover", "pairCheck", "pairMark", "pairCall", "open", "load",
   "refresh"}

PairSteps == {"pairCheck", "pairMark", "pairCall", "pairStore", "pairDrop", "pairDone"}

\* The calls and checkpoints of _resume.
Transfer == {"resume", "bind", "put", "partSave", "completeSave", "evidence"}

\* The steps of submit, retry and status once nothing is left to recover.
Work == {"open", "load", "refresh", "store", "read", "print", "drop"} \cup Transfer

\* The job the entry is about.
EntryJob == job[<<outbox.device, outbox.key>>]

\* An entry that never was bound has sent nothing; one that was has a device, and
\* an unreported result is never marked for replacement.
EntryInv ==
    outbox # None =>
        /\ outbox.phase = "CREATE" => /\ outbox.parts = [a \in Attachments |-> 0]
                                      /\ outbox.completed = {}
        /\ outbox.phase # "CREATE" => outbox.device \in Devices
        /\ outbox.phase = "EVIDENCE" => replacement = None

\* The command before it has a token, and the markers each step relies on.
StartInv ==
    /\ pc \in Bare => hand = None /\ access = None
    /\ pc = "recover" => /\ cmd \in Commands
                         /\ cmd # "pair" => pairing = None
                         /\ cmd = "submit" => used # Keys
    /\ pc \in Work \cup {"pairCheck", "pairMark"} => replacement = None
    /\ pc \in {"open", "load", "refresh"} => pairing = None
    /\ pc = "open" => used # Keys

\* pair: the marker is written before the server is asked, and names the
\* credential that is replaced.
PairInv ==
    /\ pc \in {"pairCall", "pairStore"} /\ outbox # None =>
           replacement = [old |-> cred, key |-> outbox.key]
    /\ pc = "pairStore" => hand \in Tokens /\ hand # cred
    /\ pc = "pairDrop" /\ outbox # None => replacement # None /\ Superseded
    /\ pc = "pairDone" => outbox = None

\* submit and retry: the entry, the token and the server's job at each step.
ResumeInv ==
    /\ pc \in {"refresh", "store"} /\ cmd # "status" =>
           outbox # None /\ outbox.phase # "EVIDENCE"
    /\ pc = "store" => hand \in Tokens /\ cred \in Tokens /\ hand[1] = cred[1]
    /\ pc \in Transfer => /\ outbox # None /\ outbox.phase # "EVIDENCE"
                          /\ access \in Tokens /\ outbox.device = access[1]
    /\ pc = "bind" => outbox.phase = "CREATE" /\ EntryJob # None
    /\ pc \in {"put", "partSave", "completeSave"} => outbox.phase = "UPLOAD"
    /\ pc = "partSave" => \A a \in Attachments :
           Uploading(a) => EntryJob.stored[a][outbox.parts[a] + 1] # None
    /\ pc = "completeSave" => \A a \in Attachments :
           Completing(a) => EntryJob.file[a] # "UPLOADING"
    /\ pc = "evidence" => outbox.phase = "SUBMIT"
    /\ pc \in {"print", "drop"} => outbox # None /\ outbox.phase = "EVIDENCE"
    /\ pc = "drop" => outbox.key \in reported

TypeInv ==
    /\ TypeOK
    /\ pc \in {"idle", "recover"} \cup PairSteps \cup Work
    /\ cmd \in Commands \cup {None}

\* The inductive invariant.
IInv ==
    /\ TypeInv
    /\ EntryInv /\ StartInv /\ PairInv /\ ResumeInv
    /\ OperationKeepsDevice /\ CheckpointBehindServer
    /\ ApprovedContentOnly /\ SubmittedIsAccountedFor

-----------------------------------------------------------------------------
(* Facts the steps share.                                                  *)

USE DEF Bare, PairSteps, Transfer, Work, Commands, diskVars, commandVars, serverVars,
        keyVars, Goto, End, Tokens

\* The entry e claims no more than the job j has.
Behind(e, j) ==
    /\ j # None
    /\ \A a \in Attachments :
        /\ \A n \in 1 .. e.parts[a] : j.stored[a][n] # None
        /\ a \in e.completed => j.file[a] # "UPLOADING"

\* The job j keeps what the job i has, and holds nothing but approved bytes.
Keeps(i, j) ==
    \A a \in Attachments :
        /\ i.file[a] # "UPLOADING" => j.file[a] # "UPLOADING"
        /\ \A n \in Parts : /\ i.stored[a][n] # None => j.stored[a][n] # None
                            /\ i.stored[a][n] # "changed" => j.stored[a][n] # "changed"

\* CheckpointBehindServer in terms of the entry's job, before and after a step.
LEMMA BehindEntry ==
    /\ CheckpointBehindServer <=>
           (outbox # None /\ outbox.phase # "CREATE" => Behind(outbox, EntryJob))
    /\ CheckpointBehindServer' <=>
           (outbox' # None /\ outbox'.phase # "CREATE" => Behind(outbox', EntryJob'))
BY DEF CheckpointBehindServer, Behind, EntryJob

\* What a step that leaves the entry and the jobs alone cannot disturb.
LEMMA JobsUntouched ==
    ASSUME IInv, UNCHANGED <<outbox, job>>, UNCHANGED <<reported, abandoned>>
    PROVE  CheckpointBehindServer' /\ ApprovedContentOnly' /\ SubmittedIsAccountedFor'
<1>1. CheckpointBehindServer'
  BY BehindEntry DEF IInv, EntryJob
<1>2. ApprovedContentOnly'
  BY DEF IInv, ApprovedContentOnly
<1>3. SubmittedIsAccountedFor'
  BY DEF IInv, SubmittedIsAccountedFor
<1>4. QED
  BY <1>1, <1>2, <1>3

\* A job that is replaced by one that keeps what it had.
LEMMA JobGrows ==
    ASSUME IInv, NEW dk \in Devices \X Keys, NEW j \in Job,
           job[dk] # None, Keeps(job[dk], j), job' = [job EXCEPT ![dk] = j],
           UNCHANGED outbox
    PROVE  /\ job' \in [Devices \X Keys -> Job \cup {None}]
           /\ CheckpointBehindServer' /\ ApprovedContentOnly'
<1>1. job \in [Devices \X Keys -> Job \cup {None}] /\ outbox \in Entry \cup {None}
  BY DEF IInv, TypeInv, TypeOK
<1>2. job' \in [Devices \X Keys -> Job \cup {None}]
  BY <1>1
<1>3. j # None
  BY ConnectorAssumptions
<1>4. ApprovedContentOnly'
  <2> SUFFICES ASSUME NEW o \in Devices \X Keys, job'[o] # None,
                      NEW a \in Attachments, NEW n \in Parts
               PROVE  job'[o].stored[a][n] # "changed"
    BY DEF ApprovedContentOnly
  <2>1. CASE o = dk
    BY <1>1, <2>1 DEF IInv, ApprovedContentOnly, Keeps
  <2>2. CASE o # dk
    BY <1>1, <2>2 DEF IInv, ApprovedContentOnly
  <2>3. QED
    BY <2>1, <2>2
<1>5. CheckpointBehindServer'
  <2> SUFFICES ASSUME outbox # None, outbox.phase # "CREATE"
               PROVE  Behind(outbox, EntryJob')
    BY BehindEntry
  <2>1. Behind(outbox, EntryJob)
    BY BehindEntry DEF IInv
  <2>2. <<outbox.device, outbox.key>> \in Devices \X Keys
    BY <1>1, ConnectorAssumptions DEF IInv, EntryInv, Entry
  <2>3. \A a \in Attachments : 1 .. outbox.parts[a] \subseteq Parts
    BY <1>1, ConnectorAssumptions DEF Entry, Parts
  <2>4. CASE <<outbox.device, outbox.key>> = dk
    <3>1. EntryJob = job[dk] /\ EntryJob' = j
      BY <1>1, <2>4 DEF EntryJob
    <3>2. QED
      BY <1>3, <2>1, <2>3, <3>1 DEF Behind, Keeps
  <2>5. CASE <<outbox.device, outbox.key>> # dk
    <3>1. EntryJob' = EntryJob
      BY <1>1, <2>2, <2>5 DEF EntryJob
    <3>2. QED
      BY <2>1, <3>1
  <2>6. QED
    BY <2>4, <2>5
<1>6. QED
  BY <1>2, <1>4, <1>5

\* A step after which no more jobs are submitted than before.
LEMMA NothingSubmitted ==
    ASSUME IInv, UNCHANGED <<outbox, reported, abandoned>>,
           \A o \in Devices \X Keys :
               job'[o] # None /\ job'[o].submitted => job[o] # None /\ job[o].submitted
    PROVE  SubmittedIsAccountedFor'
BY DEF IInv, SubmittedIsAccountedFor

\* The server issues a token: the entry's job stays where it is.
LEMMA TokenIssued ==
    ASSUME IInv, NEW t \in Tokens, NEW spent, Issue(t, spent),
           spent = {} /\ outbox # None => outbox.device # t[1],
           UNCHANGED <<outbox, reported, abandoned>>
    PROVE  /\ live' \subseteq Tokens /\ hand' = t
           /\ job' \in [Devices \X Keys -> Job \cup {None}]
           /\ CheckpointBehindServer' /\ ApprovedContentOnly' /\ SubmittedIsAccountedFor'
<1>1. job \in [Devices \X Keys -> Job \cup {None}] /\ outbox \in Entry \cup {None}
  BY DEF IInv, TypeInv, TypeOK
<1>2. live' \subseteq Tokens /\ hand' = t
  BY DEF Issue, IInv, TypeInv, TypeOK
<1>3. DeviceOf(t) = t[1]
  BY ConnectorAssumptions DEF DeviceOf
<1>4. job' = [dk \in Devices \X Keys |->
                 IF outbox = None \/ dk[2] # outbox.key \/ (spent = {} /\ dk[1] = t[1])
                 THEN None ELSE job[dk]]
  BY <1>1, <1>3 DEF Issue
<1>5. \A o \in Devices \X Keys : job'[o] \in {None, job[o]}
  BY <1>4
<1>6. job' \in [Devices \X Keys -> Job \cup {None}]
  BY <1>1, <1>4
<1>7. ApprovedContentOnly'
  BY <1>5 DEF IInv, ApprovedContentOnly
<1>8. SubmittedIsAccountedFor'
  BY <1>5, NothingSubmitted
<1>9. CheckpointBehindServer'
  <2> SUFFICES ASSUME outbox # None, outbox.phase # "CREATE"
               PROVE  Behind(outbox, EntryJob')
    BY BehindEntry
  <2>1. Behind(outbox, EntryJob)
    BY BehindEntry DEF IInv
  <2>2. outbox.device \in Devices /\ outbox.key \in Keys
    BY <1>1, ConnectorAssumptions DEF IInv, EntryInv, Entry
  <2>3. EntryJob' = EntryJob
    BY <1>4, <2>2 DEF EntryJob
  <2>4. QED
    BY <2>1, <2>3
<1>10. QED
  BY <1>2, <1>6, <1>7, <1>8, <1>9

\* The command ends, and only the command changes: exit, failure or kill.
LEMMA Ends ==
    ASSUME IInv, End, UNCHANGED <<diskVars, content, serverVars, keyVars>>
    PROVE  IInv'
<1>1. TypeInv'
  BY DEF IInv, TypeInv, TypeOK
<1>2. EntryInv' /\ StartInv' /\ PairInv' /\ ResumeInv'
  BY DEF IInv, EntryInv, StartInv, PairInv, ResumeInv
<1>3. OperationKeepsDevice'
  BY DEF IInv, OperationKeepsDevice, Superseded, Replaced
<1>4. QED
  BY <1>1, <1>2, <1>3, JobsUntouched DEF IInv

\* The entry is deleted, or its result is printed: its key is accounted for.
LEMMA KeyAccounted ==
    ASSUME IInv, UNCHANGED job,
           reported \subseteq reported', abandoned \subseteq abandoned',
           \/ UNCHANGED outbox
           \/ outbox' = None /\ outbox.key \in reported' \cup abandoned'
    PROVE  CheckpointBehindServer' /\ ApprovedContentOnly' /\ SubmittedIsAccountedFor'
<1>1. CheckpointBehindServer'
  BY BehindEntry DEF IInv, EntryJob
<1>2. ApprovedContentOnly'
  BY DEF IInv, ApprovedContentOnly
<1>3. SubmittedIsAccountedFor'
  BY DEF IInv, SubmittedIsAccountedFor
<1>4. QED
  BY <1>1, <1>2, <1>3

\* The key of an entry is a key.
LEMMA EntryHasKey ==
    ASSUME IInv, outbox # None
    PROVE  outbox \in Entry /\ outbox.key \in Keys
BY DEF IInv, TypeInv, TypeOK, Entry

-----------------------------------------------------------------------------
(* The steps of the commands.                                              *)

\* A command starts, and with it the recovery from an interrupted pair.
LEMMA BeginStep ==
    ASSUME IInv, NEW c \in Commands, c = "submit" => used # Keys, Begin(c)
    PROVE  IInv'
<1>1. TypeInv'
  BY DEF IInv, TypeInv, TypeOK, Begin
<1>2. EntryInv'
  BY DEF IInv, EntryInv, Begin
<1>3. StartInv'
  BY DEF IInv, StartInv, Begin
<1>4. PairInv'
  BY DEF IInv, PairInv, Begin
<1>5. ResumeInv'
  BY DEF IInv, ResumeInv, Begin
<1>6. OperationKeepsDevice'
  BY DEF IInv, OperationKeepsDevice, Superseded, Replaced, Begin
<1>7. CheckpointBehindServer' /\ ApprovedContentOnly' /\ SubmittedIsAccountedFor'
  BY JobsUntouched DEF Begin
<1>8. QED
  BY <1>1, <1>2, <1>3, <1>4, <1>5, <1>6, <1>7 DEF IInv

\* No replacement marker: the command goes on.
LEMMA NothingToRecoverStep ==
    ASSUME IInv, NothingToRecover
    PROVE  IInv'
<1>1. TypeInv'
  BY DEF IInv, TypeInv, TypeOK, StartInv, NothingToRecover, AfterRecovery
<1>2. EntryInv'
  BY DEF IInv, EntryInv, NothingToRecover, AfterRecovery
<1>3. StartInv'
  BY DEF IInv, StartInv, NothingToRecover, AfterRecovery
<1>4. PairInv'
  BY DEF IInv, PairInv, StartInv, Superseded, Replaced, NothingToRecover, AfterRecovery
<1>5. ResumeInv'
  BY DEF IInv, ResumeInv, StartInv, EntryJob, Uploading, Completing, NothingToRecover,
     AfterRecovery
<1>6. OperationKeepsDevice'
  BY DEF IInv, OperationKeepsDevice, Superseded, Replaced, NothingToRecover,
     AfterRecovery
<1>7. CheckpointBehindServer' /\ ApprovedContentOnly' /\ SubmittedIsAccountedFor'
  BY JobsUntouched DEF NothingToRecover, AfterRecovery
<1>8. QED
  BY <1>1, <1>2, <1>3, <1>4, <1>5, <1>6, <1>7 DEF IInv

\* _recover_replacement gives up the operation of the old device.
LEMMA RecoverOutboxStep ==
    ASSUME IInv, RecoverOutbox
    PROVE  IInv'
<1>1. TypeInv'
  BY EntryHasKey DEF IInv, TypeInv, TypeOK, RecoverOutbox, Superseded, Abandon
<1>2. EntryInv'
  BY DEF IInv, EntryInv, RecoverOutbox, Abandon
<1>3. StartInv'
  BY DEF IInv, StartInv, RecoverOutbox, Abandon
<1>4. PairInv'
  BY DEF IInv, PairInv, RecoverOutbox, Abandon
<1>5. ResumeInv'
  BY DEF IInv, ResumeInv, RecoverOutbox, Abandon
<1>6. OperationKeepsDevice'
  BY DEF IInv, OperationKeepsDevice, Superseded, Replaced, RecoverOutbox, Abandon
<1>7. CheckpointBehindServer' /\ ApprovedContentOnly' /\ SubmittedIsAccountedFor'
  BY KeyAccounted, EntryHasKey DEF RecoverOutbox, Superseded, Abandon
<1>8. QED
  BY <1>1, <1>2, <1>3, <1>4, <1>5, <1>6, <1>7 DEF IInv

\* The marker goes when the entry is not superseded, hence of the credential's device.
LEMMA RecoverMarkerStep ==
    ASSUME IInv, RecoverMarker
    PROVE  IInv'
<1>1. TypeInv'
  BY DEF IInv, TypeInv, TypeOK, StartInv, RecoverMarker, AfterRecovery
<1>2. EntryInv'
  BY DEF IInv, EntryInv, RecoverMarker, AfterRecovery, Superseded, Replaced
<1>3. StartInv'
  BY DEF IInv, StartInv, RecoverMarker, AfterRecovery, Superseded, Replaced
<1>4. PairInv'
  BY DEF IInv, PairInv, StartInv, Superseded, Replaced, RecoverMarker, AfterRecovery
<1>5. ResumeInv'
  BY DEF IInv, ResumeInv, StartInv, EntryJob, Uploading, Completing, RecoverMarker,
     AfterRecovery, Superseded, Replaced
<1>6. OperationKeepsDevice'
  BY DEF IInv, OperationKeepsDevice, Superseded, Replaced, RecoverMarker, AfterRecovery
<1>7. CheckpointBehindServer' /\ ApprovedContentOnly' /\ SubmittedIsAccountedFor'
  BY JobsUntouched DEF RecoverMarker, AfterRecovery, Superseded, Replaced
<1>8. QED
  BY <1>1, <1>2, <1>3, <1>4, <1>5, <1>6, <1>7 DEF IInv

\* _recover_initial_pair.
LEMMA PairCheckStep ==
    ASSUME IInv, PairCheck
    PROVE  IInv'
<1>1. TypeInv'
  BY DEF IInv, TypeInv, TypeOK, PairCheck
<1>2. EntryInv'
  BY DEF IInv, EntryInv, PairCheck
<1>3. StartInv'
  BY DEF IInv, StartInv, PairCheck
<1>4. PairInv'
  BY DEF IInv, PairInv, PairCheck
<1>5. ResumeInv'
  BY DEF IInv, ResumeInv, PairCheck
<1>6. OperationKeepsDevice'
  BY DEF IInv, OperationKeepsDevice, Superseded, Replaced, PairCheck
<1>7. CheckpointBehindServer' /\ ApprovedContentOnly' /\ SubmittedIsAccountedFor'
  BY JobsUntouched DEF PairCheck
<1>8. QED
  BY <1>1, <1>2, <1>3, <1>4, <1>5, <1>6, <1>7 DEF IInv

\* The marker names the credential and the entry.
LEMMA PairMarkStep ==
    ASSUME IInv, PairMark
    PROVE  IInv'
<1>1. TypeInv'
  BY EntryHasKey DEF IInv, TypeInv, TypeOK, PairMark, SavePairCompletionMarker,
     SaveReplacementMarker, Marker
<1>2. EntryInv'
  BY DEF IInv, EntryInv, PairMark, PairAllowed, SavePairCompletionMarker,
     SaveReplacementMarker
<1>3. StartInv'
  BY DEF IInv, StartInv, PairMark, PairAllowed, SavePairCompletionMarker,
     SaveReplacementMarker
<1>4. PairInv'
  BY DEF IInv, PairInv, PairMark, PairAllowed, SavePairCompletionMarker,
     SaveReplacementMarker
<1>5. ResumeInv'
  BY DEF IInv, ResumeInv, PairMark, PairAllowed, SavePairCompletionMarker,
     SaveReplacementMarker
<1>6. OperationKeepsDevice'
  BY DEF IInv, OperationKeepsDevice, StartInv, Superseded, Replaced, PairMark,
     PairAllowed, SavePairCompletionMarker, SaveReplacementMarker
<1>7. CheckpointBehindServer' /\ ApprovedContentOnly' /\ SubmittedIsAccountedFor'
  BY JobsUntouched DEF PairMark, PairAllowed, SavePairCompletionMarker,
     SaveReplacementMarker
<1>8. QED
  BY <1>1, <1>2, <1>3, <1>4, <1>5, <1>6, <1>7 DEF IInv

\* The entry of the old device is given up.
LEMMA PairDropStep ==
    ASSUME IInv, PairDrop
    PROVE  IInv'
<1>1. TypeInv'
  BY EntryHasKey DEF IInv, TypeInv, TypeOK, PairDrop, Abandon
<1>2. EntryInv'
  BY DEF IInv, EntryInv, PairDrop, Abandon
<1>3. StartInv'
  BY DEF IInv, StartInv, PairDrop, Abandon
<1>4. PairInv'
  BY DEF IInv, PairInv, PairDrop, Abandon
<1>5. ResumeInv'
  BY DEF IInv, ResumeInv, PairDrop, Abandon
<1>6. OperationKeepsDevice'
  BY DEF IInv, OperationKeepsDevice, Superseded, Replaced, PairDrop, Abandon
<1>7. CheckpointBehindServer' /\ ApprovedContentOnly' /\ SubmittedIsAccountedFor'
  BY KeyAccounted, EntryHasKey DEF PairDrop, Abandon
<1>8. QED
  BY <1>1, <1>2, <1>3, <1>4, <1>5, <1>6, <1>7 DEF IInv

\* The markers go when no entry is left.
LEMMA PairDoneStep ==
    ASSUME IInv, PairDone
    PROVE  IInv'
<1>1. TypeInv'
  BY DEF IInv, TypeInv, TypeOK, PairDone
<1>2. EntryInv'
  BY DEF IInv, EntryInv, PairDone
<1>3. StartInv'
  BY DEF IInv, StartInv, PairDone
<1>4. PairInv'
  BY DEF IInv, PairInv, PairDone
<1>5. ResumeInv'
  BY DEF IInv, ResumeInv, PairDone
<1>6. OperationKeepsDevice'
  BY DEF IInv, TypeInv, StartInv, PairInv, ResumeInv, OperationKeepsDevice,
     Superseded, Replaced, DeviceOf, PairDone
<1>7. CheckpointBehindServer' /\ ApprovedContentOnly' /\ SubmittedIsAccountedFor'
  BY JobsUntouched DEF PairDone
<1>8. QED
  BY <1>1, <1>2, <1>3, <1>4, <1>5, <1>6, <1>7 DEF IInv

\* retry loads the entry, or gives it up when a file changed.
LEMMA LoadStep ==
    ASSUME IInv, Load
    PROVE  IInv'
<1>1. TypeInv'
  BY EntryHasKey DEF IInv, TypeInv, TypeOK, Load, FileChanged, Abandon
<1>2. EntryInv'
  BY DEF IInv, EntryInv, Load, FileChanged, Abandon
<1>3. StartInv'
  BY DEF IInv, StartInv, Load, FileChanged, Abandon
<1>4. PairInv'
  BY DEF IInv, PairInv, Load, FileChanged, Abandon
<1>5. ResumeInv'
  BY DEF IInv, ResumeInv, Load, FileChanged, Abandon
<1>6. OperationKeepsDevice'
  BY DEF IInv, OperationKeepsDevice, Superseded, Replaced, Load, FileChanged, Abandon
<1>7. CheckpointBehindServer' /\ ApprovedContentOnly' /\ SubmittedIsAccountedFor'
  BY KeyAccounted, EntryHasKey DEF Load, FileChanged, Abandon
<1>8. QED
  BY <1>1, <1>2, <1>3, <1>4, <1>5, <1>6, <1>7 DEF IInv

\* A changed file ends the operation.
LEMMA VerifyFailsStep ==
    ASSUME IInv, VerifyFails
    PROVE  IInv'
<1>1. TypeInv'
  BY EntryHasKey DEF IInv, TypeInv, TypeOK, ResumeInv, VerifyFails, In, FileChanged,
     Abandon
<1>2. EntryInv'
  BY DEF IInv, EntryInv, VerifyFails, FileChanged, Abandon
<1>3. StartInv'
  BY DEF IInv, StartInv, VerifyFails, FileChanged, Abandon
<1>4. PairInv'
  BY DEF IInv, PairInv, VerifyFails, FileChanged, Abandon
<1>5. ResumeInv'
  BY DEF IInv, ResumeInv, VerifyFails, FileChanged, Abandon
<1>6. OperationKeepsDevice'
  BY DEF IInv, OperationKeepsDevice, Superseded, Replaced, VerifyFails, FileChanged,
     Abandon
<1>7. CheckpointBehindServer' /\ ApprovedContentOnly' /\ SubmittedIsAccountedFor'
  BY KeyAccounted, EntryHasKey DEF IInv, ResumeInv, VerifyFails, In, FileChanged, Abandon
<1>8. QED
  BY <1>1, <1>2, <1>3, <1>4, <1>5, <1>6, <1>7 DEF IInv

\* The result is printed while it is still on disk.
LEMMA PrintResultStep ==
    ASSUME IInv, PrintResult
    PROVE  IInv'
<1>1. TypeInv'
  BY EntryHasKey DEF IInv, TypeInv, TypeOK, ResumeInv, PrintResult
<1>2. EntryInv'
  BY DEF IInv, EntryInv, PrintResult
<1>3. StartInv'
  BY DEF IInv, StartInv, PrintResult
<1>4. PairInv'
  BY DEF IInv, PairInv, PrintResult
<1>5. ResumeInv'
  BY DEF IInv, ResumeInv, PrintResult
<1>6. OperationKeepsDevice'
  BY DEF IInv, OperationKeepsDevice, Superseded, Replaced, PrintResult
<1>7. CheckpointBehindServer' /\ ApprovedContentOnly' /\ SubmittedIsAccountedFor'
  BY KeyAccounted DEF PrintResult
<1>8. QED
  BY <1>1, <1>2, <1>3, <1>4, <1>5, <1>6, <1>7 DEF IInv

\* The entry goes after it was reported.
LEMMA DropEntryStep ==
    ASSUME IInv, DropEntry
    PROVE  IInv'
<1>1. TypeInv'
  BY DEF IInv, TypeInv, TypeOK, DropEntry
<1>2. EntryInv'
  BY DEF IInv, EntryInv, DropEntry
<1>3. StartInv'
  BY DEF IInv, StartInv, DropEntry
<1>4. PairInv'
  BY DEF IInv, PairInv, DropEntry
<1>5. ResumeInv'
  BY DEF IInv, ResumeInv, DropEntry
<1>6. OperationKeepsDevice'
  BY DEF IInv, OperationKeepsDevice, Superseded, Replaced, DropEntry
<1>7. CheckpointBehindServer' /\ ApprovedContentOnly' /\ SubmittedIsAccountedFor'
  BY KeyAccounted DEF IInv, ResumeInv, DropEntry
<1>8. QED
  BY <1>1, <1>2, <1>3, <1>4, <1>5, <1>6, <1>7 DEF IInv

\* A local file is edited.
LEMMA ChangeFilesStep ==
    ASSUME IInv, ChangeFiles
    PROVE  IInv'
<1>1. TypeInv'
  BY DEF IInv, TypeInv, TypeOK, ChangeFiles
<1>2. EntryInv'
  BY DEF IInv, EntryInv, ChangeFiles
<1>3. StartInv'
  BY DEF IInv, StartInv, ChangeFiles
<1>4. PairInv'
  BY DEF IInv, PairInv, StartInv, Superseded, Replaced, ChangeFiles
<1>5. ResumeInv'
  BY DEF IInv, ResumeInv, StartInv, EntryJob, Uploading, Completing, ChangeFiles
<1>6. OperationKeepsDevice'
  BY DEF IInv, OperationKeepsDevice, Superseded, Replaced, ChangeFiles
<1>7. CheckpointBehindServer' /\ ApprovedContentOnly' /\ SubmittedIsAccountedFor'
  BY JobsUntouched DEF ChangeFiles
<1>8. QED
  BY <1>1, <1>2, <1>3, <1>4, <1>5, <1>6, <1>7 DEF IInv

\* The new credential replaces the one the marker names.
LEMMA PairStoreStep ==
    ASSUME IInv, PairStore
    PROVE  IInv'
<1>1. hand \in Tokens /\ hand # cred /\ hand # None
  BY ConnectorAssumptions DEF IInv, PairInv, PairStore
<1>2. outbox # None => /\ replacement # None
                       /\ replacement.old = cred /\ replacement.key = outbox.key
  <2> SUFFICES ASSUME outbox # None
               PROVE  /\ replacement # None
                      /\ replacement.old = cred /\ replacement.key = outbox.key
    OBVIOUS
  <2>1. replacement = [old |-> cred, key |-> outbox.key]
    BY DEF IInv, PairInv, PairStore
  <2>2. replacement \in Marker
    BY <2>1, EntryHasKey DEF IInv, TypeInv, TypeOK, Marker
  <2>3. QED
    BY <2>1, <2>2, ConnectorAssumptions
<1>3. TypeInv'
  BY DEF IInv, TypeInv, TypeOK, PairStore
<1>4. EntryInv' /\ StartInv' /\ ResumeInv'
  BY DEF IInv, EntryInv, StartInv, ResumeInv, PairStore
<1>5. PairInv' /\ OperationKeepsDevice'
  BY <1>1, <1>2 DEF PairInv, OperationKeepsDevice, Superseded, Replaced, PairStore
<1>6. CheckpointBehindServer' /\ ApprovedContentOnly' /\ SubmittedIsAccountedFor'
  BY JobsUntouched DEF PairStore
<1>7. QED
  BY <1>3, <1>4, <1>5, <1>6 DEF IInv

\* The next credential of the same device is stored.
LEMMA StoreStep ==
    ASSUME IInv, Store
    PROVE  IInv'
<1>1. /\ hand \in Tokens /\ cred \in Tokens /\ hand[1] = cred[1]
      /\ hand # None /\ cred # None /\ replacement = None
  BY ConnectorAssumptions DEF IInv, StartInv, ResumeInv, Store
<1>2. DeviceOf(hand) = DeviceOf(cred) /\ DeviceOf(hand) = hand[1]
  BY <1>1 DEF DeviceOf
<1>3. outbox # None => outbox.device = hand[1]
  BY <1>1, <1>2 DEF IInv, OperationKeepsDevice
<1>4. TypeInv'
  BY DEF IInv, TypeInv, TypeOK, Store
<1>5. EntryInv' /\ StartInv' /\ PairInv'
  BY DEF IInv, EntryInv, StartInv, PairInv, Store
<1>6. ResumeInv'
  BY <1>1, <1>3 DEF IInv, ResumeInv, Store
<1>7. OperationKeepsDevice'
  BY <1>2, <1>3 DEF OperationKeepsDevice, DeviceOf, Store
<1>8. CheckpointBehindServer' /\ ApprovedContentOnly' /\ SubmittedIsAccountedFor'
  BY JobsUntouched DEF Store
<1>9. QED
  BY <1>4, <1>5, <1>6, <1>7, <1>8 DEF IInv

\* The device is new, so the entry is not of it and every serial is free.
LEMMA PairCallStep ==
    ASSUME IInv, PairCall
    PROVE  IInv'
<1>1. PICK d \in Devices : d = NewDevice /\ Unknown(d)
  BY DEF PairCall, NewDevice
<1>2. PICK t \in Tokens : t = NewToken(d) /\ t[1] = d
  <2>1. PICK n \in Serials : TRUE
    BY ConnectorAssumptions
  <2>2. <<d, n>> \in Tokens /\ DeviceOf(<<d, n>>) = d
    BY ConnectorAssumptions DEF DeviceOf
  <2>3. <<d, n>> \notin Held
    BY <1>1, <2>2 DEF Unknown
  <2>4. NewToken(d) \in Tokens /\ NewToken(d)[1] = d
    BY <2>3 DEF NewToken
  <2>5. QED
    BY <2>4
<1>3. t # cred
  BY <1>1, <1>2, ConnectorAssumptions DEF Unknown, Held, DeviceOf
<1>4. Issue(t, {}) /\ (outbox # None => outbox.device # t[1])
  BY <1>1, <1>2 DEF PairCall, Unknown
<1>5. /\ live' \subseteq Tokens /\ hand' = t
      /\ job' \in [Devices \X Keys -> Job \cup {None}]
      /\ CheckpointBehindServer' /\ ApprovedContentOnly' /\ SubmittedIsAccountedFor'
  BY <1>4, TokenIssued DEF PairCall
<1>6. TypeInv'
  BY <1>5 DEF IInv, TypeInv, TypeOK, PairCall
<1>7. EntryInv' /\ StartInv' /\ ResumeInv'
  BY DEF IInv, EntryInv, StartInv, ResumeInv, PairCall
<1>8. PairInv'
  BY <1>3, <1>5 DEF IInv, PairInv, PairCall
<1>9. OperationKeepsDevice'
  BY DEF IInv, OperationKeepsDevice, Superseded, Replaced, PairCall
<1>10. QED
  BY <1>5, <1>6, <1>7, <1>8, <1>9 DEF IInv

\* Only the credential is written anywhere, so that another serial is free.
LEMMA RefreshStep ==
    ASSUME IInv, Refresh
    PROVE  IInv'
<1>1. cred \in Tokens /\ cred # None
  BY ConnectorAssumptions DEF IInv, TypeInv, TypeOK, Refresh
<1>2. Held = {cred, None}
  BY DEF IInv, StartInv, Refresh, Held
<1>3. DeviceOf(cred) = cred[1] /\ cred[1] \in Devices /\ cred[2] \in Serials
      /\ cred = <<cred[1], cred[2]>>
  BY <1>1 DEF DeviceOf
<1>4. PICK t \in Tokens : t = NewToken(DeviceOf(cred)) /\ t[1] = cred[1]
  <2>1. PICK n \in Serials : n # cred[2]
    BY <1>3, ConnectorAssumptions
  <2>2. <<cred[1], n>> \in Tokens
    BY <1>3
  <2>3. <<cred[1], n>> \notin Held
    BY <1>2, <1>3, <2>1, <2>2, ConnectorAssumptions
  <2>4. NewToken(cred[1]) \in Tokens /\ NewToken(cred[1])[1] = cred[1]
    BY <1>3, <2>3 DEF NewToken
  <2>5. QED
    BY <1>3, <2>4
<1>5. Issue(t, {cred})
  BY <1>4 DEF Refresh
<1>6. /\ live' \subseteq Tokens /\ hand' = t
      /\ job' \in [Devices \X Keys -> Job \cup {None}]
      /\ CheckpointBehindServer' /\ ApprovedContentOnly' /\ SubmittedIsAccountedFor'
  BY <1>5, TokenIssued DEF Refresh
<1>7. TypeInv'
  BY <1>6 DEF IInv, TypeInv, TypeOK, Refresh
<1>8. EntryInv' /\ StartInv' /\ PairInv'
  BY DEF IInv, EntryInv, StartInv, PairInv, Refresh
<1>9. ResumeInv'
  BY <1>1, <1>4, <1>6 DEF IInv, ResumeInv, Refresh
<1>10. OperationKeepsDevice'
  BY DEF IInv, OperationKeepsDevice, Superseded, Replaced, Refresh
<1>11. QED
  BY <1>6, <1>7, <1>8, <1>9, <1>10 DEF IInv

\* A new entry claims nothing, and the key is new.
LEMMA OpenStep ==
    ASSUME IInv, Open
    PROVE  IInv'
<1>1. CASE outbox # None
  BY <1>1, Ends DEF Open
<1>2. CASE outbox = None
  <2>1. PICK k \in Keys : k = FreshKey
    <3>1. \E k \in Keys : k \notin used
      BY DEF IInv, TypeInv, TypeOK, StartInv, Open
    <3>2. QED
      BY <3>1 DEF FreshKey
  <2>2. DeviceOf(cred) \in Devices \cup {None}
    BY DEF IInv, TypeInv, TypeOK, DeviceOf
  <2>3. /\ outbox' = [key |-> k, phase |-> "CREATE", device |-> DeviceOf(cred),
                      parts |-> [a \in Attachments |-> 0], completed |-> {}]
        /\ used' = used \cup {k}
    BY <1>2, <2>1 DEF Open
  <2>4. outbox' \in Entry
    BY <2>2, <2>3 DEF Entry, Phase
  <2>5. /\ outbox' # None /\ outbox'.phase = "CREATE" /\ outbox'.device = DeviceOf(cred)
        /\ outbox'.parts = [a \in Attachments |-> 0] /\ outbox'.completed = {}
    BY <2>3, <2>4, ConnectorAssumptions
  <2>6. /\ pc = "open" /\ pc' = "refresh" /\ content' = "approved"
        /\ UNCHANGED <<replacement, pairing, cred, hand, access, cmd, live, job, reported,
                       abandoned>>
    BY <1>2 DEF Open
  <2>7. TypeInv'
    BY <2>3, <2>4, <2>6 DEF IInv, TypeInv, TypeOK
  <2>8. EntryInv'
    BY <2>5 DEF EntryInv
  <2>9. StartInv' /\ PairInv'
    BY <2>6 DEF IInv, StartInv, PairInv
  <2>10. ResumeInv'
    BY <2>5, <2>6 DEF ResumeInv
  <2>11. OperationKeepsDevice'
    BY <2>5, <2>6 DEF OperationKeepsDevice, DeviceOf
  <2>12. CheckpointBehindServer'
    BY <2>5, BehindEntry
  <2>13. ApprovedContentOnly'
    BY <2>6 DEF IInv, ApprovedContentOnly
  <2>14. SubmittedIsAccountedFor'
    BY <1>2, <2>6 DEF IInv, SubmittedIsAccountedFor
  <2>15. QED
    BY <2>7, <2>8, <2>9, <2>10, <2>11, <2>12, <2>13, <2>14 DEF IInv
<1>3. QED
  BY <1>1, <1>2

\* The URL of a part is asked for.
LEMMA PartUrlStep ==
    ASSUME IInv, NEW a \in Attachments, PartUrl(a)
    PROVE  IInv'
<1>1. TypeInv'
  BY DEF IInv, TypeInv, TypeOK, PartUrl, In
<1>2. EntryInv'
  BY DEF IInv, EntryInv, PartUrl, In
<1>3. StartInv'
  BY DEF IInv, StartInv, PartUrl, In
<1>4. PairInv'
  BY DEF IInv, PairInv, PartUrl, In
<1>5. ResumeInv'
  BY DEF IInv, ResumeInv, PartUrl, In
<1>6. OperationKeepsDevice'
  BY DEF IInv, OperationKeepsDevice, Superseded, Replaced, PartUrl, In
<1>7. CheckpointBehindServer' /\ ApprovedContentOnly' /\ SubmittedIsAccountedFor'
  BY JobsUntouched DEF PartUrl, In
<1>8. QED
  BY <1>1, <1>2, <1>3, <1>4, <1>5, <1>6, <1>7 DEF IInv

-----------------------------------------------------------------------------
(* The steps of _resume.                                                   *)

\* While the entry is worked on, the token reaches the job the entry is about.
LEMMA AtWork ==
    ASSUME IInv, pc \in Transfer
    PROVE  /\ outbox \in Entry /\ outbox # None /\ outbox.phase # "EVIDENCE"
           /\ replacement = None
           /\ outbox.device \in Devices /\ outbox.key \in Keys
           /\ Here = <<outbox.device, outbox.key>> /\ Here \in Devices \X Keys
           /\ job[Here] = EntryJob
<1>1. outbox # None /\ outbox.phase # "EVIDENCE" /\ access \in Tokens
      /\ outbox.device = access[1] /\ replacement = None
  BY DEF IInv, ResumeInv, StartInv
<1>2. DeviceOf(access) = access[1] /\ access[1] \in Devices
  BY <1>1, ConnectorAssumptions DEF DeviceOf
<1>3. QED
  BY <1>1, <1>2, EntryHasKey DEF Here, EntryJob

\* A checkpoint that claims no more than the job has.
LEMMA Saved ==
    ASSUME IInv, pc \in Transfer, NEW e \in Entry, Save(e),
           e.key = outbox.key, e.device = outbox.device, e.phase # "CREATE",
           outbox.phase = "SUBMIT" => e.phase \in {"SUBMIT", "EVIDENCE"},
           Behind(e, EntryJob)
    PROVE  /\ outbox' = e /\ outbox' # None
           /\ EntryInv' /\ OperationKeepsDevice' /\ CheckpointBehindServer'
           /\ ApprovedContentOnly' /\ SubmittedIsAccountedFor'
<1>1. outbox' = e /\ e # None
  BY ConnectorAssumptions DEF Save
<1>2. EntryInv'
  BY <1>1, AtWork DEF EntryInv, Save
<1>3. OperationKeepsDevice'
  <2>1. outbox.device = DeviceOf(cred)
    BY AtWork DEF IInv, OperationKeepsDevice
  <2>2. QED
    BY <1>1, <2>1 DEF OperationKeepsDevice, DeviceOf, Save
<1>4. CheckpointBehindServer'
  <2>1. EntryJob' = EntryJob
    BY <1>1 DEF EntryJob, Save
  <2>2. QED
    BY <1>1, <2>1, BehindEntry
<1>5. ApprovedContentOnly'
  BY DEF IInv, ApprovedContentOnly, Save
<1>6. SubmittedIsAccountedFor'
  BY <1>1, AtWork DEF IInv, SubmittedIsAccountedFor, Save
<1>7. QED
  BY <1>1, <1>2, <1>3, <1>4, <1>5, <1>6

\* create_job makes the entry's job, or finds it untouched.
LEMMA CreateStep ==
    ASSUME IInv, Create
    PROVE  IInv'
<1>1. pc = "resume" /\ outbox.phase = "CREATE" /\ pc \in Transfer
  BY DEF Create, In
<1>2. NewJob \in Job /\ NewJob # None /\ ~NewJob.submitted
      /\ \A a \in Attachments, n \in Parts : NewJob.stored[a][n] # "changed"
  <2>1. NewJob \in Job
    BY DEF NewJob, Job
  <2>2. QED
    BY <2>1, ConnectorAssumptions DEF NewJob
<1>3. \/ UNCHANGED job /\ job[Here] # None
      \/ job[Here] = None /\ job' = [job EXCEPT ![Here] = NewJob]
  BY DEF Create
<1>4. job \in [Devices \X Keys -> Job \cup {None}] /\ Here \in Devices \X Keys
  BY <1>1, AtWork DEF IInv, TypeInv, TypeOK
<1>5. job' \in [Devices \X Keys -> Job \cup {None}] /\ job'[Here] # None
  BY <1>2, <1>3, <1>4
<1>6. \A o \in Devices \X Keys : job'[o] = job[o] \/ job'[o] = NewJob
  BY <1>3, <1>4
<1>7. TypeInv'
  BY <1>5 DEF IInv, TypeInv, TypeOK, Create
<1>8. EntryInv' /\ StartInv' /\ PairInv'
  BY <1>1 DEF IInv, EntryInv, StartInv, PairInv, Create
<1>9. ResumeInv'
  <2>1. EntryJob' # None
    BY <1>1, <1>5, AtWork DEF EntryJob, Create
  <2>2. QED
    BY <1>1, <2>1 DEF IInv, ResumeInv, Create
<1>10. OperationKeepsDevice'
  BY DEF IInv, OperationKeepsDevice, Superseded, Replaced, Create
<1>11. CheckpointBehindServer'
  BY <1>1, BehindEntry DEF Create
<1>12. ApprovedContentOnly'
  BY <1>2, <1>6 DEF IInv, ApprovedContentOnly
<1>13. SubmittedIsAccountedFor'
  BY <1>2, <1>6, NothingSubmitted DEF Create
<1>14. QED
  BY <1>7, <1>8, <1>9, <1>10, <1>11, <1>12, <1>13 DEF IInv

\* The entry is bound to a job that exists.
LEMMA BindStep ==
    ASSUME IInv, Bind
    PROVE  IInv'
<1>1. pc \in Transfer /\ outbox.phase = "CREATE" /\ EntryJob # None
      /\ outbox.parts = [a \in Attachments |-> 0] /\ outbox.completed = {}
  BY AtWork DEF IInv, ResumeInv, EntryInv, Bind
<1>2. PICK e : e = [outbox EXCEPT !.phase = "UPLOAD"]
  OBVIOUS
<1>3. /\ e \in Entry /\ e.key = outbox.key /\ e.device = outbox.device
      /\ e.phase = "UPLOAD" /\ e.parts = outbox.parts /\ e.completed = outbox.completed
  BY <1>1, <1>2, AtWork DEF Entry, Phase
<1>4. Behind(e, EntryJob)
  BY <1>1, <1>3 DEF Behind
<1>5. /\ outbox' = e /\ outbox' # None
      /\ EntryInv' /\ OperationKeepsDevice' /\ CheckpointBehindServer'
      /\ ApprovedContentOnly' /\ SubmittedIsAccountedFor'
  BY <1>1, <1>2, <1>3, <1>4, Saved DEF Bind
<1>6. TypeInv'
  BY <1>3, <1>5 DEF IInv, TypeInv, TypeOK, Bind, Save
<1>7. StartInv' /\ PairInv'
  BY DEF IInv, StartInv, PairInv, Bind, Save
<1>8. ResumeInv'
  BY <1>1, <1>3, <1>5 DEF IInv, ResumeInv, Bind, Save
<1>9. QED
  BY <1>5, <1>6, <1>7, <1>8 DEF IInv

\* The part is on the server before it is in the entry.
LEMMA PutPartStep ==
    ASSUME IInv, NEW a \in Attachments, PutPart(a)
    PROVE  IInv'
<1>1. /\ pc = "put" /\ pc \in Transfer /\ outbox.phase = "UPLOAD" /\ content = "approved"
      /\ outbox \in Entry /\ Here \in Devices \X Keys
      /\ Here = <<outbox.device, outbox.key>> /\ job[Here] = EntryJob
  BY AtWork DEF IInv, ResumeInv, PutPart, DigestMatches
<1>2. EntryJob # None
  BY <1>1, AtWork, BehindEntry DEF IInv, Behind
<1>3. job \in [Devices \X Keys -> Job \cup {None}] /\ job[Here] \in Job
  BY <1>1, <1>2 DEF IInv, TypeInv, TypeOK
<1>4. PICK n \in Parts : n = outbox.parts[a] + 1
  BY <1>1, ConnectorAssumptions DEF PutPart, Uploading, Entry, Parts
<1>5. PICK j : j = [job[Here] EXCEPT !.stored[a][n] = "approved"]
  OBVIOUS
<1>6. job' = [job EXCEPT ![Here] = j]
  BY <1>1, <1>4, <1>5 DEF PutPart
<1>7. j \in Job /\ j.submitted = job[Here].submitted /\ j.file = job[Here].file
  BY <1>3, <1>5 DEF Job
<1>8. \A b \in Attachments, m \in Parts :
          j.stored[b][m] = IF b = a /\ m = n THEN "approved" ELSE job[Here].stored[b][m]
  BY <1>3, <1>5 DEF Job
<1>9. Keeps(job[Here], j)
  BY <1>7, <1>8, ConnectorAssumptions DEF Keeps
<1>10. /\ job' \in [Devices \X Keys -> Job \cup {None}]
       /\ CheckpointBehindServer' /\ ApprovedContentOnly'
  BY <1>1, <1>2, <1>6, <1>7, <1>9, JobGrows DEF PutPart
<1>11. SubmittedIsAccountedFor'
  BY <1>1, <1>2, <1>3, <1>6, <1>7, NothingSubmitted DEF PutPart
<1>12. TypeInv'
  BY <1>10 DEF IInv, TypeInv, TypeOK, PutPart
<1>13. EntryInv' /\ StartInv' /\ PairInv'
  BY DEF IInv, EntryInv, StartInv, PairInv, PutPart
<1>14. ResumeInv'
  <2>1. \A b \in Attachments : Uploading(b)' => b = a
    <3> SUFFICES ASSUME NEW b \in Attachments, Uploading(b)'
                 PROVE  b = a
      OBVIOUS
    <3>1. Uploading(b) /\ Uploading(a)
      BY DEF Uploading, PutPart
    <3>2. QED
      BY <3>1, ConnectorAssumptions DEF Uploading, Attachments
  <2>2. EntryJob' = j
    BY <1>1, <1>3, <1>6 DEF EntryJob, PutPart
  <2>3. EntryJob'.stored[a][outbox.parts[a] + 1] # None
    BY <1>4, <1>8, <2>2, ConnectorAssumptions
  <2>4. QED
    BY <1>1, <2>1, <2>3 DEF IInv, ResumeInv, PutPart
<1>15. OperationKeepsDevice'
  BY DEF IInv, OperationKeepsDevice, Superseded, Replaced, PutPart
<1>16. QED
  BY <1>10, <1>11, <1>12, <1>13, <1>14, <1>15 DEF IInv

\* The part that was stored is recorded.
LEMMA PartSaveStep ==
    ASSUME IInv, NEW a \in Attachments, PartSave(a)
    PROVE  IInv'
<1>1. /\ pc = "partSave" /\ pc \in Transfer /\ outbox.phase = "UPLOAD" /\ outbox \in Entry
      /\ outbox.parts[a] < PartCount
      /\ EntryJob.stored[a][outbox.parts[a] + 1] # None
  BY AtWork DEF IInv, ResumeInv, PartSave, Uploading
<1>2. Behind(outbox, EntryJob)
  BY <1>1, AtWork, BehindEntry DEF IInv
<1>3. PICK e : e = [outbox EXCEPT !.parts[a] = @ + 1]
  OBVIOUS
<1>4. outbox.parts \in [Attachments -> Parts \cup {0}] /\ outbox.parts[a] + 1 \in Parts
  BY <1>1, ConnectorAssumptions DEF Entry, Parts
<1>5. /\ e \in Entry /\ e.key = outbox.key /\ e.device = outbox.device
      /\ e.phase = "UPLOAD" /\ e.completed = outbox.completed
      /\ e.parts = [outbox.parts EXCEPT ![a] = outbox.parts[a] + 1]
  BY <1>1, <1>3, <1>4 DEF Entry, Phase
<1>6. Behind(e, EntryJob)
  <2>1. \A b \in Attachments : \A n \in 1 .. e.parts[b] :
            n \in 1 .. outbox.parts[b] \/ (b = a /\ n = outbox.parts[a] + 1)
    BY <1>4, <1>5, ConnectorAssumptions DEF Parts
  <2>2. QED
    BY <1>1, <1>2, <1>5, <2>1 DEF Behind
<1>7. /\ outbox' = e /\ outbox' # None
      /\ EntryInv' /\ OperationKeepsDevice' /\ CheckpointBehindServer'
      /\ ApprovedContentOnly' /\ SubmittedIsAccountedFor'
  BY <1>1, <1>3, <1>5, <1>6, Saved DEF PartSave
<1>8. TypeInv'
  BY <1>5, <1>7 DEF IInv, TypeInv, TypeOK, PartSave, Save
<1>9. StartInv' /\ PairInv'
  BY DEF IInv, StartInv, PairInv, PartSave, Save
<1>10. ResumeInv'
  BY <1>1, <1>5, <1>7 DEF IInv, ResumeInv, PartSave, Save
<1>11. QED
  BY <1>7, <1>8, <1>9, <1>10 DEF IInv

\* The attachment is no longer uploading before it is recorded as complete.
LEMMA CompleteStep ==
    ASSUME IInv, NEW a \in Attachments, Complete(a)
    PROVE  IInv'
<1>1. /\ pc = "resume" /\ pc \in Transfer /\ outbox.phase = "UPLOAD"
      /\ Here \in Devices \X Keys /\ Here = <<outbox.device, outbox.key>>
      /\ job[Here] = EntryJob /\ job[Here] # None
  BY AtWork DEF IInv, ResumeInv, Complete, In, Reached
<1>2. job \in [Devices \X Keys -> Job \cup {None}] /\ job[Here] \in Job
  BY <1>1 DEF IInv, TypeInv, TypeOK
<1>3. /\ job' \in [Devices \X Keys -> Job \cup {None}]
      /\ CheckpointBehindServer' /\ ApprovedContentOnly' /\ SubmittedIsAccountedFor'
      /\ EntryJob'.file[a] # "UPLOADING"
  <2>1. CASE job[Here].file[a] # "UPLOADING" /\ UNCHANGED job
    BY <1>1, <1>2, <2>1, JobsUntouched DEF Complete, EntryJob
  <2>2. CASE job' = [job EXCEPT ![Here].file[a] = "QUARANTINED"]
    <3>1. PICK j : j = [job[Here] EXCEPT !.file[a] = "QUARANTINED"]
      OBVIOUS
    <3>2. job' = [job EXCEPT ![Here] = j]
      BY <2>2, <3>1
    <3>3. j \in Job /\ j.submitted = job[Here].submitted /\ j.stored = job[Here].stored
      BY <1>2, <3>1 DEF Job
    <3>4. \A b \in Attachments :
              j.file[b] = IF b = a THEN "QUARANTINED" ELSE job[Here].file[b]
      BY <1>2, <3>1 DEF Job
    <3>5. Keeps(job[Here], j)
      BY <3>3, <3>4 DEF Keeps
    <3>6. /\ job' \in [Devices \X Keys -> Job \cup {None}]
          /\ CheckpointBehindServer' /\ ApprovedContentOnly'
      BY <1>1, <3>2, <3>3, <3>5, JobGrows DEF Complete
    <3>7. SubmittedIsAccountedFor'
      BY <1>1, <1>2, <3>2, <3>3, NothingSubmitted DEF Complete
    <3>8. EntryJob' = j
      BY <1>1, <1>2, <3>2 DEF EntryJob, Complete
    <3>9. QED
      BY <3>4, <3>6, <3>7, <3>8
  <2>3. QED
    BY <2>1, <2>2 DEF Complete
<1>4. TypeInv'
  BY <1>3 DEF IInv, TypeInv, TypeOK, Complete
<1>5. EntryInv' /\ StartInv' /\ PairInv'
  BY <1>1 DEF IInv, EntryInv, StartInv, PairInv, Complete
<1>6. ResumeInv'
  <2>1. \A b \in Attachments : Completing(b)' => b = a
    <3> SUFFICES ASSUME NEW b \in Attachments, Completing(b)'
                 PROVE  b = a
      OBVIOUS
    <3>1. Completing(b) /\ Completing(a)
      BY DEF Completing, Complete
    <3>2. QED
      BY <3>1, ConnectorAssumptions DEF Completing, Attachments
  <2>2. QED
    BY <1>1, <1>3, <2>1 DEF IInv, ResumeInv, Complete
<1>7. OperationKeepsDevice'
  BY DEF IInv, OperationKeepsDevice, Superseded, Replaced, Complete
<1>8. QED
  BY <1>3, <1>4, <1>5, <1>6, <1>7 DEF IInv

\* The attachment that was completed is recorded.
LEMMA CompleteSaveStep ==
    ASSUME IInv, NEW a \in Attachments, CompleteSave(a)
    PROVE  IInv'
<1>1. /\ pc = "completeSave" /\ pc \in Transfer /\ outbox.phase = "UPLOAD"
      /\ outbox \in Entry /\ EntryJob.file[a] # "UPLOADING"
  BY AtWork DEF IInv, ResumeInv, CompleteSave
<1>2. Behind(outbox, EntryJob)
  BY <1>1, AtWork, BehindEntry DEF IInv
<1>3. PICK e : e = [outbox EXCEPT !.completed = @ \cup {a}]
  OBVIOUS
<1>4. /\ e \in Entry /\ e.key = outbox.key /\ e.device = outbox.device
      /\ e.phase = "UPLOAD" /\ e.parts = outbox.parts
      /\ e.completed = outbox.completed \cup {a}
  BY <1>1, <1>3 DEF Entry, Phase
<1>5. Behind(e, EntryJob)
  BY <1>1, <1>2, <1>4 DEF Behind
<1>6. /\ outbox' = e /\ outbox' # None
      /\ EntryInv' /\ OperationKeepsDevice' /\ CheckpointBehindServer'
      /\ ApprovedContentOnly' /\ SubmittedIsAccountedFor'
  BY <1>1, <1>3, <1>4, <1>5, Saved DEF CompleteSave
<1>7. TypeInv'
  BY <1>4, <1>6 DEF IInv, TypeInv, TypeOK, CompleteSave, Save
<1>8. StartInv' /\ PairInv'
  BY DEF IInv, StartInv, PairInv, CompleteSave, Save
<1>9. ResumeInv'
  BY <1>1, <1>4, <1>6 DEF IInv, ResumeInv, CompleteSave, Save
<1>10. QED
  BY <1>6, <1>7, <1>8, <1>9 DEF IInv

\* All attachments are complete.
LEMMA ToSubmitStep ==
    ASSUME IInv, ToSubmit
    PROVE  IInv'
<1>1. pc = "resume" /\ pc \in Transfer /\ outbox.phase = "UPLOAD" /\ outbox \in Entry
  BY AtWork DEF ToSubmit, In
<1>2. PICK e : e = [outbox EXCEPT !.phase = "SUBMIT"]
  OBVIOUS
<1>3. /\ e \in Entry /\ e.key = outbox.key /\ e.device = outbox.device
      /\ e.phase = "SUBMIT" /\ e.parts = outbox.parts /\ e.completed = outbox.completed
  BY <1>1, <1>2 DEF Entry, Phase
<1>4. Behind(e, EntryJob)
  BY <1>1, <1>3, AtWork, BehindEntry DEF IInv, Behind
<1>5. /\ outbox' = e /\ outbox' # None
      /\ EntryInv' /\ OperationKeepsDevice' /\ CheckpointBehindServer'
      /\ ApprovedContentOnly' /\ SubmittedIsAccountedFor'
  BY <1>1, <1>2, <1>3, <1>4, Saved DEF ToSubmit
<1>6. TypeInv'
  BY <1>3, <1>5 DEF IInv, TypeInv, TypeOK, ToSubmit, Save
<1>7. StartInv' /\ PairInv'
  BY <1>1 DEF IInv, StartInv, PairInv, ToSubmit, Save
<1>8. ResumeInv'
  BY <1>1, <1>3, <1>5 DEF IInv, ResumeInv, ToSubmit, Save
<1>9. QED
  BY <1>5, <1>6, <1>7, <1>8 DEF IInv

\* The job that is submitted is the one of the entry.
LEMMA SubmitJobStep ==
    ASSUME IInv, SubmitJob
    PROVE  IInv'
<1>1. /\ pc = "resume" /\ pc \in Transfer /\ outbox.phase = "SUBMIT" /\ outbox # None
      /\ Here \in Devices \X Keys /\ Here = <<outbox.device, outbox.key>>
      /\ job[Here] # None
  BY AtWork DEF SubmitJob, In, Reached
<1>2. job \in [Devices \X Keys -> Job \cup {None}] /\ job[Here] \in Job
  BY <1>1 DEF IInv, TypeInv, TypeOK
<1>3. PICK j : j = [job[Here] EXCEPT !.submitted = TRUE]
  OBVIOUS
<1>4. job' = [job EXCEPT ![Here] = j]
  BY <1>3 DEF SubmitJob
<1>5. j \in Job /\ j.file = job[Here].file /\ j.stored = job[Here].stored
  BY <1>2, <1>3 DEF Job
<1>6. Keeps(job[Here], j)
  BY <1>5 DEF Keeps
<1>7. /\ job' \in [Devices \X Keys -> Job \cup {None}]
      /\ CheckpointBehindServer' /\ ApprovedContentOnly'
  BY <1>1, <1>4, <1>5, <1>6, JobGrows DEF SubmitJob
<1>8. SubmittedIsAccountedFor'
  <2> SUFFICES ASSUME NEW d \in Devices, NEW k \in Keys,
                      job'[<<d, k>>] # None, job'[<<d, k>>].submitted
               PROVE  \/ k \in reported \cup abandoned
                      \/ outbox.key = k
    BY <1>1 DEF SubmittedIsAccountedFor, SubmitJob
  <2>1. CASE <<d, k>> = Here
    BY <1>1, <2>1
  <2>2. CASE <<d, k>> # Here
    <3>1. job'[<<d, k>>] = job[<<d, k>>]
      BY <1>2, <1>4, <2>2
    <3>2. QED
      BY <3>1 DEF IInv, SubmittedIsAccountedFor
  <2>3. QED
    BY <2>1, <2>2
<1>9. TypeInv'
  BY <1>7 DEF IInv, TypeInv, TypeOK, SubmitJob
<1>10. EntryInv' /\ StartInv' /\ PairInv'
  BY <1>1 DEF IInv, EntryInv, StartInv, PairInv, SubmitJob
<1>11. ResumeInv'
  BY <1>1 DEF IInv, ResumeInv, SubmitJob
<1>12. OperationKeepsDevice'
  BY DEF IInv, OperationKeepsDevice, Superseded, Replaced, SubmitJob
<1>13. QED
  BY <1>7, <1>8, <1>9, <1>10, <1>11, <1>12 DEF IInv

\* The result is on disk before it is printed.
LEMMA SaveEvidenceStep ==
    ASSUME IInv, SaveEvidence
    PROVE  IInv'
<1>1. pc = "evidence" /\ pc \in Transfer /\ outbox.phase = "SUBMIT" /\ outbox \in Entry
  BY AtWork DEF IInv, ResumeInv, SaveEvidence
<1>2. PICK e : e = [outbox EXCEPT !.phase = "EVIDENCE"]
  OBVIOUS
<1>3. /\ e \in Entry /\ e.key = outbox.key /\ e.device = outbox.device
      /\ e.phase = "EVIDENCE" /\ e.parts = outbox.parts /\ e.completed = outbox.completed
  BY <1>1, <1>2 DEF Entry, Phase
<1>4. Behind(e, EntryJob)
  BY <1>1, <1>3, AtWork, BehindEntry DEF IInv, Behind
<1>5. /\ outbox' = e /\ outbox' # None
      /\ EntryInv' /\ OperationKeepsDevice' /\ CheckpointBehindServer'
      /\ ApprovedContentOnly' /\ SubmittedIsAccountedFor'
  BY <1>1, <1>2, <1>3, <1>4, Saved DEF SaveEvidence
<1>6. TypeInv'
  BY <1>3, <1>5 DEF IInv, TypeInv, TypeOK, SaveEvidence, Save
<1>7. StartInv' /\ PairInv'
  BY DEF IInv, StartInv, PairInv, SaveEvidence, Save
<1>8. ResumeInv'
  BY <1>1, <1>3, <1>5 DEF IInv, ResumeInv, SaveEvidence, Save
<1>9. QED
  BY <1>5, <1>6, <1>7, <1>8 DEF IInv

-----------------------------------------------------------------------------
(* The OWNER and the janitor.                                              *)

\* A revocation touches sessions only.
LEMMA RevokeStep ==
    ASSUME IInv, NEW d \in Devices, Revoke(d)
    PROVE  IInv'
<1>1. TypeInv'
  BY DEF IInv, TypeInv, TypeOK, Revoke
<1>2. EntryInv' /\ StartInv' /\ PairInv'
  BY DEF IInv, EntryInv, StartInv, PairInv, Superseded, Replaced, Revoke
<1>3. ResumeInv'
  BY DEF IInv, ResumeInv, EntryJob, Uploading, Completing, Revoke
<1>4. OperationKeepsDevice'
  BY DEF IInv, OperationKeepsDevice, Superseded, Replaced, Revoke
<1>5. CheckpointBehindServer' /\ ApprovedContentOnly' /\ SubmittedIsAccountedFor'
  BY JobsUntouched DEF Revoke
<1>6. QED
  BY <1>1, <1>2, <1>3, <1>4, <1>5 DEF IInv

\* An upload that expires takes nothing from what the entry claims.
LEMMA ExpireStep ==
    ASSUME IInv, NEW dk \in Devices \X Keys, NEW a \in Attachments, Expire(dk, a)
    PROVE  IInv'
<1>1. job \in [Devices \X Keys -> Job \cup {None}] /\ job[dk] # None /\ job[dk] \in Job
  BY DEF IInv, TypeInv, TypeOK, Expire
<1>2. PICK j : j = [job[dk] EXCEPT !.file[a] = "FAILED"]
  OBVIOUS
<1>3. job' = [job EXCEPT ![dk] = j]
  BY <1>2 DEF Expire
<1>4. j \in Job /\ j.submitted = job[dk].submitted /\ j.stored = job[dk].stored
  BY <1>1, <1>2 DEF Job
<1>5. \A b \in Attachments : j.file[b] = IF b = a THEN "FAILED" ELSE job[dk].file[b]
  BY <1>1, <1>2 DEF Job
<1>6. Keeps(job[dk], j)
  BY <1>4, <1>5 DEF Keeps
<1>7. /\ job' \in [Devices \X Keys -> Job \cup {None}]
      /\ CheckpointBehindServer' /\ ApprovedContentOnly'
  BY <1>1, <1>3, <1>4, <1>6, JobGrows DEF Expire
<1>8. SubmittedIsAccountedFor'
  BY <1>1, <1>3, <1>4, NothingSubmitted DEF Expire
<1>9. TypeInv'
  BY <1>7 DEF IInv, TypeInv, TypeOK, Expire
<1>10. EntryInv' /\ StartInv' /\ PairInv'
  BY DEF IInv, EntryInv, StartInv, PairInv, Superseded, Replaced, Expire
<1>11. ResumeInv'
  <2>1. CASE pc \in Transfer
    <3>1. \/ EntryJob' = EntryJob
          \/ EntryJob = job[dk] /\ EntryJob' = j
      BY <1>1, <1>3, <2>1, AtWork DEF EntryJob, Expire
    <3>2. j # None
      BY <1>4, ConnectorAssumptions
    <3>3. /\ EntryJob # None => EntryJob' # None
          /\ \A b \in Attachments : /\ EntryJob'.stored[b] = EntryJob.stored[b]
                                    /\ EntryJob.file[b] # "UPLOADING" =>
                                           EntryJob'.file[b] # "UPLOADING"
      BY <1>4, <1>5, <3>1, <3>2
    <3>4. QED
      BY <2>1, <3>3 DEF IInv, ResumeInv, Uploading, Completing, Expire
  <2>2. CASE pc \notin Transfer
    BY <2>2 DEF IInv, ResumeInv, Expire
  <2>3. QED
    BY <2>1, <2>2
<1>12. OperationKeepsDevice'
  BY DEF IInv, OperationKeepsDevice, Superseded, Replaced, Expire
<1>13. QED
  BY <1>7, <1>8, <1>9, <1>10, <1>11, <1>12 DEF IInv

-----------------------------------------------------------------------------
(* The theorems.                                                           *)

\* Wherever a command is interrupted, disk, keyring and server are consistent.
THEOREM Invariance == Spec => []IInv
<1>1. Init => IInv
  <2> SUFFICES ASSUME Init
               PROVE  IInv
    OBVIOUS
  <2>1. TypeInv
    BY DEF Init, TypeInv, TypeOK
  <2>2. EntryInv /\ StartInv /\ PairInv /\ ResumeInv /\ OperationKeepsDevice
    BY DEF Init, EntryInv, StartInv, PairInv, ResumeInv, OperationKeepsDevice
  <2>3. CheckpointBehindServer /\ ApprovedContentOnly /\ SubmittedIsAccountedFor
    BY DEF Init, CheckpointBehindServer, ApprovedContentOnly, SubmittedIsAccountedFor
  <2>4. QED
    BY <2>1, <2>2, <2>3 DEF IInv
<1>2. IInv /\ [Next]_vars => IInv'
  <2> SUFFICES ASSUME IInv, [Next]_vars
               PROVE  IInv'
    OBVIOUS
  <2>1. CASE BeginPair \/ BeginSubmit \/ BeginRetry \/ BeginStatus
    BY <2>1, BeginStep DEF BeginPair, BeginSubmit, BeginRetry, BeginStatus
  <2>2. CASE NothingToRecover \/ RecoverOutbox \/ RecoverMarker
    BY <2>2, NothingToRecoverStep, RecoverOutboxStep, RecoverMarkerStep
  <2>3. CASE PairCheck \/ PairMark \/ PairCall \/ PairStore \/ PairDrop \/ PairDone
    BY <2>3, PairCheckStep, PairMarkStep, PairCallStep, PairStoreStep, PairDropStep,
       PairDoneStep
  <2>4. CASE PairRefused \/ RefreshDenied \/ ReadStatus \/ CallRejected \/ Interrupt
    BY <2>4, Ends DEF PairRefused, RefreshDenied, ReadStatus, CallRejected, Interrupt
  <2>5. CASE Open \/ Load \/ Refresh \/ Store
    BY <2>5, OpenStep, LoadStep, RefreshStep, StoreStep
  <2>6. CASE Create \/ Bind \/ VerifyFails \/ ToSubmit \/ SubmitJob
    BY <2>6, CreateStep, BindStep, VerifyFailsStep, ToSubmitStep, SubmitJobStep
  <2>7. CASE \E a \in Attachments :
                PartUrl(a) \/ PutPart(a) \/ PartSave(a) \/ Complete(a) \/ CompleteSave(a)
    BY <2>7, PartUrlStep, PutPartStep, PartSaveStep, CompleteStep, CompleteSaveStep
  <2>8. CASE SaveEvidence \/ PrintResult \/ DropEntry
    BY <2>8, SaveEvidenceStep, PrintResultStep, DropEntryStep
  <2>9. CASE Environment
    BY <2>9, ChangeFilesStep, RevokeStep, ExpireStep DEF Environment
  <2>10. CASE UNCHANGED vars
    <3>1. TypeInv'
      BY <2>10 DEF vars, IInv, TypeInv, TypeOK
    <3>2. EntryInv' /\ StartInv' /\ PairInv'
      BY <2>10 DEF vars, IInv, EntryInv, StartInv, PairInv, Superseded, Replaced
    <3>3. ResumeInv'
      BY <2>10 DEF vars, IInv, ResumeInv, EntryJob, Uploading, Completing
    <3>4. OperationKeepsDevice'
      BY <2>10 DEF vars, IInv, OperationKeepsDevice, Superseded, Replaced
    <3>5. QED
      BY <2>10, <3>1, <3>2, <3>3, <3>4, JobsUntouched DEF vars, IInv
  <2>11. QED
    BY <2>1, <2>2, <2>3, <2>4, <2>5, <2>6, <2>7, <2>8, <2>9, <2>10
    DEF Next, Uninterrupted, CommandStep
<1>3. QED
  BY <1>1, <1>2, PTL DEF Spec

\* Disk, command and server keep their types; in particular a free serial and a
\* free key are found whenever one is needed.
THEOREM TypeCorrect == Spec => []TypeOK
<1>1. IInv => TypeOK
  BY DEF IInv, TypeInv
<1>2. QED
  BY <1>1, Invariance, PTL

\* cli.py, pair and _recover_replacement: an interrupted pairing never leaves an
\* operation to the new device without the marker that gives it up.
THEOREM DeviceKept == Spec => []OperationKeepsDevice
<1>1. IInv => OperationKeepsDevice
  BY DEF IInv
<1>2. QED
  BY <1>1, Invariance, PTL

\* cli.py, _resume: whatever write or answer is lost, the entry on disk claims no
\* more than the server has.
THEOREM NeverAhead == Spec => []CheckpointBehindServer
<1>1. IInv => CheckpointBehindServer
  BY DEF IInv
<1>2. QED
  BY <1>1, Invariance, PTL

\* _read_part: only bytes that hash to what was approved reach the server.
THEOREM NothingUnapproved == Spec => []ApprovedContentOnly
<1>1. IInv => ApprovedContentOnly
  BY DEF IInv
<1>2. QED
  BY <1>1, Invariance, PTL

\* A job the server took is reported, can be, or was given up.
THEOREM Accounted == Spec => []SubmittedIsAccountedFor
<1>1. IInv => SubmittedIsAccountedFor
  BY DEF IInv
<1>2. QED
  BY <1>1, Invariance, PTL

\* A result on disk is forgotten only after it was printed, whatever the step.
THEOREM NeverForgotten == Spec => ReportedBeforeForgotten
<1> DEFINE Forgets == outbox # None /\ outbox.phase = "EVIDENCE" /\ outbox' # outbox
           Told == outbox' = None /\ outbox.key \in reported
<1>1. ASSUME IInv, Next, Forgets
      PROVE  Told
  <2>1. replacement = None
    BY <1>1 DEF IInv, EntryInv
  <2>2. pc \notin Transfer
    BY <1>1, AtWork
  <2>3. ~PairDrop /\ ~RecoverOutbox
    BY <1>1, <2>1 DEF IInv, PairInv, PairDrop, RecoverOutbox
  <2>4. ~(Create \/ Bind \/ VerifyFails \/ ToSubmit \/ SubmitJob \/ SaveEvidence)
    BY <2>2 DEF Create, Bind, VerifyFails, ToSubmit, SubmitJob, SaveEvidence, In
  <2>5. \A a \in Attachments : ~(PartSave(a) \/ CompleteSave(a))
    BY <2>2 DEF PartSave, CompleteSave
  <2>6. CASE DropEntry
    BY <1>1, <2>6 DEF IInv, ResumeInv, DropEntry
  <2>7. \/ DropEntry
        \/ UNCHANGED outbox
    <3>1. CASE BeginPair \/ BeginSubmit \/ BeginRetry \/ BeginStatus
      BY <3>1 DEF BeginPair, BeginSubmit, BeginRetry, BeginStatus, Begin
    <3>2. CASE Environment
      BY <3>2 DEF Environment, ChangeFiles, Revoke, Expire
    <3>3. CASE NothingToRecover \/ RecoverMarker \/ PairCheck \/ PairMark \/ PairRefused
                  \/ PairCall \/ PairStore \/ PairDone
      BY <3>3 DEF NothingToRecover, RecoverMarker, PairCheck, PairMark, PairRefused,
         PairCall, PairStore, PairDone
    <3>4. CASE Open \/ Load \/ Refresh \/ RefreshDenied \/ Store \/ ReadStatus
                  \/ CallRejected \/ PrintResult \/ Interrupt
      BY <1>1, <3>4 DEF Open, Load, Refresh, RefreshDenied, Store, ReadStatus,
         CallRejected, PrintResult, Interrupt
    <3>5. CASE \E a \in Attachments : PartUrl(a) \/ PutPart(a) \/ Complete(a)
      BY <3>5 DEF PartUrl, PutPart, Complete
    <3>6. QED
      BY <1>1, <2>3, <2>4, <2>5, <3>1, <3>2, <3>3, <3>4, <3>5
      DEF Next, Uninterrupted, CommandStep
  <2>8. QED
    BY <1>1, <2>6, <2>7
<1>2. IInv /\ [Next]_vars => [Forgets => Told]_vars
  BY <1>1 DEF vars
<1>3. QED
  BY <1>2, Invariance, PTL DEF Spec, ReportedBeforeForgotten

===============================================================================
