---------------------------- MODULE FileContract ----------------------------
(***************************************************************************)
(* What the file service promises to the rest of the system, whatever the  *)
(* requests, workers, janitor runs, crashes and late storage calls behind  *)
(* it: a row only moves forward, its final state never changes, and the    *)
(* only content ever offered for download is the declared one, found free  *)
(* of malware by a scan.  FileLifecycle implements this module; ImportJobs  *)
(* is built on it.                                                         *)
(***************************************************************************)
CONSTANTS Files, Contents, Malware, None

VARIABLES
    state,      \* the state column of files
    sha256,     \* the declared content
    published   \* what a download returns: ensure_downloadable admits CLEAN only

fileVars == <<state, sha256, published>>

Init ==
    /\ state = [f \in Files |-> "ABSENT"]
    /\ sha256 = [f \in Files |-> None]
    /\ published = [f \in Files |-> None]

Move(f, from, to) ==
    /\ state[f] = from
    /\ state' = [state EXCEPT ![f] = to]

Start(f, c) ==
    /\ Move(f, "ABSENT", "UPLOADING")
    /\ sha256' = [sha256 EXCEPT ![f] = c]
    /\ UNCHANGED published

\* The size check, or the 24 hour expiry, refuses the upload.
Refuse(f) == Move(f, "UPLOADING", "FAILED") /\ UNCHANGED <<sha256, published>>

Quarantine(f) == Move(f, "UPLOADING", "QUARANTINED") /\ UNCHANGED <<sha256, published>>

Claim(f) == Move(f, "QUARANTINED", "SCANNING") /\ UNCHANGED <<sha256, published>>

Publish(f) ==
    /\ Move(f, "SCANNING", "CLEAN")
    /\ sha256[f] \in Contents \ Malware
    /\ published' = [published EXCEPT ![f] = sha256[f]]
    /\ UNCHANGED sha256

Reject(f) ==
    /\ \/ Move(f, "SCANNING", "INFECTED") /\ sha256[f] \in Malware
       \/ Move(f, "SCANNING", "FAILED")
    /\ UNCHANGED <<sha256, published>>

Next ==
    \E f \in Files :
        \/ \E c \in Contents : Start(f, c)
        \/ Refuse(f) \/ Quarantine(f) \/ Claim(f) \/ Publish(f) \/ Reject(f)

Spec == Init /\ [][Next]_fileVars
=============================================================================
