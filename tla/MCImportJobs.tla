---------------------------- MODULE MCImportJobs ----------------------------
(* ImportJobs with one key and three manifests for it: one that can be       *)
(* received, one whose base differs from its original, and one that carries *)
(* malware and shares no content with the others.                           *)
EXTENDS ImportJobs, TLC

MCContents == {"text", "raw", "virus"}
MCMalware == {"virus"}
MCDeclared ==
    [m \in Manifests |->
        CASE m = "good"  -> [kind \in {"ORIGINAL", "K3_RAW"} |->
                                IF kind = "ORIGINAL" THEN "text" ELSE "raw"]
          [] m = "stale" -> [kind \in {"ORIGINAL", "K3_RAW"} |-> "raw"]
          [] m = "bad"   -> [kind \in {"ORIGINAL", "K3_RAW"} |->
                                IF kind = "ORIGINAL" THEN None ELSE "virus"]]
MCBaseSha256 == [m \in Manifests |-> IF m = "bad" THEN None ELSE "text"]

\* Requests are interchangeable (safety run only).
MCSymmetry == Permutations(Requests)
=============================================================================
