--------------------------- MODULE MCFileLifecycle ---------------------------
(* FileLifecycle with three contents: a harmless one, malware of the same   *)
(* length, and a truncated one.                                            *)
EXTENDS FileLifecycle, TLC

MCContents == {"good", "virus", "short"}
MCSize == [c \in MCContents |-> IF c = "short" THEN 1 ELSE 2]
MCMalware == {"virus"}

\* Requests, workers and multipart ids are interchangeable (safety runs only).
MCSymmetry ==
    Permutations(Requests) \cup Permutations(Workers) \cup Permutations(Multiparts)
=============================================================================
