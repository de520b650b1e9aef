-------------------------- MODULE MCBrowserSessions --------------------------
(* Instances of BrowserSessions for TLC.                                   *)
EXTENDS BrowserSessions, TLC

MCSymmetry ==
    Permutations(Sessions) \cup Permutations(Requests) \cup Permutations(Passwords)
=============================================================================
