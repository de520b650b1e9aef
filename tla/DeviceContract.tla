---------------------------- MODULE DeviceContract ----------------------------
(***************************************************************************)
(* What the connector relies on when it calls the server's device          *)
(* endpoints: pairing, refreshing and revoking happen at once, a device    *)
(* that is paired has at most one session that is accepted, a session that *)
(* was spent never comes back, and a device that was revoked gets no       *)
(* session any more.                                                       *)
(***************************************************************************)
CONSTANTS Devices, Sessions, None

VARIABLES
    live,   \* the session of every device that is accepted, or None
    spent,  \* the sessions that were given out
    paired  \* the devices that were paired, also those revoked since

contractVars == <<live, spent, paired>>

Init ==
    /\ live = [d \in Devices |-> None]
    /\ spent = {}
    /\ paired = {}

\* A new device, or the holder of the live session, gets a session nobody had.
Issue(d) ==
    \E s \in Sessions \ spent :
        /\ live' = [live EXCEPT ![d] = s]
        /\ spent' = spent \cup {s}

Revoke(d) ==
    /\ live[d] # None
    /\ live' = [live EXCEPT ![d] = None]
    /\ UNCHANGED <<spent, paired>>

Pair(d) == d \notin paired /\ Issue(d) /\ paired' = paired \cup {d}

Refresh(d) == live[d] # None /\ Issue(d) /\ UNCHANGED paired

Next == \E d \in Devices : Pair(d) \/ Refresh(d) \/ Revoke(d)

Spec == Init /\ [][Next]_contractVars
=============================================================================
