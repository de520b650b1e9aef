----------------------------- MODULE MCDeviceAuth -----------------------------
(* Instances of DeviceAuth for TLC.                                        *)
EXTENDS DeviceAuth, TLC

MCSymmetry ==
    Permutations(Requests) \cup Permutations(Codes) \cup Permutations(Devices)
        \cup Permutations(Sessions)
=============================================================================
