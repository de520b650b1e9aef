CONSTANTS
    Codes = {c1}
    Devices = {d1, d2}
    Sessions = {s1, s2, s3}
    Owner = Owner
    Members = {u1}
    Selections = {{1, 2}, {3}}
    Requests = {r1, r2, r3}
    None = None
SPECIFICATION Spec
INVARIANT TypeOK
INVARIANT OneLiveSession
INVARIANT RevokedDeviceHasNoSession
INVARIANT CodePairsOnce
INVARIANT NoLockCycle
INVARIANT ActorIsLive
PROPERTY AssignedWhole
PROPERTY ContractSpec
SYMMETRY MCSymmetry
