CONSTANTS
    Files = {f1}
    Requests = {r1, r2}
    Workers = {w1, w2}
    Multiparts = {m1, m2}
    MaxDeliveries = 1
    LateKinds = {"create", "complete", "abort", "delete"}
    None = None
    Contents <- MCContents
    Size <- MCSize
    Malware <- MCMalware
SPECIFICATION Spec
INVARIANT TypeOK
INVARIANT CleanIsVerified
INVARIANT SingleScanner
PROPERTY AcceptedObjectIsStable
PROPERTY ContractSpec
SYMMETRY MCSymmetry
