CONSTANTS
    Files = {f1}
    Requests = {r1}
    Workers = {w1}
    Multiparts = {m1}
    MaxDeliveries = 1
    LateKinds = {}
    None = None
    Contents <- MCContents
    Size <- MCSize
    Malware <- MCMalware
SPECIFICATION FairSpec
PROPERTY ScanningEnds
