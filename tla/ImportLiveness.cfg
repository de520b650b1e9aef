CONSTANTS
    Keys = {k1}
    Kinds = {"ORIGINAL", "K3_RAW"}
    Requests = {r1}
    Workers = {w1}
    None = None
    Contents <- MCContents
    Malware <- MCMalware
    Manifests = {"good", "bad"}
    Declared <- MCDeclared
    BaseSha256 <- MCBaseSha256
SPECIFICATION FairSpec
PROPERTY JobsSettle
