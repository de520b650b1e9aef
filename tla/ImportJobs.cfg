CONSTANTS
    Keys = {k1}
    Kinds = {"ORIGINAL", "K3_RAW"}
    Requests = {r1, r2}
    Workers = {w1}
    None = None
    Contents <- MCContents
    Malware <- MCMalware
    Manifests = {"good", "stale", "bad"}
    Declared <- MCDeclared
    BaseSha256 <- MCBaseSha256
SPECIFICATION Spec
SYMMETRY MCSymmetry
INVARIANT AttachmentsMatchManifest
INVARIANT OutcomeJustified
INVARIANT ScanningIsComplete
INVARIANT AuditTellsTheEnd
INVARIANT ReadSettles
PROPERTY JobsOnlyAdvance
