CONSTANTS
    Accounts = {a1, a2}
    MaxSession = 2
    Requests = {"b1"}
    None = None
SPECIFICATION FairSpec
INVARIANT LossNeverWaitsForBootstrap
INVARIANT ShownIsCookie
INVARIANT AppNeedsUser
PROPERTY BootstrapEnds
CHECK_DEADLOCK FALSE
