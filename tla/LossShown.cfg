CONSTANTS
    Accounts = {a1}
    MaxSession = 1
    Requests = {"b1"}
    None = None
SPECIFICATION FairSpec
PROPERTY LossIsShown
CHECK_DEADLOCK FALSE
