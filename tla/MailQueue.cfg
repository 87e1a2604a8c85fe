CONSTANTS
    Mails = {m1, m2}
    Sweep = Sweep
    Admin = Admin
    Retries = 1
    MaxPending = 1
    MaxRetryNow = 1
    MaxErrors = 1
    MaxCrashes = 1
SPECIFICATION Spec
INVARIANTS
    LogTellsDelivery
    ContentExpires
PROPERTY RetriesEnd
CHECK_DEADLOCK FALSE
