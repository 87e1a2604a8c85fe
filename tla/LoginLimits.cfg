SPECIFICATION LLLiveSpec
CONSTANTS
    r1 = r1
    r2 = r2
    r3 = r3
    SignIns = {r1, r2, r3}
    Null = Null
    LOGIN_ATTEMPT_LIMIT = 2
    LOGIN_ATTEMPT_WINDOW = 1
    LOCK_THRESHOLD = 3
    LOCK_BASE = 1
    LOCK_MAX = 4
    LOCK_DECAY = 5
INVARIANTS
    GuessesLeadToLock
PROPERTIES
    BackoffDoubles
    LockEnds
