CONSTANTS
    m1 = m1
    r1 = r1
    r2 = r2
    r3 = r3
    Msgs = {m1}
    Reqs = {r1, r2, r3}
    MaxHandled = 3
    MaxMails = 3
SPECIFICATION Spec
SYMMETRY Symm
INVARIANTS
    TypeOK
    RemovedLeavesNothing
    ReplyLinksItsMail
    OutcomeKept
PROPERTIES
    ArchivedStaysArchived
