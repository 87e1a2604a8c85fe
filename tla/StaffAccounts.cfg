CONSTANTS
    a1 = a1
    a2 = a2
    u3 = u3
    None = None
    Reqs = {r1, r2, r3}
    Users <- MCUsers
    Admins <- MCAdmins
    Patches <- MCPatches
SPECIFICATION Spec
SYMMETRY Symmetry
INVARIANTS
    TypeOK
    AdminCover
    NewestUseVoidsOlder
    EveryWaitEnds
PROPERTIES
    OnlyAdminReenables
    PasswordNeverReverts
CHECK_DEADLOCK FALSE
