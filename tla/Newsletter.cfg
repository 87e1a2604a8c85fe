CONSTANTS
    a1 = a1
    r1 = r1
    r2 = r2
    r3 = r3
    Addrs = {a1}
    Calls = {r1, r2, r3}
    MaxRows = 2
SPECIFICATION NLSpec
SYMMETRY Symm
INVARIANTS
    NLTypeOK
PROPERTIES
    ActiveOnlyByLink
    ConfirmationKept
