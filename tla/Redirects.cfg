CONSTANTS
    Posts = {p1, p2}
    RuleIds = {i1, i2, i3}
    Paths = {a, b, c}
    Editors = {e1, e2}
    RuleEditors = {f1}
    MaxRequests = 3
    None = None
SPECIFICATION Spec
SYMMETRY Symmetry
INVARIANTS
    OldAddressesLead
PROPERTIES
    OnlyStaleChecksChain
    LivePathsStayFree
CHECK_DEADLOCK FALSE
