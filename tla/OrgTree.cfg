CONSTANTS
    Positions = {p1, p2, p3, p4}
    Members = {m1}
    Editors = {e1, e2}
    Publishers = {s1}
    MaxDepth = 3
    Top = Top
    None = None
SPECIFICATION Spec
SYMMETRY Symmetry
INVARIANTS
    GuardIsExact
PROPERTY MovesKeepChart
