CONSTANTS
    Positions = {p1, p2, p3}
    Members = {m1}
    Editors = {e1, e2}
    Publishers = {s1}
    MaxDepth = 2
    Top = Top
    None = None
SPECIFICATION Spec
SYMMETRY Symmetry
INVARIANT ChartOnEveryWrite
