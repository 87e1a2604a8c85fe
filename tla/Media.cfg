CONSTANTS
    a1 = a1
    a2 = a2
    photo = photo
    report = report
    o1 = o1
    r1 = r1
    r2 = r2
    Assets = {a1, a2}
    Contents = {photo, report}
    Images = {photo}
    Owners = {o1}
    Reqs = {r1, r2}
    MaxHandled = 6
SPECIFICATION MDSpec
SYMMETRY Symm
INVARIANTS
    MDTypeOK
    RowsHaveFiles
    NoStrayFiles
    ShownIsComplete
