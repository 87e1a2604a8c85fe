CONSTANTS
    LicenceIds <- MCLicenceIds
    Numbers = {n1, n2}
    Writers = {e1, e2}
    Settings = {s1}
    Null = Null
SPECIFICATION LCSpec
SYMMETRY Symmetry
INVARIANTS
    AtMostOnePrimary
    SettingsFollowWrites
