CONSTANTS
    p1 = p1
    p2 = p2
    k1 = k1
    k2 = k2
    Procs = {p1, p2}
    Keys = {k1, k2}
    Last = 3
    Ddl = {2, 3}
    Modules = {1, 3}
    KeyFile = 2
    MaxRuns = 3
    a1 = a1
    a2 = a2
    x1 = x1
    Servers = {p1, p2}
    Puts = {a1, a2}
    Sends = {x1}
    Host = "host"
    Password = "password"
    Columns = {"host", "password"}
    MaxPuts = 2
    MaxTests = 1
    MaxSameTick = 1
SPECIFICATION PartsSpec
SYMMETRY Symm
INVARIANTS
    TypeOK
    RecordedIsApplied
    PasswordReadable
    SendsUseCurrentSettings
CHECK_DEADLOCK FALSE
