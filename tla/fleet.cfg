\* Two runs at once over three repositories and two releases, ended anywhere.
SPECIFICATION MCSpec
CONSTANTS
    plain = plain
    opted = opted
    narrow = narrow
    t1 = t1
    Repos = {plain, opted, narrow}
    OptedOut = {opted}
    MajorsOn = {plain}
    Narrow = {narrow}
    Tags = {t1, t2}
    Absent = absent
    NoBranch = nobranch
    Procs = {p1, p2}
    MaxRuns = 2
    MaxFlips = 1
SYMMETRY Runs
INVARIANTS TypeOK
PROPERTIES BumpedTogether MajorsKept ReviewedBranchStays
CHECK_DEADLOCK FALSE
