\* One run at a time, killed anywhere, started again.
SPECIFICATION FairSpec
CONSTANTS
    Procs = {p1, p2}
    Offline = {p2}
    Packs = {k1, k2}
    Marker = complete
    Dirs = {d1, d2, d3}
    NoDir = none
    Attempts = 3
    MaxStarts = 5
    Sharing = "alone"
INVARIANTS TypeOK CompleteMeansWhole ScansTheWholeBundle NoRunBreaksOnTheCache
PROPERTIES Answered KeepsPromise
CHECK_DEADLOCK FALSE
