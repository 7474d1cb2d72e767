\* Two runs at once on an empty cache.
SPECIFICATION Spec
CONSTANTS
    Procs = {p1, p2}
    Offline = {}
    Packs = {k1, k2}
    Marker = complete
    Dirs = {d1, d2, d3, d4, d5}
    NoDir = none
    Attempts = 1
    MaxStarts = 2
    Sharing = "together"
INVARIANTS RestingCacheIsWhole
CHECK_DEADLOCK FALSE
