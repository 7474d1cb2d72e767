\* Three processes, one of them offline, publish, are killed and start again.
SPECIFICATION FairSpec
CONSTANTS
    Procs = {p1, p2, p3}
    Offline = {p3}
    Attempts = 3
    MaxStarts = 4
INVARIANTS TypeOK CachedToolIsVerified
PROPERTIES Answered KeepsPromise
CHECK_DEADLOCK FALSE
