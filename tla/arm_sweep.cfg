\* A sweep reads the pull request between an enable run's read and its arm.
SPECIFICATION FairSpec
CONSTANTS
    Settings <- StrictRepository
    Verdicts <- OnlyClean
    Allowed = {"early_sweep"}
    MaxPushes = 1
    MaxMain = 1
    MaxReviews = 0
PROPERTIES ArmedBranchCaughtUp
CHECK_DEADLOCK FALSE
