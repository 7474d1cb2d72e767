\* A person force-pushes a rebase of the armed branch.
SPECIFICATION Spec
CONSTANTS
    Settings <- OneRepository
    Verdicts <- CleanOrFindings
    Allowed = {"human_rewrite"}
    MaxPushes = 2
    MaxMain = 0
    MaxReviews = 0
INVARIANTS ArmGoodForOneHead
CHECK_DEADLOCK FALSE
