\* What ends, lands and catches up once GitHub, the runs and codna proceed.
SPECIFICATION FairSpec
CONSTANTS
    Settings <- LandingRepositories
    Verdicts <- CleanOrFindings
    Allowed = {"human_push"}
    MaxPushes = 3
    MaxMain = 2
    MaxReviews = 0
PROPERTIES Lands ArmedBranchCaughtUp StaleArmEnds
CHECK_DEADLOCK FALSE
