\* Every guard and every reviewer's verdict; events in any order, runs that fail,
\* people who push, dismiss, resolve; codna reviews a head after its run.
SPECIFICATION Spec
CONSTANTS
    Settings <- Repositories
    Verdicts <- AllVerdicts
    Allowed = {"human_push", "human_rewrite", "human_dismiss", "job_failure", "reorder"}
    MaxPushes = 2
    MaxMain = 1
    MaxReviews = 1
INVARIANTS TypeOK ArmInvariant SettledArmIsGood LandingInvariant GreenLandingIsApproved
CHECK_DEADLOCK FALSE
