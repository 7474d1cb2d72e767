\* People arm, disarm, comment, resolve, block, close, reopen and make drafts while runs read and act.
SPECIFICATION Spec
CONSTANTS
    Settings <- QueueRepositories
    Verdicts <- CleanOrFindings
    Allowed = {"human_arm", "human_disarm", "human_thread", "human_block", "human_close", "human_draft",
               "unknown_state", "early_sweep"}
    MaxPushes = 2
    MaxMain = 1
    MaxReviews = 0
INVARIANTS ArmGoodForOneHead
PROPERTIES SeenHumanArmKept
CHECK_DEADLOCK FALSE
