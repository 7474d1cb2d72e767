---------------------------- MODULE MCAutoMerge ----------------------------
(* The configurations the runs of AutoMerge check. *)
EXTENDS AutoMerge

\* A fleet repository: auto-merge allowed, codna's check required.
Fleet ==
    [dependabot |-> TRUE, cross |-> FALSE, allow |-> TRUE,
     queue |-> FALSE, strict |-> FALSE, threadRule |-> FALSE, reviewRule |-> FALSE,
     updateType |-> "minor", majors |-> FALSE, method |-> TRUE, oneApp |-> TRUE]
Strict == [Fleet EXCEPT !.strict = TRUE]
Ruled == [Fleet EXCEPT !.threadRule = TRUE, !.reviewRule = TRUE]

OneRepository == {Fleet}
StrictRepository == {Strict}
QueueRepositories == {[Strict EXCEPT !.queue = TRUE], Strict, Ruled}
OptedIn == [Fleet EXCEPT !.updateType = "major", !.majors = TRUE]
LandingRepositories == {Fleet, Strict, Ruled, OptedIn, [Strict EXCEPT !.queue = TRUE]}
\* every guard of Decide, off by one setting each
Repositories ==
    {Fleet, Strict, Ruled, OptedIn,
     [Fleet EXCEPT !.dependabot = FALSE], [Fleet EXCEPT !.cross = TRUE],
     [Fleet EXCEPT !.allow = FALSE], [Fleet EXCEPT !.updateType = "major"], [Fleet EXCEPT !.updateType = "none"],
     [Fleet EXCEPT !.method = FALSE], [Fleet EXCEPT !.oneApp = FALSE]}

Clean == [state |-> "APPROVED", findings |-> FALSE]
ApprovedWithFindings == [state |-> "APPROVED", findings |-> TRUE]
Commented == [state |-> "COMMENTED", findings |-> TRUE]
ChangesRequested == [state |-> "CHANGES_REQUESTED", findings |-> TRUE]

OnlyClean == {Clean}
CleanOrFindings == {Clean, Commented}
AllVerdicts == {Clean, ApprovedWithFindings, Commented, ChangesRequested}
=============================================================================
