----------------------------- MODULE AutoMerge -----------------------------
(***************************************************************************)
(* The reusable workflow dependabot-auto-merge.yml, on one pull request.   *)
(*                                                                         *)
(* The `enable` job runs on the pull request's events, one run at a time:  *)
(* it reads the pull request in several calls, decides, and then enables   *)
(* auto-merge, disables its own, or merges the base branch into the head.  *)
(* The `sweep` job runs on pushes to the default branch and updates the    *)
(* branch of an armed pull request that fell BEHIND.  Around them stand    *)
(* GitHub (which performs the merge), Dependabot, the reviewing App codna  *)
(* and the repository's people, modelled from how the workflow uses them.  *)
(*                                                                         *)
(* Heads are numbered 1, 2, ... in the order they are pushed; "none" is    *)
(* the empty string of the workflow's outputs.                             *)
(***************************************************************************)
EXTENDS Integers, Sequences, SequencesExt

CONSTANTS
    Settings,    \* the repository / caller configurations considered
    Verdicts,    \* the verdicts codna may give: [state, findings]
    Allowed,     \* which of Behaviours the environment may show
    MaxPushes,   \* bound: last head Dependabot or a person pushes
    MaxMain,     \* bound: pushes to the default branch
    MaxReviews   \* bound: codna's reviews beyond the first of each head

ReviewStates == {"APPROVED", "COMMENTED", "CHANGES_REQUESTED"}

\* What one repository and its caller fix: the pull request's author and head
\* repository, the `Allow auto-merge` setting, the merge queue, the ruleset
\* (strict = branches must be up to date), the update type, and whether the
\* inputs are well-formed (merge_method valid; app_id and app_slug one App).
SettingType ==
    [dependabot: BOOLEAN, cross: BOOLEAN, allow: BOOLEAN,
     queue: BOOLEAN, strict: BOOLEAN, threadRule: BOOLEAN, reviewRule: BOOLEAN,
     updateType: {"major", "minor", "patch", "none", "other"},
     majors: BOOLEAN, method: BOOLEAN, oneApp: BOOLEAN]

Behaviours ==
    {"human_arm", "human_disarm", "human_push", "human_rewrite", "human_thread",
     "human_block", "human_dismiss", "human_close", "human_draft",
     "job_failure",      \* an API call of the job fails, or its 5 minutes end
     "reorder",          \* the runs of two events may start in either order
     "unknown_state",    \* the merge state still reads UNKNOWN after the retries
     "early_review",     \* codna may finish a head before that head's run ended
     "early_sweep"}      \* a sweep may read while an enable run is past its read

ASSUME SettingsAssumption == Settings \subseteq SettingType
ASSUME VerdictsAssumption ==
    Verdicts \subseteq [state: ReviewStates, findings: BOOLEAN]
ASSUME AllowedAssumption == Allowed \subseteq Behaviours
ASSUME BoundsAssumption ==
    MaxPushes \in Nat /\ MaxMain \in Nat /\ MaxReviews \in Nat

VARIABLES
    setting,     \* the configuration, fixed
    \* ---- the pull request, on GitHub
    pr,          \* "open", "closed" or "merged"
    head,        \* the number of its current head
    first,       \* its first commit: "signed" by Dependabot, or "other"
    draft,       \* whether it is a draft
    base,        \* "current", or "behind": the base has commits the head lacks
    armedBy,     \* who enabled auto-merge: "none", "app" (ours), "human"
    review,      \* codna's latest review [state, commit]
    opinion,     \* codna's latest review state that counts for reviewDecision
    objection,   \* a person's standing change request: "none", "changes"
    threads,     \* who has unresolved review threads: subset of {"codna", "human"}
    stage,       \* codna's work on the current head
    approvals,   \* the heads codna submitted an approval of
    landed,      \* how it merged: [by, head, last]
    \* ---- the `enable` job
    events,      \* events of this pull request whose run has not started
    phase,       \* the step the run is at
    event,       \* the event it runs for
    facts,       \* the facts it read
    last,        \* conclusion of the last run
    \* ---- the `sweep` job
    pushed,      \* "swept", or "unswept": a push whose sweep has not started
    sweep,       \* "idle", "find" or "update"
    \* ---- bounds
    mains, reviews

prVars == <<pr, head, first, base, draft>>
reviewVars == <<review, opinion, objection, threads, stage, approvals>>
jobVars == <<events, phase, event, facts, last>>
sweepVars == <<pushed, sweep>>
boundVars == <<mains, reviews>>
vars == <<setting, prVars, armedBy, reviewVars, landed, jobVars, sweepVars, boundVars>>

-----------------------------------------------------------------------------
(* Events and facts *)

\* One event of the caller's triggers: `by` is github.actor for a
\* pull_request_target event; `state` is the submitted review's.
Event(kind, by, state) == [kind |-> kind, by |-> by, state |-> state]
EventType == [kind: {"opened", "synchronize", "reopened", "review"},
              by: {"dependabot", "app", "human", "codna"},
              state: ReviewStates \cup {"none"}]
NoEvent == Event("opened", "dependabot", "none")

Parties == {"codna", "human"}
FactsType ==
    [state: {"open", "closed", "merged"}, draft: BOOLEAN, head: Nat, armedBy: {"none", "app", "human"},
     mergeState: {"BEHIND", "UNKNOWN", "OTHER"},
     review: ReviewStates \cup {"none", "DISMISSED"}, commit: Nat,
     decision: {"none", "REVIEW_REQUIRED", "APPROVED", "CHANGES_REQUESTED"},
     threads: SUBSET Parties]
NoFacts == [state |-> "closed", draft |-> FALSE, head |-> 0, armedBy |-> "none", mergeState |-> "OTHER",
            review |-> "none", commit |-> 0, decision |-> "none", threads |-> {}]

Phases == {"idle", "metadata", "facts", "threads", "decide", "act", "update"}

\* GitHub's reviewDecision, as the header describes it: an approval is kept
\* across pushes, and a comment neither gives nor takes one.
ReviewDecision ==
    IF ~setting.reviewRule THEN "none"
    ELSE IF objection = "changes" \/ opinion = "CHANGES_REQUESTED" THEN "CHANGES_REQUESTED"
    ELSE IF opinion = "APPROVED" THEN "APPROVED" ELSE "REVIEW_REQUIRED"

\* GitHub's mergeStateStatus: BEHIND only under the strict ruleset.
MergeState == IF setting.strict /\ base = "behind" THEN "BEHIND" ELSE "OTHER"
ReadableMergeStates ==
    {MergeState} \cup (IF "unknown_state" \in Allowed THEN {"UNKNOWN"} ELSE {})

\* Every requirement of the base branch is met: the `codna review` check has
\* concluded on this head (neutral satisfies it), the ruleset holds.
Mergeable ==
    /\ pr = "open"
    /\ ~draft
    /\ stage = "concluded"
    /\ (setting.strict /\ ~setting.queue) => base = "current"
    /\ setting.threadRule => threads = {}
    /\ ReviewDecision \in {"none", "APPROVED"}

-----------------------------------------------------------------------------
(* The Decide step: a pure function of its environment *)

\* mutant of Eligible: a head in another repository is decided like any other
EligibleCross(f) == setting.dependabot /\ f.state = "open" /\ ~f.draft

Eligible(f) == setting.dependabot /\ ~setting.cross /\ f.state = "open" /\ ~f.draft

\* mutant of ReviewHolds: the commit of the approval is not compared
ReviewHoldsOnAnyHead(f) == f.review = "APPROVED" /\ f.threads = {}

\* codna's latest review approves the head Decide read, with no open thread
ReviewHolds(f) == f.review = "APPROVED" /\ f.commit = f.head /\ f.threads = {}

\* mutant of ArmHolds: only a new head disarms, not a review
ArmHoldsUntilPush(e, f) == e.kind # "synchronize"

\* mutant of ArmHolds: nothing disarms
ArmHoldsForever(e, f) == TRUE

\* this App's arm survives the event
ArmHolds(e, f) == e.kind # "synchronize" /\ ReviewHolds(f)

\* mutant of EventArms: a review is no event that arms
EventArmsOnPush(e) == e.kind # "review" /\ e.by = "dependabot"

\* the events that may arm: Dependabot's own, or an approval codna submitted
EventArms(e) ==
    IF e.kind = "review" THEN e.by = "codna" /\ e.state = "APPROVED"
                         ELSE e.by = "dependabot"

TypeArms ==
    \/ setting.updateType \in {"minor", "patch"}
    \/ setting.updateType = "major" /\ setting.majors

CanArm(e, f) ==
    /\ EventArms(e) /\ setting.allow /\ TypeArms
    /\ ReviewHolds(f) /\ f.decision \in {"APPROVED", "none"}

\* mutant of Decision: whose auto-merge it is does not matter
DecisionOnAnyArm(e, f) ==
    IF ~Eligible(f) THEN "skip"
    ELSE IF f.armedBy # "none" THEN (IF ArmHolds(e, f) THEN "skip" ELSE "disarm")
    ELSE IF CanArm(e, f) THEN "enable" ELSE "skip"

Decision(e, f) ==
    IF ~Eligible(f) \/ f.armedBy = "human" THEN "skip"
    ELSE IF f.armedBy = "app" THEN (IF ArmHolds(e, f) THEN "skip" ELSE "disarm")
    ELSE IF CanArm(e, f) THEN "enable" ELSE "skip"

\* mutant of UpdateWanted: arming does not look at the merge state
UpdateNeverWanted(e, f) == FALSE

\* update_branch: only next to an arm that holds, or one about to be made
UpdateWanted(e, f) ==
    /\ Eligible(f)
    /\ f.armedBy = "app" \/ Decision(e, f) = "enable"
    /\ Decision(e, f) # "disarm"
    /\ f.mergeState = "BEHIND" /\ ~setting.queue

-----------------------------------------------------------------------------
(* GitHub *)

Init ==
    /\ setting \in Settings
    /\ pr = "open" /\ head = 1 /\ base = "current" /\ draft = FALSE
    /\ first = IF setting.dependabot THEN "signed" ELSE "other"
    /\ armedBy = "none"
    /\ review = [state |-> "none", commit |-> 0] /\ opinion = "none" /\ objection = "none"
    /\ threads = {} /\ stage = "pending" /\ approvals = {}
    /\ landed = [by |-> "none", head |-> 0, last |-> "success"]
    /\ events = <<Event("opened", IF setting.dependabot THEN "dependabot" ELSE "human", "none")>>
    /\ phase = "idle" /\ event = NoEvent /\ facts = NoFacts /\ last = "success"
    /\ pushed = "swept" /\ sweep = "idle"
    /\ mains = 0 /\ reviews = 0

\* A new head, whoever pushed it, is a `synchronize` event for the caller.
\* GitHub keeps an enabled auto-merge and a standing approval across it.
NewHead(by) ==
    /\ head' = head + 1
    /\ stage' = "pending"
    /\ events' = Append(events, Event("synchronize", by, "none"))

MergedBy(who) ==
    /\ pr' = "merged"
    /\ armedBy' = "none"
    /\ landed' = [by |-> who, head |-> head, last |-> last]

\* GitHub completes an enabled auto-merge.
Merge ==
    /\ armedBy # "none" /\ Mergeable
    /\ MergedBy(armedBy)
    /\ UNCHANGED <<setting, head, first, base, draft, reviewVars, jobVars, sweepVars, boundVars>>

\* Dependabot rebases (or recreates) its branch on the base.
DependabotPush ==
    /\ pr = "open" /\ setting.dependabot /\ head < MaxPushes
    /\ NewHead("dependabot")
    /\ first' = "signed" /\ base' = "current"
    /\ UNCHANGED <<setting, pr, draft, armedBy, review, opinion, objection, threads, approvals,
                   landed, phase, event, facts, last, sweepVars, boundVars>>

\* A merge of something else: the open pull request falls behind, and the
\* push runs the sweep job.
MainPush ==
    /\ pr = "open" /\ mains < MaxMain
    /\ mains' = mains + 1
    /\ base' = "behind" /\ pushed' = "unswept"
    /\ UNCHANGED <<setting, pr, head, first, draft, armedBy, reviewVars, landed, jobVars,
                   sweep, reviews>>

(* codna *)

\* A first review of the current head takes minutes, a run takes seconds.
ReviewInTime ==
    "early_review" \in Allowed \/ (events = <<>> /\ phase = "idle")

\* codna submits a review of a head: the current one, or the one before it,
\* which it was still reading when the push came.
CodnaReview(commit, verdict) ==
    /\ pr = "open" /\ commit \in {head - 1, head} /\ commit > 0
    /\ IF commit = head /\ stage = "pending"
       THEN ReviewInTime /\ stage' = "reviewed" /\ UNCHANGED reviews
       ELSE reviews < MaxReviews /\ reviews' = reviews + 1 /\ UNCHANGED stage
    /\ review' = [state |-> verdict.state, commit |-> commit]
    /\ opinion' = IF verdict.state = "COMMENTED" THEN opinion ELSE verdict.state
    /\ threads' = IF verdict.findings THEN threads \cup {"codna"} ELSE threads
    /\ approvals' = IF verdict.state = "APPROVED" THEN approvals \cup {commit} ELSE approvals
    /\ events' = Append(events, Event("review", "codna", verdict.state))
    /\ UNCHANGED <<setting, prVars, armedBy, objection, landed, phase, event, facts, last,
                   sweepVars, mains>>

\* ... and then concludes its check-run: success, or neutral with findings.
CodnaConcludes ==
    /\ pr = "open" /\ stage = "reviewed"
    /\ stage' = "concluded"
    /\ UNCHANGED <<setting, prVars, armedBy, review, opinion, objection, threads,
                   approvals, landed, jobVars, sweepVars, boundVars>>

\* bound: events already waiting when a person reopens the pull request
MaxBacklog == 2

(* People: none of these but a push or a reopening starts a run *)

HumanArm ==
    /\ "human_arm" \in Allowed /\ pr = "open" /\ ~draft /\ armedBy = "none" /\ setting.allow
    /\ armedBy' = "human"
    /\ UNCHANGED <<setting, prVars, reviewVars, landed, jobVars, sweepVars, boundVars>>

HumanDisarm ==
    /\ "human_disarm" \in Allowed /\ pr = "open" /\ armedBy # "none"
    /\ armedBy' = "none"
    /\ UNCHANGED <<setting, prVars, reviewVars, landed, jobVars, sweepVars, boundVars>>

\* A person pushes a commit on top, or (human_rewrite) force-pushes a rebase
\* whose first commit is no longer Dependabot's signed one.
HumanPush ==
    /\ pr = "open" /\ head < MaxPushes
    /\ \/ "human_push" \in Allowed /\ UNCHANGED <<first, base>>
       \/ "human_rewrite" \in Allowed /\ first' = "other" /\ base' = "current"
    /\ NewHead("human")
    /\ UNCHANGED <<setting, pr, draft, armedBy, review, opinion, objection, threads, approvals,
                   landed, phase, event, facts, last, sweepVars, boundVars>>

\* A person comments on a line, or resolves every thread.
HumanThread ==
    /\ "human_thread" \in Allowed /\ pr = "open"
    /\ \/ threads' = threads \cup {"human"}
       \/ threads' = {}
    /\ UNCHANGED <<setting, prVars, armedBy, review, opinion, objection, stage, approvals,
                   landed, jobVars, sweepVars, boundVars>>

\* A person requests changes, or withdraws the request.
HumanBlock ==
    /\ "human_block" \in Allowed /\ pr = "open"
    /\ objection' = IF objection = "none" THEN "changes" ELSE "none"
    /\ UNCHANGED <<setting, prVars, armedBy, review, opinion, threads, stage, approvals,
                   landed, jobVars, sweepVars, boundVars>>

HumanDismiss ==
    /\ "human_dismiss" \in Allowed /\ pr = "open"
    /\ review.state \in {"APPROVED", "CHANGES_REQUESTED"}
    /\ review' = [state |-> "DISMISSED", commit |-> review.commit]
    /\ opinion' = "none"
    /\ UNCHANGED <<setting, prVars, armedBy, objection, threads, stage, approvals,
                   landed, jobVars, sweepVars, boundVars>>

\* Closing drops the auto-merge; reopening is an event of the caller.
HumanClose ==
    /\ "human_close" \in Allowed /\ pr = "open"
    /\ pr' = "closed" /\ armedBy' = "none"
    /\ UNCHANGED <<setting, head, first, base, draft, reviewVars, landed, jobVars, sweepVars,
                   boundVars>>

HumanReopen ==
    /\ pr = "closed" /\ Len(events) < MaxBacklog
    /\ pr' = "open"
    /\ events' = Append(events, Event("reopened", "human", "none"))
    /\ UNCHANGED <<setting, head, first, base, draft, armedBy, reviewVars, landed, phase,
                   event, facts, last, sweepVars, boundVars>>

\* GitHub drops the auto-merge of a pull request that becomes a draft; neither way
\* is an event of the caller.
HumanDraft ==
    /\ "human_draft" \in Allowed /\ pr = "open"
    /\ \/ draft' = TRUE /\ armedBy' = "none"
       \/ draft' = FALSE /\ UNCHANGED armedBy
    /\ UNCHANGED <<setting, pr, head, first, base, reviewVars, landed, jobVars, sweepVars,
                   boundVars>>

-----------------------------------------------------------------------------
(* The `enable` job *)

\* An event's run starts; concurrency with cancel-in-progress ends the run
\* under way, wherever it is.  The caller's `if:` lets an event of another
\* author's pull request through to no job.
StartJob ==
    \E i \in 1..Len(events) :
        /\ "reorder" \in Allowed \/ i = 1
        /\ events' = RemoveAt(events, i)
        /\ IF setting.dependabot
           THEN phase' = "metadata" /\ event' = events[i] /\ facts' = NoFacts
           ELSE UNCHANGED <<phase, event, facts>>
        /\ UNCHANGED <<setting, prVars, armedBy, reviewVars, landed, last, sweepVars, boundVars>>

\* mutant of Finish: an ended run keeps its place in the concurrency group
FinishHolding(conclusion) ==
    phase' = "ended" /\ event' = NoEvent /\ facts' = NoFacts /\ last' = conclusion
Finish(conclusion) ==
    phase' = "idle" /\ event' = NoEvent /\ facts' = NoFacts /\ last' = conclusion

Continue(next) == phase' = next /\ UNCHANGED <<event, facts, last>>

\* dependabot/fetch-metadata refuses a pull request whose first commit is not
\* Dependabot's own and signed: the job fails before it decides anything.
ReadMetadata ==
    /\ phase = "metadata"
    /\ IF first = "signed" THEN Continue("facts") ELSE Finish("failure")
    /\ UNCHANGED <<setting, prVars, armedBy, reviewVars, landed, events, sweepVars, boundVars>>

\* `gh pr view`: one call, one snapshot of everything but the threads.
ReadPullRequest ==
    /\ phase = "facts"
    /\ phase' = "threads"
    /\ \E m \in ReadableMergeStates :
        facts' = [state |-> pr, draft |-> draft, head |-> head, armedBy |-> armedBy, mergeState |-> m,
                  review |-> review.state, commit |-> review.commit,
                  decision |-> ReviewDecision, threads |-> {}]
    /\ UNCHANGED <<setting, prVars, armedBy, reviewVars, landed, events, event, last,
                   sweepVars, boundVars>>

\* A second call counts the unresolved threads.
ReadThreads ==
    /\ phase = "threads"
    /\ phase' = "decide"
    /\ facts' = [facts EXCEPT !.threads = threads]
    /\ UNCHANGED <<setting, prVars, armedBy, reviewVars, landed, events, event, last,
                   sweepVars, boundVars>>

\* Decide; a token is minted only when there is something to do with it, and
\* two inputs naming two Apps fail the run there.
Decide ==
    /\ phase = "decide"
    /\ LET d == Decision(event, facts)
           idle == d = "skip" /\ ~UpdateWanted(event, facts)
       IN  \/ ~setting.method /\ Finish("failure")
           \/ setting.method /\ idle /\ Finish("success")
           \/ setting.method /\ ~idle /\ ~setting.oneApp /\ Finish("failure")
           \/ setting.method /\ ~idle /\ setting.oneApp
              /\ Continue(IF d = "skip" THEN "update" ELSE "act")
    /\ UNCHANGED <<setting, prVars, armedBy, reviewVars, landed, events, sweepVars, boundVars>>

\* After Enable or Disarm: the branch update, when one was decided.
ThenUpdate ==
    IF UpdateWanted(event, facts) THEN Continue("update") ELSE Finish("success")

\* `gh pr merge --auto`: merges at once when every requirement is met, else
\* enables auto-merge; names no head.  On a pull request a person armed in the
\* meantime GitHub keeps or replaces the request; on a closed one, or a draft, gh fails.
Enable ==
    /\ phase = "act" /\ Decision(event, facts) = "enable"
    /\ \/ /\ pr # "open" \/ draft
          /\ Finish("failure") /\ UNCHANGED <<pr, armedBy, landed>>
       \/ pr = "open" /\ Mergeable /\ MergedBy("app") /\ ThenUpdate
       \/ /\ pr = "open" /\ ~draft /\ ~Mergeable /\ ThenUpdate
          /\ armedBy' = "app" \/ (armedBy = "human" /\ armedBy' = "human")
          /\ UNCHANGED <<pr, landed>>
    /\ UNCHANGED <<setting, head, first, base, draft, reviewVars, events, sweepVars, boundVars>>

\* `gh pr merge --disable-auto`: whoever's auto-merge is enabled by now.
Disarm ==
    /\ phase = "act" /\ Decision(event, facts) = "disarm"
    /\ armedBy' = IF pr = "open" THEN "none" ELSE armedBy
    /\ ThenUpdate
    /\ UNCHANGED <<setting, prVars, reviewVars, landed, events, sweepVars, boundVars>>

\* GitHub's update-branch, as `gh pr update-branch` calls it: merges the base
\* into the current head with the App's token; nothing when it is not behind.
UpdateBranch ==
    \/ pr = "open" /\ base = "behind" /\ NewHead("app") /\ base' = "current"
    \/ ~(pr = "open" /\ base = "behind") /\ UNCHANGED <<head, stage, events, base>>

JobUpdate ==
    /\ phase = "update"
    /\ UpdateBranch
    /\ Finish("success")
    /\ UNCHANGED <<setting, pr, first, draft, armedBy, review, opinion, objection, threads,
                   approvals, landed, sweepVars, boundVars>>

FailJob ==
    /\ "job_failure" \in Allowed /\ phase # "idle"
    /\ Finish("failure")
    /\ UNCHANGED <<setting, prVars, armedBy, reviewVars, landed, events, sweepVars, boundVars>>

-----------------------------------------------------------------------------
(* The `sweep` job *)

\* The sweep of a later push supersedes the one under way.
StartSweep ==
    /\ pushed = "unswept"
    /\ pushed' = "swept" /\ sweep' = "find"
    /\ UNCHANGED <<setting, prVars, armedBy, reviewVars, landed, jobVars, boundVars>>

\* A run past its read of the pull request cannot see this push any more.
SweepInTime ==
    "early_sweep" \in Allowed \/ phase \notin {"threads", "decide", "act", "update"}

\* The pull request is one this App armed, on a base without a queue, BEHIND.
SweepSelects(mergeState) ==
    /\ pr = "open" /\ setting.dependabot /\ armedBy = "app"
    /\ ~draft /\ ~setting.cross /\ ~setting.queue
    /\ mergeState = "BEHIND"

SweepFind ==
    /\ sweep = "find" /\ SweepInTime
    /\ \E m \in ReadableMergeStates :
        sweep' = IF SweepSelects(m) /\ setting.oneApp THEN "update" ELSE "idle"
    /\ UNCHANGED <<setting, prVars, armedBy, reviewVars, landed, jobVars, pushed, boundVars>>

SweepUpdate ==
    /\ sweep = "update"
    /\ sweep' = "idle"
    /\ \/ UpdateBranch
       \/ "job_failure" \in Allowed /\ UNCHANGED <<head, stage, events, base>>
    /\ UNCHANGED <<setting, pr, first, draft, armedBy, review, opinion, objection, threads,
                   approvals, landed, phase, event, facts, last, pushed, boundVars>>

-----------------------------------------------------------------------------
Job == \/ StartJob \/ ReadMetadata \/ ReadPullRequest \/ ReadThreads \/ Decide
       \/ Enable \/ Disarm \/ JobUpdate
Sweep == StartSweep \/ SweepFind \/ SweepUpdate
Codna == \E commit \in {head - 1, head}, v \in Verdicts : CodnaReview(commit, v)
Human == \/ HumanArm \/ HumanDisarm \/ HumanPush \/ HumanThread \/ HumanBlock \/ HumanDismiss
         \/ HumanClose \/ HumanReopen \/ HumanDraft

Next == \/ Merge \/ DependabotPush \/ MainPush
        \/ Codna \/ CodnaConcludes
        \/ Human
        \/ Job \/ FailJob \/ Sweep

Spec == Init /\ [][Next]_vars

\* GitHub starts every run, the runs proceed, codna reviews every head it has
\* not reviewed and concludes its check, and GitHub completes an auto-merge.
\* Nobody is obliged to push, to arm, to resolve or to fail.
CodnaReviewsHead ==
    stage = "pending" /\ \E v \in Verdicts : CodnaReview(head, v)
FairSpec == Spec /\ WF_vars(Job) /\ WF_vars(Sweep) /\ WF_vars(CodnaReviewsHead)
                 /\ WF_vars(CodnaConcludes) /\ WF_vars(Merge)
-----------------------------------------------------------------------------
(* Properties *)

\* Every variable stays in its type: numbers of heads are naturals, the run
\* is in one of the job's steps, its facts are what the API can return.
TypeOK ==
    /\ setting \in Settings
    /\ pr \in {"open", "closed", "merged"} /\ head \in Nat
    /\ first \in {"signed", "other"} /\ base \in {"current", "behind"}
    /\ draft \in BOOLEAN /\ armedBy \in {"none", "app", "human"}
    /\ review \in [state: ReviewStates \cup {"none", "DISMISSED"}, commit: Nat]
    /\ opinion \in {"none", "APPROVED", "CHANGES_REQUESTED"}
    /\ objection \in {"none", "changes"} /\ threads \subseteq Parties
    /\ stage \in {"pending", "reviewed", "concluded"} /\ approvals \subseteq Nat
    /\ landed \in [by: {"none", "app", "human"}, head: Nat, last: {"success", "failure"}]
    /\ events \in Seq(EventType)
    /\ phase \in Phases /\ event \in EventType /\ facts \in FactsType
    /\ last \in {"success", "failure"}
    /\ pushed \in {"swept", "unswept"} /\ sweep \in {"idle", "find", "update"}
    /\ mains \in Nat /\ reviews \in Nat

\* codna's last review was an approval of this head and left nothing open.
\* (A dismissal starts no run: the workflow cannot react to it.)
ArmIsGood ==
    /\ review.commit = head
    /\ review.state \in {"APPROVED", "DISMISSED"}
    /\ "codna" \notin threads

\* An arm is good for one head: once every event of an open pull request has
\* been answered by a run and the last of them was green, an auto-merge this
\* App enabled rests on codna's approval of the current head with no finding
\* of codna's open -- in whatever order the events came, whichever runs were
\* superseded, and wherever the facts a run acted on were already stale.
SettledArmIsGood ==
    (/\ pr = "open" /\ armedBy = "app"
     /\ events = <<>> /\ phase = "idle" /\ last = "success")
    => ArmIsGood

\* Why it holds.  Only runs that found a pull request of ours to arm, arm it ...
ArmOwned ==
    /\ armedBy = "app" => setting.dependabot /\ ~setting.cross
    /\ pr # "open" \/ draft => armedBy = "none"
    /\ phase # "idle" => setting.dependabot

\* ... the facts of a run are out of date only while an event that says so is
\* waiting, and hide no arm of this App ...
PastRead == phase \in {"threads", "decide", "act", "update"}
FactsKept ==
    PastRead =>
        /\ facts.armedBy = "app" => facts.state = "open" /\ ~setting.cross /\ ~facts.draft
        /\ armedBy = "app" /\ phase # "update" => facts.armedBy = "app"
        /\ events = <<>> =>
              /\ facts.head = head /\ facts.commit = review.commit
              /\ review.state \in {facts.review, "DISMISSED"}
              /\ phase # "threads" /\ "codna" \in threads => "codna" \in facts.threads

\* ... and a run that goes on past its decision acts, or found the review good.
ActsOnFacts ==
    /\ phase = "act" => Decision(event, facts) \in {"enable", "disarm"}
    /\ phase = "update" => ReviewHolds(facts)

ArmInvariant == ArmOwned /\ FactsKept /\ ActsOnFacts

\* What this App's auto-merge lands with a green last run is a head codna
\* approved, also when the head moved between the read and the enabling, and
\* when codna's check concluded neutral on findings.
GreenLandingIsApproved ==
    landed.by = "app" /\ landed.last = "success" => landed.head \in approvals

\* Why it holds: codna does not finish a head before the run of its push ended,
\* so a run never acts on the facts of one head after codna judged the next.
LandingInvariant ==
    /\ review.commit <= head
    /\ stage = "pending" => review.commit < head
    /\ review.state = "APPROVED" => review.commit \in approvals
    /\ PastRead /\ facts.review = "APPROVED" => facts.commit \in approvals
    /\ PastRead /\ facts.head # head => stage = "pending"
    /\ stage # "pending" /\ armedBy = "app" /\ last = "success" => head \in approvals

\* "An arm is good for one head ... on `synchronize` (a new head, whoever
\* pushed it) an auto-merge this App enabled is disabled again": no head lands
\* by this App's auto-merge that codna did not approve.
ArmGoodForOneHead == landed.by = "app" => landed.head \in approvals

\* A person's auto-merge that stood when the run read the pull request is
\* neither disabled, nor replaced, nor given a new head by that run, whatever
\* people, codna and other runs did before and since.
SeenHumanArmKept ==
    [][(armedBy = "human" /\ facts.armedBy = "human" /\ (Enable \/ Disarm \/ JobUpdate))
       => (armedBy' = "human" /\ head' = head)]_vars

\* A head this App's arm does not rest on loses the arm, or gets codna's
\* approval: no arm outlives its head for good.
StaleArmEnds ==
    (pr = "open" /\ armedBy = "app" /\ ~ArmIsGood) ~> (pr # "open" \/ armedBy # "app" \/ ArmIsGood)

\* An armed pull request that fell behind under a strict ruleset is brought up
\* to date by the job or by a sweep; it never waits for a human's rebase.
ArmedBranchCaughtUp ==
    (pr = "open" /\ armedBy = "app" /\ setting.strict /\ base = "behind" /\ ~setting.queue)
        ~> (pr # "open" \/ armedBy # "app" \/ base = "current")

\* Dependabot pull requests land on their own: once codna's last word is an
\* approval of the last head with no thread open, the pull request is merged,
\* with no person's help, however often it was pushed to, fell behind and was
\* brought up to date and reviewed again on the way.
CleanlyApproved ==
    review = [state |-> "APPROVED", commit |-> head] /\ threads = {}
Lands == <>[]CleanlyApproved => <>(pr = "merged")
=============================================================================
