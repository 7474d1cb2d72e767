-------------------------- MODULE AutoMergeProofs --------------------------
(* Proofs about AutoMerge, for every value of its constants. *)
EXTENDS AutoMerge, SequenceTheorems, TLAPS

-----------------------------------------------------------------------------
(* Lemmas: the queue of events *)

\* An event appended to the queue leaves it well-typed and not empty.
LEMMA AppendEvent ==
    ASSUME NEW T, NEW s \in Seq(T), NEW e \in T
    PROVE  Append(s, e) \in Seq(T) /\ Append(s, e) # <<>>
<1>1. Append(s, e) \in Seq(T)
  BY AppendProperties
<1>2. Len(Append(s, e)) = Len(s) + 1
  BY AppendProperties
<1>3. Len(s) \in Nat /\ Len(<<>>) = 0
  BY LenProperties, EmptySeq
<1> QED
  BY <1>1, <1>2, <1>3

\* Taking any event out of the queue leaves it well-typed.
LEMMA RemoveEvent ==
    ASSUME NEW T, NEW s \in Seq(T), NEW i \in 1..Len(s)
    PROVE  RemoveAt(s, i) \in Seq(T) /\ s[i] \in T
<1>1. s[i] \in T
  BY ElementOfSeq
<1>2. SubSeq(s, 1, i - 1) \in Seq(T)
  BY LenProperties, SubSeqProperties
<1>3. SubSeq(s, i + 1, Len(s)) \in Seq(T)
  BY LenProperties, SubSeqProperties
<1>4. SubSeq(s, 1, i - 1) \o SubSeq(s, i + 1, Len(s)) \in Seq(T)
  BY <1>2, <1>3, ConcatProperties
<1> QED
  BY <1>1, <1>4 DEF RemoveAt

\* The events the workflow can receive.
LEMMA EventTypes ==
    /\ NoEvent \in EventType
    /\ \A by \in {"dependabot", "app", "human", "codna"} :
          /\ Event("synchronize", by, "none") \in EventType
          /\ Event("reopened", by, "none") \in EventType
          /\ Event("opened", by, "none") \in EventType
    /\ \A state \in ReviewStates : Event("review", "codna", state) \in EventType
BY DEF NoEvent, Event, EventType

\* The facts of no run.
LEMMA NoFactsType == NoFacts \in FactsType
BY DEF NoFacts, FactsType

\* GitHub's review decision is one of the four the Decide step knows.
LEMMA ReviewDecisionType ==
    ReviewDecision \in {"none", "REVIEW_REQUIRED", "APPROVED", "CHANGES_REQUESTED"}
BY DEF ReviewDecision

\* Merging the base branch into the head keeps the types of what it changes.
UpdatedType ==
    /\ head \in Nat /\ stage \in {"pending", "reviewed", "concluded"}
    /\ base \in {"current", "behind"} /\ events \in Seq(EventType)

\* GitHub's update-branch keeps the head, the stage and the events in their types.
LEMMA BranchUpdateType ==
    ASSUME TypeOK, UpdateBranch PROVE UpdatedType'
<1>1. CASE NewHead("app") /\ base' = "current"
  <2>1. events' \in Seq(EventType)
    BY <1>1, EventTypes, AppendEvent DEF NewHead, TypeOK
  <2> QED
    BY <1>1, <2>1 DEF NewHead, TypeOK, UpdatedType
<1>2. CASE UNCHANGED <<head, stage, events, base>>
  BY <1>2 DEF TypeOK, UpdatedType
<1> QED
  BY <1>1, <1>2 DEF UpdateBranch

-----------------------------------------------------------------------------
(* Type correctness *)

\* Every variable keeps its type: the heads, the queue of events and the
\* facts and phases of the run are what the code can hold.
THEOREM TypeCorrect == Spec => []TypeOK
<1> USE VerdictsAssumption
<1>1. Init => TypeOK
  <2> SUFFICES ASSUME Init PROVE TypeOK
    OBVIOUS
  <2>1. events \in Seq(EventType)
    <3>1. PICK who \in {"dependabot", "human"} : events = <<Event("opened", who, "none")>>
      BY DEF Init
    <3> QED
      BY <3>1, EventTypes
  <2> QED
    BY <2>1, EventTypes, NoFactsType DEF Init, TypeOK, Phases, Parties
<1>2. TypeOK /\ [Next]_vars => TypeOK'
  <2> SUFFICES ASSUME TypeOK, [Next]_vars PROVE TypeOK'
    OBVIOUS
  <2> USE DEF TypeOK
  <2>1. CASE Merge
    BY <2>1 DEF Merge, MergedBy, prVars, reviewVars, jobVars, sweepVars, boundVars
  <2>2. CASE DependabotPush
    BY <2>2, EventTypes, AppendEvent DEF DependabotPush, NewHead, sweepVars, boundVars
  <2>3. CASE MainPush
    BY <2>3 DEF MainPush, reviewVars, jobVars
  <2>4. CASE Codna
    <3>1. PICK commit \in {head - 1, head}, v \in Verdicts : CodnaReview(commit, v)
      BY <2>4 DEF Codna
    <3>2. v.state \in ReviewStates /\ commit \in Nat
      BY <3>1 DEF CodnaReview
    <3>3. events' \in Seq(EventType)
      BY <3>1, <3>2, EventTypes, AppendEvent DEF CodnaReview
    <3>4. reviews' \in Nat /\ mains' \in Nat /\ stage' \in {"pending", "reviewed", "concluded"}
      BY <3>1 DEF CodnaReview
    <3>5. review' \in [state: ReviewStates \cup {"none", "DISMISSED"}, commit: Nat]
      BY <3>1, <3>2 DEF CodnaReview
    <3>6. opinion' \in {"none", "APPROVED", "CHANGES_REQUESTED"}
      BY <3>1, <3>2 DEF CodnaReview, ReviewStates
    <3>7. threads' \subseteq Parties /\ approvals' \subseteq Nat
      BY <3>1, <3>2 DEF CodnaReview, Parties
    <3> QED
      BY <3>1, <3>3, <3>4, <3>5, <3>6, <3>7 DEF CodnaReview, prVars, sweepVars
  <2>5. CASE CodnaConcludes
    BY <2>5 DEF CodnaConcludes, prVars, jobVars, sweepVars, boundVars
  <2>6. CASE Human
    <3>1. CASE HumanArm
      BY <3>1 DEF HumanArm, prVars, reviewVars, jobVars, sweepVars, boundVars
    <3>7. CASE HumanDisarm
      BY <3>7 DEF HumanDisarm, prVars, reviewVars, jobVars, sweepVars, boundVars
    <3>2. CASE HumanPush
      <4>1. events' \in Seq(EventType)
        BY <3>2, EventTypes, AppendEvent DEF HumanPush, NewHead
      <4> QED
        BY <3>2, <4>1 DEF HumanPush, NewHead, sweepVars, boundVars
    <3>3. CASE HumanThread
      <4>1. threads' \subseteq Parties
        BY <3>3 DEF HumanThread, Parties
      <4> QED
        BY <3>3, <4>1 DEF HumanThread, prVars, jobVars, sweepVars, boundVars
    <3>8. CASE HumanBlock
      BY <3>8 DEF HumanBlock, prVars, jobVars, sweepVars, boundVars
    <3>4. CASE HumanDismiss
      BY <3>4 DEF HumanDismiss, prVars, jobVars, sweepVars, boundVars
    <3>5. CASE HumanClose
      BY <3>5 DEF HumanClose, reviewVars, jobVars, sweepVars, boundVars
    <3>9. CASE HumanDraft
      <4>1. draft' \in BOOLEAN
        BY <3>9 DEF HumanDraft
      <4>2. armedBy' \in {armedBy, "none"}
        BY <3>9 DEF HumanDraft
      <4>3. UNCHANGED <<setting, pr, head, first, base, reviewVars, landed, jobVars, sweepVars,
                       boundVars>>
        BY <3>9 DEF HumanDraft
      <4> QED
        BY <4>1, <4>2, <4>3 DEF reviewVars, jobVars, sweepVars, boundVars
    <3>6. CASE HumanReopen
      <4>1. events' \in Seq(EventType)
        BY <3>6, EventTypes, AppendEvent DEF HumanReopen
      <4> QED
        BY <3>6, <4>1 DEF HumanReopen, reviewVars, sweepVars, boundVars
    <3> QED
      BY <2>6, <3>1, <3>2, <3>3, <3>4, <3>5, <3>6, <3>7, <3>8, <3>9 DEF Human
  <2>7. CASE Job
    <3>1. CASE StartJob
      <4>1. PICK i \in 1..Len(events) :
              /\ events' = RemoveAt(events, i)
              /\ IF setting.dependabot
                 THEN phase' = "metadata" /\ event' = events[i] /\ facts' = NoFacts
                 ELSE UNCHANGED <<phase, event, facts>>
        BY <3>1 DEF StartJob
      <4>2. events' \in Seq(EventType) /\ events[i] \in EventType
        BY <4>1, RemoveEvent
      <4>3. phase' \in Phases /\ event' \in EventType /\ facts' \in FactsType
        BY <4>1, <4>2, NoFactsType DEF Phases
      <4> QED
        BY <3>1, <4>2, <4>3 DEF StartJob, prVars, reviewVars, sweepVars, boundVars
    <3>2. CASE ReadMetadata
      BY <3>2, NoFactsType, EventTypes
         DEF ReadMetadata, Finish, Continue, prVars, reviewVars, sweepVars, boundVars, Phases
    <3>3. CASE ReadPullRequest
      <4>1. PICK m \in ReadableMergeStates :
              facts' = [state |-> pr, draft |-> draft, head |-> head, armedBy |-> armedBy, mergeState |-> m,
                        review |-> review.state, commit |-> review.commit,
                        decision |-> ReviewDecision, threads |-> {}]
        BY <3>3 DEF ReadPullRequest
      <4>2. m \in {"BEHIND", "UNKNOWN", "OTHER"}
        BY DEF ReadableMergeStates, MergeState
      <4>3. facts' \in FactsType
        BY <4>1, <4>2, ReviewDecisionType DEF FactsType
      <4> QED
        BY <3>3, <4>3 DEF ReadPullRequest, prVars, reviewVars, sweepVars, boundVars, Phases
    <3>4. CASE ReadThreads
      <4>1. facts' \in FactsType
        BY <3>4 DEF ReadThreads, FactsType
      <4> QED
        BY <3>4, <4>1 DEF ReadThreads, Phases, prVars, reviewVars, sweepVars, boundVars
    <3>5. CASE Decide
      <4>1. Finish("failure") \/ Finish("success") \/ Continue("update") \/ Continue("act")
        BY <3>5 DEF Decide
      <4>2. /\ phase' \in Phases /\ event' \in EventType /\ facts' \in FactsType
            /\ last' \in {"success", "failure"}
        BY <4>1, NoFactsType, EventTypes DEF Finish, Continue, Phases
      <4> QED
        BY <3>5, <4>2 DEF Decide, prVars, reviewVars, sweepVars, boundVars
    <3>6. CASE Enable
      <4>1. Finish("failure") \/ Finish("success") \/ Continue("update")
        BY <3>6 DEF Enable, ThenUpdate
      <4>2. /\ phase' \in Phases /\ event' \in EventType /\ facts' \in FactsType
            /\ last' \in {"success", "failure"}
        BY <4>1, NoFactsType, EventTypes DEF Finish, Continue, Phases
      <4> QED
        BY <3>6, <4>2 DEF Enable, MergedBy, reviewVars, sweepVars, boundVars
    <3>7. CASE Disarm
      <4>1. Finish("success") \/ Continue("update")
        BY <3>7 DEF Disarm, ThenUpdate
      <4>2. /\ phase' \in Phases /\ event' \in EventType /\ facts' \in FactsType
            /\ last' \in {"success", "failure"}
        BY <4>1, NoFactsType, EventTypes DEF Finish, Continue, Phases
      <4> QED
        BY <3>7, <4>2 DEF Disarm, prVars, reviewVars, sweepVars, boundVars
    <3>8. CASE JobUpdate
      <4>1. /\ phase' \in Phases /\ event' \in EventType /\ facts' \in FactsType
            /\ last' \in {"success", "failure"}
        BY <3>8, NoFactsType, EventTypes DEF JobUpdate, Finish, Phases
      <4>2. UpdatedType'
        BY <3>8, BranchUpdateType DEF JobUpdate
      <4> QED
        BY <3>8, <4>1, <4>2 DEF JobUpdate, UpdatedType, sweepVars, boundVars
    <3> QED
      BY <2>7, <3>1, <3>2, <3>3, <3>4, <3>5, <3>6, <3>7, <3>8 DEF Job
  <2>8. CASE FailJob
    BY <2>8, NoFactsType, EventTypes
       DEF FailJob, Finish, prVars, reviewVars, sweepVars, boundVars, Phases
  <2>9. CASE Sweep
    <3>1. CASE StartSweep
      BY <3>1 DEF StartSweep, prVars, reviewVars, jobVars, boundVars
    <3>2. CASE SweepFind
      BY <3>2 DEF SweepFind, prVars, reviewVars, jobVars, boundVars
    <3>3. CASE SweepUpdate
      <4>1. UpdatedType'
        <5>1. CASE UpdateBranch
          BY <5>1, BranchUpdateType
        <5>2. CASE UNCHANGED <<head, stage, events, base>>
          BY <5>2 DEF UpdatedType
        <5> QED
          BY <3>3, <5>1, <5>2 DEF SweepUpdate
      <4> QED
        BY <3>3, <4>1 DEF SweepUpdate, UpdatedType, boundVars
    <3> QED
      BY <2>9, <3>1, <3>2, <3>3 DEF Sweep
  <2>10. CASE UNCHANGED vars
    BY <2>10 DEF vars, prVars, reviewVars, jobVars, sweepVars, boundVars
  <2> QED
    BY <2>1, <2>2, <2>3, <2>4, <2>5, <2>6, <2>7, <2>8, <2>9, <2>10 DEF Next
<1> QED
  BY <1>1, <1>2, PTL DEF Spec

-----------------------------------------------------------------------------
(* An arm is good for one head *)

\* The step of a run that leaves its facts alone, while events only grow.
FactsStand == UNCHANGED <<setting, phase, event, facts, last>>

\* What a run knows when it goes on past Decide: a decision, or a good review.
LEMMA DecideFacts ==
    ASSUME NEW e, NEW f, Eligible(f), f.armedBy = "app", Decision(e, f) = "skip"
    PROVE  ReviewHolds(f)
BY DEF Decision, ArmHolds

\* A run that goes on to the branch update found the review good.
LEMMA UpdateFacts ==
    ASSUME NEW e, NEW f, UpdateWanted(e, f)
    PROVE  ReviewHolds(f) /\ Decision(e, f) # "disarm"
BY DEF UpdateWanted, Decision, ArmHolds, CanArm

\* A new event in the queue settles nothing, and leaves a run only its
\* knowledge of who armed the pull request.
LEMMA EventArrives ==
    ASSUME TypeOK, ArmInvariant, SettledArmIsGood, FactsStand,
           events' # <<>>, armedBy' = armedBy,
           draft' = draft, pr' = pr \/ (pr' = "open" /\ armedBy = "none")
    PROVE  ArmInvariant' /\ SettledArmIsGood'
<1>1. ArmOwned'
  BY DEF ArmInvariant, ArmOwned, FactsStand
<1>2. FactsKept'
  BY DEF ArmInvariant, FactsKept, PastRead, FactsStand
<1>3. ActsOnFacts'
  BY DEF ArmInvariant, ActsOnFacts, FactsStand, Decision, Eligible, ArmHolds, ReviewHolds,
         CanArm, EventArms, TypeArms
<1>4. SettledArmIsGood'
  BY DEF SettledArmIsGood
<1> QED
  BY <1>1, <1>2, <1>3, <1>4 DEF ArmInvariant

\* So does a step that changes nothing a run of this workflow reads.
LEMMA NothingRead ==
    ASSUME TypeOK, ArmInvariant, SettledArmIsGood, FactsStand,
           UNCHANGED <<events, head>>, review'.commit = review.commit,
           review'.state \in {review.state, "DISMISSED"},
           "codna" \in threads' => "codna" \in threads,
           armedBy' \in {armedBy, "none", "human"},
           pr' # "open" \/ draft' => armedBy' = "none"
    PROVE  ArmInvariant' /\ SettledArmIsGood'
<1>1. ArmOwned'
  BY DEF ArmInvariant, ArmOwned, FactsStand
<1>2. FactsKept'
  BY DEF ArmInvariant, FactsKept, PastRead, FactsStand
<1>3. ActsOnFacts'
  BY DEF ArmInvariant, ActsOnFacts, FactsStand, Decision, Eligible, ArmHolds, ReviewHolds,
         CanArm, EventArms, TypeArms
<1>4. SettledArmIsGood'
  <2> SUFFICES ASSUME pr' = "open" /\ armedBy' = "app" /\ events' = <<>>,
                      phase' = "idle" /\ last' = "success"
               PROVE  ArmIsGood'
    BY DEF SettledArmIsGood
  <2>1. armedBy = "app" /\ pr = "open"
    BY DEF ArmInvariant, ArmOwned
  <2>2. ArmIsGood
    BY <2>1 DEF SettledArmIsGood, FactsStand
  <2> QED
    BY <2>2 DEF ArmIsGood
<1> QED
  BY <1>1, <1>2, <1>3, <1>4 DEF ArmInvariant

\* A run that ends well without this App's arm, or on a good review, settles it.
LEMMA RunEnds ==
    ASSUME TypeOK, ArmInvariant, NEW c \in {"success", "failure"}, Finish(c),
           UNCHANGED <<setting, events, head, review, threads>>,
           pr' # "open" \/ draft' => armedBy' = "none",
           armedBy' = "app" => armedBy = "app" \/ Eligible(facts),
           PastRead, phase # "threads",
           c = "success" /\ armedBy' = "app" => ReviewHolds(facts)
    PROVE  ArmInvariant' /\ SettledArmIsGood'
<1>1. ArmOwned'
  BY DEF ArmInvariant, ArmOwned, Finish, Eligible
<1>2. FactsKept' /\ ActsOnFacts'
  BY DEF FactsKept, PastRead, ActsOnFacts, Finish
<1>3. SettledArmIsGood'
  BY DEF SettledArmIsGood, ArmIsGood, ArmInvariant, FactsKept, ReviewHolds, Finish
<1> QED
  BY <1>1, <1>2, <1>3 DEF ArmInvariant

\* Nothing is armed and no run is under way at the start.
LEMMA InitArm == Init => ArmInvariant /\ SettledArmIsGood
BY DEF Init, ArmInvariant, ArmOwned, FactsKept, PastRead, ActsOnFacts, SettledArmIsGood

\* Every step of GitHub, codna, people, the job and the sweep keeps both.
LEMMA ArmStep ==
    ASSUME TypeOK, ArmInvariant, SettledArmIsGood, [Next]_vars
    PROVE  ArmInvariant' /\ SettledArmIsGood'
<1>1. CASE Merge
  <2>1. Merge => UNCHANGED setting /\ FactsStand /\ UNCHANGED <<events, head, review, threads>>
    BY DEF Merge, FactsStand, reviewVars, jobVars
  <2> QED
    BY <1>1, <2>1, NothingRead DEF Merge, MergedBy, TypeOK
<1>2. CASE DependabotPush
  <2>1. events' # <<>>
    BY <1>2, EventTypes, AppendEvent DEF DependabotPush, NewHead, TypeOK
  <2> QED
    BY <1>2, <2>1, EventArrives DEF DependabotPush, FactsStand
<1>3. CASE MainPush
  BY <1>3, NothingRead DEF MainPush, FactsStand, reviewVars, jobVars, TypeOK, ArmInvariant, ArmOwned
<1>4. CASE Codna
  <2>1. PICK commit \in {head - 1, head}, v \in Verdicts : CodnaReview(commit, v)
    BY <1>4 DEF Codna
  <2>2. v.state \in ReviewStates
    BY VerdictsAssumption
  <2>3. events' # <<>>
    BY <2>1, <2>2, EventTypes, AppendEvent DEF CodnaReview, TypeOK
  <2> QED
    BY <2>1, <2>3, EventArrives DEF CodnaReview, FactsStand, prVars
<1>5. CASE CodnaConcludes
  BY <1>5, NothingRead
     DEF CodnaConcludes, FactsStand, prVars, jobVars, TypeOK, ArmInvariant, ArmOwned
<1>6. CASE Human
  <2>1. CASE HumanArm
    BY <2>1, NothingRead
       DEF HumanArm, FactsStand, prVars, reviewVars, jobVars, TypeOK, ArmInvariant, ArmOwned
  <2>2. CASE HumanDisarm
    BY <2>2, NothingRead
       DEF HumanDisarm, FactsStand, prVars, reviewVars, jobVars, TypeOK, ArmInvariant, ArmOwned
  <2>3. CASE HumanPush
    <3>1. events' # <<>>
      BY <2>3, EventTypes, AppendEvent DEF HumanPush, NewHead, TypeOK
    <3> QED
      BY <2>3, <3>1, EventArrives DEF HumanPush, FactsStand
  <2>4. CASE HumanThread
    BY <2>4, NothingRead
       DEF HumanThread, FactsStand, prVars, jobVars, TypeOK, ArmInvariant, ArmOwned
  <2>5. CASE HumanBlock
    BY <2>5, NothingRead
       DEF HumanBlock, FactsStand, prVars, jobVars, TypeOK, ArmInvariant, ArmOwned
  <2>6. CASE HumanDismiss
    BY <2>6, NothingRead
       DEF HumanDismiss, FactsStand, prVars, jobVars, TypeOK, ArmInvariant, ArmOwned
  <2>7. CASE HumanClose
    BY <2>7, NothingRead DEF HumanClose, FactsStand, reviewVars, jobVars, TypeOK
  <2>9. CASE HumanDraft
    BY <2>9, NothingRead
       DEF HumanDraft, FactsStand, reviewVars, jobVars, TypeOK, ArmInvariant, ArmOwned
  <2>8. CASE HumanReopen
    <3>1. events' # <<>>
      BY <2>8, EventTypes, AppendEvent DEF HumanReopen, TypeOK
    <3>2. armedBy = "none"
      BY <2>8 DEF HumanReopen, ArmInvariant, ArmOwned
    <3> QED
      BY <2>8, <3>1, <3>2, EventArrives DEF HumanReopen, FactsStand
  <2> QED
    BY <1>6, <2>1, <2>2, <2>3, <2>4, <2>5, <2>6, <2>7, <2>8, <2>9 DEF Human
<1>7. CASE StartJob
  <2>1. CASE setting.dependabot
    <3>1. phase' = "metadata" /\ UNCHANGED <<setting, pr, draft, armedBy>>
      BY <1>7, <2>1 DEF StartJob, prVars
    <3> QED
      BY <2>1, <3>1 DEF ArmInvariant, ArmOwned, FactsKept, PastRead, ActsOnFacts,
                        SettledArmIsGood
  <2>2. CASE ~setting.dependabot
    <3>1. armedBy' # "app" /\ phase' = "idle"
      BY <1>7, <2>2 DEF StartJob, ArmInvariant, ArmOwned
    <3> QED
      BY <1>7, <3>1 DEF StartJob, prVars, ArmInvariant, ArmOwned, FactsKept, PastRead,
                        ActsOnFacts, SettledArmIsGood
  <2> QED
    BY <2>1, <2>2
<1>8. CASE ReadMetadata
  <2>1. phase' # "idle" \/ last' = "failure"
    BY <1>8 DEF ReadMetadata, Finish, Continue
  <2>2. phase' \in {"facts", "idle"} /\ UNCHANGED <<setting, pr, draft, armedBy>>
    BY <1>8 DEF ReadMetadata, Finish, Continue, prVars
  <2> QED
    BY <1>8, <2>1, <2>2 DEF ReadMetadata, ArmInvariant, ArmOwned, FactsKept, PastRead,
                            ActsOnFacts, SettledArmIsGood
<1>9. CASE ReadPullRequest
  <2>1. /\ phase = "facts" /\ phase' = "threads"
        /\ UNCHANGED <<setting, pr, draft, armedBy, head, review, events>>
        /\ facts'.armedBy = armedBy /\ facts'.state = pr /\ facts'.draft = draft
        /\ facts'.head = head
        /\ facts'.commit = review.commit /\ facts'.review = review.state
    BY <1>9 DEF ReadPullRequest, prVars, reviewVars
  <2> QED
    BY <2>1 DEF ArmInvariant, ArmOwned, FactsKept, PastRead, ActsOnFacts, SettledArmIsGood, TypeOK
<1>10. CASE ReadThreads
  <2>1. /\ phase = "threads" /\ phase' = "decide"
        /\ UNCHANGED <<setting, pr, draft, armedBy, head, review, threads, events>>
        /\ facts'.armedBy = facts.armedBy /\ facts'.state = facts.state
        /\ facts'.draft = facts.draft
        /\ facts'.head = facts.head /\ facts'.commit = facts.commit
        /\ facts'.review = facts.review /\ facts'.threads = threads
    BY <1>10 DEF ReadThreads, prVars, reviewVars, TypeOK, FactsType
  <2> QED
    BY <2>1 DEF ArmInvariant, ArmOwned, FactsKept, PastRead, ActsOnFacts, SettledArmIsGood
<1>11. CASE Decide
  <2>1. /\ phase = "decide" /\ PastRead
        /\ UNCHANGED <<setting, pr, draft, armedBy, head, review, threads, events>>
    BY <1>11 DEF Decide, PastRead, prVars, reviewVars
  <2>2. armedBy = "app" => Eligible(facts) /\ facts.armedBy = "app"
    BY <2>1 DEF ArmInvariant, ArmOwned, FactsKept, Eligible
  <2>3. CASE Finish("failure")
    BY <2>1, <2>2, <2>3, RunEnds DEF ArmInvariant, ArmOwned
  <2>4. CASE Decision(event, facts) = "skip" /\ Finish("success")
    BY <2>1, <2>2, <2>4, RunEnds, DecideFacts DEF ArmInvariant, ArmOwned
  <2>5. CASE Decision(event, facts) = "skip" /\ UpdateWanted(event, facts) /\ Continue("update")
    <3>1. ReviewHolds(facts)
      BY <2>5, UpdateFacts
    <3> QED
      BY <2>1, <2>5, <3>1 DEF Continue, ArmInvariant, ArmOwned, FactsKept, PastRead,
                              ActsOnFacts, SettledArmIsGood, ReviewHolds
  <2>6. CASE Decision(event, facts) # "skip" /\ Continue("act")
    <3>1. Decision(event, facts) \in {"enable", "disarm"}
      BY <2>6 DEF Decision
    <3>2. Decision(event, facts)' = Decision(event, facts)
      BY <2>1, <2>6 DEF Continue, Decision, Eligible, ArmHolds, ReviewHolds, CanArm, EventArms,
                        TypeArms
    <3> QED
      BY <2>1, <2>6, <3>1, <3>2 DEF Continue, ArmInvariant, ArmOwned, FactsKept, PastRead,
                                    ActsOnFacts, SettledArmIsGood
  <2> QED
    BY <1>11, <2>3, <2>4, <2>5, <2>6 DEF Decide
<1>12. CASE Enable
  <2>1. /\ phase = "act" /\ PastRead
        /\ UNCHANGED <<setting, head, review, threads, events>>
    BY <1>12 DEF Enable, PastRead, reviewVars
  <2>2. ReviewHolds(facts) /\ Eligible(facts)
    BY <1>12 DEF Enable, Decision, CanArm
  <2>3. pr' # "open" \/ draft' => armedBy' = "none"
    BY <1>12 DEF Enable, MergedBy, ArmInvariant, ArmOwned
  <2>4. CASE Finish("failure") \/ Finish("success")
    BY <2>1, <2>2, <2>3, <2>4, RunEnds
  <2>5. CASE Continue("update")
    <3>1. ArmOwned'
      BY <2>1, <2>2, <2>3, <2>5 DEF ArmInvariant, ArmOwned, Eligible, Continue
    <3>2. FactsKept'
      BY <2>1, <2>5 DEF ArmInvariant, FactsKept, PastRead, Continue
    <3> QED
      BY <2>2, <2>5, <3>1, <3>2
         DEF ArmInvariant, ActsOnFacts, SettledArmIsGood, Continue, ReviewHolds
  <2> QED
    BY <1>12, <2>4, <2>5 DEF Enable, ThenUpdate
<1>13. CASE Disarm
  <2>1. /\ phase = "act" /\ PastRead
        /\ UNCHANGED <<setting, pr, draft, head, review, threads, events>>
    BY <1>13 DEF Disarm, PastRead, prVars, reviewVars
  <2>2. armedBy' = "none"
    BY <1>13 DEF Disarm, ArmInvariant, ArmOwned
  <2>3. Finish("success")
    BY <1>13, UpdateFacts DEF Disarm, ThenUpdate
  <2> QED
    BY <2>1, <2>2, <2>3, RunEnds
<1>14. CASE JobUpdate
  <2>1. /\ phase = "update" /\ PastRead /\ Finish("success")
        /\ UNCHANGED <<setting, pr, draft, armedBy, review, threads>>
    BY <1>14 DEF JobUpdate, PastRead
  <2>2. CASE NewHead("app")
    <3>1. events' # <<>>
      BY <2>2, EventTypes, AppendEvent DEF NewHead, TypeOK
    <3> QED
      BY <2>1, <3>1 DEF Finish, ArmInvariant, ArmOwned, FactsKept, PastRead, ActsOnFacts,
                        SettledArmIsGood
  <2>3. CASE UNCHANGED <<head, events>>
    BY <2>1, <2>3, RunEnds DEF ArmInvariant, ArmOwned, ActsOnFacts
  <2> QED
    BY <1>14, <2>2, <2>3 DEF JobUpdate, UpdateBranch
<1>15. CASE FailJob
  BY <1>15 DEF FailJob, Finish, prVars, ArmInvariant, ArmOwned, FactsKept, PastRead,
               ActsOnFacts, SettledArmIsGood
<1>16. CASE Sweep
  <2>1. CASE StartSweep
    BY <2>1, NothingRead
       DEF StartSweep, FactsStand, prVars, reviewVars, jobVars, TypeOK, ArmInvariant, ArmOwned
  <2>2. CASE SweepFind
    BY <2>2, NothingRead
       DEF SweepFind, FactsStand, prVars, reviewVars, jobVars, TypeOK, ArmInvariant, ArmOwned
  <2>3. CASE SweepUpdate
    <3>1. FactsStand /\ UNCHANGED <<pr, draft, armedBy, review, threads>>
      BY <2>3 DEF SweepUpdate, FactsStand
    <3>2. CASE NewHead("app")
      <4>1. events' # <<>>
        BY <3>2, EventTypes, AppendEvent DEF NewHead, TypeOK
      <4> QED
        BY <3>1, <4>1, EventArrives
    <3>3. CASE UNCHANGED <<head, events>>
      BY <3>1, <3>3, NothingRead DEF TypeOK, ArmInvariant, ArmOwned
    <3> QED
      BY <2>3, <3>2, <3>3 DEF SweepUpdate, UpdateBranch
  <2> QED
    BY <1>16, <2>1, <2>2, <2>3 DEF Sweep
<1>17. CASE UNCHANGED vars
  BY <1>17, NothingRead
     DEF vars, FactsStand, prVars, reviewVars, jobVars, TypeOK, ArmInvariant, ArmOwned
<1> QED
  BY <1>1, <1>2, <1>3, <1>4, <1>5, <1>6, <1>7, <1>8, <1>9, <1>10, <1>11, <1>12, <1>13, <1>14,
     <1>15, <1>16, <1>17 DEF Next, Job

\* Once every event has been answered and the last run was green, an arm of
\* this App's rests on codna's approval of the current head: for any number of
\* heads, reviews and pushes, any order of the runs, and any of the environment's
\* behaviours.
THEOREM SettledArmCorrect == Spec => [](ArmInvariant /\ SettledArmIsGood)
<1>1. TypeOK /\ ArmInvariant /\ SettledArmIsGood /\ [Next]_vars
        => ArmInvariant' /\ SettledArmIsGood'
  BY ArmStep
<1> QED
  BY <1>1, InitArm, TypeCorrect, PTL DEF Spec

\* For any bounds: who armed is recorded, a run acts on facts that held when it
\* read them, or an event it will answer says that they have changed.
THEOREM ArmInvariantCorrect == Spec => []ArmInvariant
BY SettledArmCorrect, PTL

-----------------------------------------------------------------------------
(* What the App lands, codna approved *)

Landing == LandingInvariant /\ GreenLandingIsApproved

\* Nothing is reviewed and nothing has landed at the start.
LEMMA InitLanding == Init => Landing
BY DEF Init, Landing, LandingInvariant, GreenLandingIsApproved, PastRead

\* A step that changes none of what the invariant speaks of, or gives up an arm.
LEMMA LandingStands ==
    ASSUME TypeOK, Landing,
           UNCHANGED <<head, stage, approvals, landed, phase, facts, last>>,
           review'.commit = review.commit, review'.state \in {review.state, "DISMISSED"},
           armedBy' = "app" => armedBy = "app"
    PROVE  Landing'
BY DEF Landing, LandingInvariant, GreenLandingIsApproved, PastRead

\* A new head waits for codna.
LEMMA LandingNewHead ==
    ASSUME TypeOK, Landing, NEW by, NewHead(by),
           UNCHANGED <<review, approvals, landed>>,
           PastRead' => PastRead /\ UNCHANGED facts
    PROVE  Landing'
<1>1. head' = head + 1 /\ stage' = "pending" /\ head \in Nat /\ review.commit \in Nat
  BY DEF NewHead, TypeOK
<1> QED
  BY <1>1 DEF Landing, LandingInvariant, GreenLandingIsApproved

\* A run that ends on a good review, or without an arm, keeps it.
LEMMA LandingRunEnds ==
    ASSUME TypeOK, Landing, NEW c \in {"success", "failure"}, Finish(c), PastRead,
           UNCHANGED <<head, stage, approvals, landed, review>>,
           c = "success" /\ armedBy' = "app" => ReviewHolds(facts)
    PROVE  Landing'
BY DEF Landing, LandingInvariant, GreenLandingIsApproved, PastRead, Finish, ReviewHolds

\* A run that is not past its read, or goes on past its decision.
LEMMA LandingRunGoesOn ==
    ASSUME TypeOK, Landing,
           UNCHANGED <<head, stage, approvals, landed, review, armedBy>>,
           last' \in {last, "failure"},
           PastRead' => PastRead /\ facts'.head = facts.head /\ facts'.commit = facts.commit
                        /\ facts'.review = facts.review
    PROVE  Landing'
BY DEF Landing, LandingInvariant, GreenLandingIsApproved

\* When codna reviews in time, every step keeps the landing invariant.
LEMMA LandingStep ==
    ASSUME "early_review" \notin Allowed,
           TypeOK, ArmInvariant, SettledArmIsGood, Landing, [Next]_vars
    PROVE  Landing'
<1>1. CASE Merge
  <2>1. stage = "concluded" /\ armedBy' = "none"
        /\ landed' = [by |-> armedBy, head |-> head, last |-> last]
    BY <1>1 DEF Merge, MergedBy, Mergeable
  <2>2. armedBy = "app" /\ last = "success" => head \in approvals
    BY <2>1 DEF Landing, LandingInvariant
  <2> QED
    BY <1>1, <2>1, <2>2 DEF Merge, reviewVars, jobVars, Landing, LandingInvariant,
                            GreenLandingIsApproved, PastRead
<1>2. CASE DependabotPush
  BY <1>2, LandingNewHead DEF DependabotPush, PastRead
<1>3. CASE MainPush
  BY <1>3, LandingStands DEF MainPush, reviewVars, jobVars, TypeOK
<1>4. CASE Codna
  <2>1. PICK commit \in {head - 1, head}, v \in Verdicts : CodnaReview(commit, v)
    BY <1>4 DEF Codna
  <2>2. /\ review'.state = v.state /\ review'.commit = commit
        /\ approvals' = IF v.state = "APPROVED" THEN approvals \cup {commit} ELSE approvals
        /\ UNCHANGED <<head, landed, phase, facts, last, armedBy>>
        /\ commit \in Nat /\ commit <= head
    BY <2>1 DEF CodnaReview, prVars, TypeOK
  <2>3. CASE commit = head /\ stage = "pending"
    <3>1. events = <<>> /\ phase = "idle" /\ stage' = "reviewed"
      BY <2>1, <2>3 DEF CodnaReview, ReviewInTime
    <3>2. review.commit < head /\ review.commit \in Nat
      BY <2>3 DEF Landing, LandingInvariant, TypeOK
    <3>3. ~(armedBy = "app" /\ last = "success")
      BY <2>1, <3>1, <3>2 DEF SettledArmIsGood, ArmIsGood, CodnaReview, TypeOK
    <3> QED
      BY <2>2, <3>1, <3>3 DEF Landing, LandingInvariant, GreenLandingIsApproved, PastRead
  <2>4. CASE ~(commit = head /\ stage = "pending")
    <3>1. UNCHANGED stage
      BY <2>1, <2>4 DEF CodnaReview
    <3>2. stage = "pending" => commit < head
      BY <2>2, <2>4 DEF TypeOK
    <3> QED
      BY <2>2, <3>1, <3>2 DEF Landing, LandingInvariant, GreenLandingIsApproved, PastRead
  <2> QED
    BY <2>3, <2>4
<1>5. CASE CodnaConcludes
  <2>1. /\ stage = "reviewed" /\ stage' = "concluded"
        /\ UNCHANGED <<head, approvals, landed, phase, facts, last, review, armedBy>>
    BY <1>5 DEF CodnaConcludes, prVars, jobVars
  <2> QED
    BY <2>1 DEF Landing, LandingInvariant, GreenLandingIsApproved, PastRead
<1>6. CASE Human
  <2>1. CASE HumanArm
    BY <2>1, LandingStands DEF HumanArm, prVars, reviewVars, jobVars, TypeOK
  <2>2. CASE HumanDisarm
    BY <2>2, LandingStands DEF HumanDisarm, prVars, reviewVars, jobVars, TypeOK
  <2>3. CASE HumanPush
    BY <2>3, LandingNewHead DEF HumanPush, PastRead
  <2>4. CASE HumanThread
    BY <2>4, LandingStands DEF HumanThread, prVars, jobVars, TypeOK
  <2>5. CASE HumanBlock
    BY <2>5, LandingStands DEF HumanBlock, prVars, jobVars, TypeOK
  <2>6. CASE HumanDismiss
    BY <2>6, LandingStands DEF HumanDismiss, prVars, jobVars, TypeOK
  <2>7. CASE HumanClose
    BY <2>7, LandingStands DEF HumanClose, reviewVars, jobVars, TypeOK
  <2>9. CASE HumanDraft
    BY <2>9, LandingStands DEF HumanDraft, reviewVars, jobVars, TypeOK
  <2>8. CASE HumanReopen
    BY <2>8, LandingStands DEF HumanReopen, reviewVars, TypeOK
  <2> QED
    BY <1>6, <2>1, <2>2, <2>3, <2>4, <2>5, <2>6, <2>7, <2>8, <2>9 DEF Human
<1>7. CASE StartJob
  <2>1. CASE setting.dependabot
    <3>1. ~PastRead'
      BY <1>7, <2>1 DEF StartJob, PastRead
    <3> QED
      BY <1>7, <3>1, LandingRunGoesOn DEF StartJob, prVars, reviewVars
  <2>2. CASE ~setting.dependabot
    BY <1>7, <2>2, LandingStands DEF StartJob, prVars, reviewVars, TypeOK
  <2> QED
    BY <2>1, <2>2
<1>8. CASE ReadMetadata
  <2>1. ~PastRead' /\ last' \in {last, "failure"}
    BY <1>8 DEF ReadMetadata, PastRead, Finish, Continue
  <2> QED
    BY <1>8, <2>1, LandingRunGoesOn DEF ReadMetadata, prVars, reviewVars
<1>9. CASE ReadPullRequest
  <2>1. /\ facts'.head = head /\ facts'.commit = review.commit /\ facts'.review = review.state
        /\ UNCHANGED <<head, stage, approvals, landed, review, armedBy, last>>
    BY <1>9 DEF ReadPullRequest, prVars, reviewVars
  <2> QED
    BY <2>1 DEF Landing, LandingInvariant, GreenLandingIsApproved
<1>10. CASE ReadThreads
  <2>1. /\ PastRead /\ facts'.head = facts.head /\ facts'.commit = facts.commit
        /\ facts'.review = facts.review
    BY <1>10 DEF ReadThreads, PastRead, TypeOK, FactsType
  <2> QED
    BY <1>10, <2>1, LandingRunGoesOn DEF ReadThreads, prVars, reviewVars
<1>11. CASE Decide
  <2>1. /\ PastRead /\ UNCHANGED <<head, stage, approvals, landed, review, armedBy>>
    BY <1>11 DEF Decide, PastRead, prVars, reviewVars
  <2>2. armedBy = "app" => Eligible(facts) /\ facts.armedBy = "app"
    BY <1>11, <2>1 DEF Decide, ArmInvariant, ArmOwned, FactsKept, Eligible
  <2>3. CASE Finish("failure")
    BY <2>1, <2>3, LandingRunEnds
  <2>4. CASE Decision(event, facts) = "skip" /\ Finish("success")
    BY <2>1, <2>2, <2>4, LandingRunEnds, DecideFacts
  <2>5. CASE Continue("update") \/ Continue("act")
    BY <2>1, <2>5, LandingRunGoesOn DEF Continue
  <2> QED
    BY <1>11, <2>3, <2>4, <2>5 DEF Decide
<1>12. CASE Enable
  <2>1. PastRead /\ UNCHANGED <<head, stage, approvals, review>>
    BY <1>12 DEF Enable, PastRead, prVars, reviewVars
  <2>2. ReviewHolds(facts)
    BY <1>12 DEF Enable, Decision, CanArm
  <2>3. stage # "pending" => head \in approvals
    BY <2>1, <2>2 DEF Landing, LandingInvariant, ReviewHolds
  <2>4. GreenLandingIsApproved'
    <3>1. CASE MergedBy("app") /\ Mergeable
      BY <2>1, <2>3, <3>1 DEF MergedBy, Mergeable, GreenLandingIsApproved
    <3>2. CASE UNCHANGED landed
      BY <2>1, <3>2 DEF Landing, GreenLandingIsApproved
    <3> QED
      BY <1>12, <3>1, <3>2 DEF Enable
  <2>5. PastRead' => UNCHANGED facts
    BY <1>12 DEF Enable, ThenUpdate, Finish, Continue, PastRead
  <2> QED
    BY <2>1, <2>3, <2>4, <2>5 DEF Landing, LandingInvariant
<1>13. CASE Disarm
  <2>1. PastRead /\ armedBy' = "none" /\ Finish("success")
    BY <1>13, UpdateFacts DEF Disarm, ThenUpdate, PastRead, ArmInvariant, ArmOwned
  <2> QED
    BY <1>13, <2>1, LandingRunEnds DEF Disarm, prVars, reviewVars
<1>14. CASE JobUpdate
  <2>1. PastRead /\ ReviewHolds(facts) /\ Finish("success")
    BY <1>14 DEF JobUpdate, PastRead, ArmInvariant, ActsOnFacts
  <2>2. CASE NewHead("app")
    <3>1. ~PastRead'
      BY <2>1 DEF Finish, PastRead
    <3> QED
      BY <1>14, <2>2, <3>1, LandingNewHead DEF JobUpdate
  <2>3. CASE UNCHANGED <<head, stage>>
    BY <1>14, <2>1, <2>3, LandingRunEnds DEF JobUpdate
  <2> QED
    BY <1>14, <2>2, <2>3 DEF JobUpdate, UpdateBranch
<1>15. CASE FailJob
  <2>1. ~PastRead' /\ last' = "failure"
    BY <1>15 DEF FailJob, Finish, PastRead
  <2> QED
    BY <1>15, <2>1, LandingRunGoesOn DEF FailJob, prVars, reviewVars
<1>16. CASE Sweep
  <2>1. CASE StartSweep
    BY <2>1, LandingStands DEF StartSweep, prVars, reviewVars, jobVars, TypeOK
  <2>2. CASE SweepFind
    BY <2>2, LandingStands DEF SweepFind, prVars, reviewVars, jobVars, TypeOK
  <2>3. CASE SweepUpdate
    <3>1. CASE NewHead("app")
      BY <2>3, <3>1, LandingNewHead DEF SweepUpdate, PastRead
    <3>2. CASE UNCHANGED <<head, stage>>
      BY <2>3, <3>2, LandingStands DEF SweepUpdate, TypeOK
    <3> QED
      BY <2>3, <3>1, <3>2 DEF SweepUpdate, UpdateBranch
  <2> QED
    BY <1>16, <2>1, <2>2, <2>3 DEF Sweep
<1>17. CASE UNCHANGED vars
  BY <1>17, LandingStands DEF vars, prVars, reviewVars, jobVars, TypeOK
<1> QED
  BY <1>1, <1>2, <1>3, <1>4, <1>5, <1>6, <1>7, <1>8, <1>9, <1>10, <1>11, <1>12, <1>13, <1>14,
     <1>15, <1>16, <1>17 DEF Next, Job

LEMMA Landed == ASSUME "early_review" \notin Allowed PROVE Spec => []Landing
<1>1. TypeOK /\ ArmInvariant /\ SettledArmIsGood /\ Landing /\ [Next]_vars => Landing'
  BY LandingStep
<1> QED
  BY <1>1, InitLanding, TypeCorrect, SettledArmCorrect, PTL DEF Spec

\* If codna never finishes a head before that head's own run has ended, no run acts
\* on the facts of one head after codna judged the next.
THEOREM LandingInvariantCorrect ==
    ASSUME "early_review" \notin Allowed
    PROVE  Spec => []LandingInvariant
<1>1. Landing => LandingInvariant
  BY DEF Landing
<1> QED
  BY <1>1, Landed, PTL

\* If codna never finishes a head before that head's own run has ended, every
\* head this App's auto-merge lands after a green run is one codna approved.
THEOREM GreenLandingCorrect ==
    ASSUME "early_review" \notin Allowed
    PROVE  Spec => []GreenLandingIsApproved
<1>1. Landing => GreenLandingIsApproved
  BY DEF Landing
<1> QED
  BY <1>1, Landed, PTL
-----------------------------------------------------------------------------
(* What the App lands while no run fails *)

\* Nobody rewrites Dependabot's commit, no call of a run fails, and codna does not
\* finish a head before the run of its push ended.
Undisturbed == Allowed \cap {"human_rewrite", "job_failure", "early_review"} = {}

\* No run that could leave this App's arm standing fails: its inputs are
\* well-formed, the first commit stays Dependabot's, and so an arm on a head codna
\* is done with rests on an approval of that head.
RunsSucceed ==
    /\ setting.dependabot => first = "signed"
    /\ armedBy = "app" \/ phase \in {"act", "update"} => setting.method /\ setting.oneApp
    /\ armedBy = "app" /\ phase = "idle" => last = "success"
    /\ stage # "pending" /\ armedBy = "app" => head \in approvals

\* A step of somebody else, who neither arms nor finishes a head.
LEMMA OthersLeaveRuns ==
    ASSUME RunsSucceed, UNCHANGED <<setting, phase, last>>,
           setting.dependabot => first' = "signed",
           armedBy' = "app" => armedBy = "app",
           stage' # "pending" => stage # "pending" /\ head' = head, approvals' = approvals
    PROVE  RunsSucceed'
BY DEF RunsSucceed

\* A step of a run that leaves the pull request alone and does not fail.
LEMMA RunSucceeds ==
    ASSUME RunsSucceed,
           UNCHANGED <<setting, first, armedBy, stage, head, approvals>>,
           phase' \in {"act", "update"} => setting.method /\ setting.oneApp,
           phase' = "idle" => last' = "success" \/ armedBy # "app" \/ UNCHANGED <<phase, last>>
    PROVE  RunsSucceed'
BY DEF RunsSucceed

\* When nobody disturbs the runs, every step keeps it.
LEMMA RunsSucceedStep ==
    ASSUME Undisturbed, TypeOK, ArmInvariant, SettledArmIsGood, Landing, RunsSucceed, [Next]_vars
    PROVE  RunsSucceed'
<1>1. ASSUME Merge \/ DependabotPush \/ MainPush \/ CodnaConcludes PROVE RunsSucceed'
  <2>1. CASE Merge
    BY <2>1, OthersLeaveRuns DEF RunsSucceed, Merge, MergedBy, reviewVars, jobVars
  <2>2. CASE DependabotPush
    BY <2>2, OthersLeaveRuns DEF DependabotPush, NewHead
  <2>3. CASE MainPush
    BY <2>3, OthersLeaveRuns DEF RunsSucceed, MainPush, reviewVars, jobVars
  <2>4. CASE CodnaConcludes
    BY <2>4, OthersLeaveRuns DEF RunsSucceed, CodnaConcludes, prVars, jobVars
  <2> QED
    BY <1>1, <2>1, <2>2, <2>3, <2>4
<1>2. CASE Codna
  <2>1. PICK commit \in {head - 1, head}, v \in Verdicts : CodnaReview(commit, v)
    BY <1>2 DEF Codna
  <2>2. /\ UNCHANGED <<setting, first, head, phase, last, armedBy>>
        /\ approvals \subseteq approvals'
    BY <2>1 DEF CodnaReview, prVars
  <2>3. CASE commit = head /\ stage = "pending"
    <3>1. pr = "open" /\ events = <<>> /\ phase = "idle"
      BY <2>1, <2>3 DEF CodnaReview, ReviewInTime, Undisturbed
    <3>2. review.commit < head /\ review.commit \in Nat /\ head \in Nat
      BY <2>3 DEF Landing, LandingInvariant, TypeOK
    <3>3. armedBy # "app"
      BY <3>1, <3>2 DEF SettledArmIsGood, ArmIsGood, RunsSucceed
    <3> QED
      BY <2>2, <3>1, <3>3 DEF RunsSucceed
  <2>4. CASE ~(commit = head /\ stage = "pending")
    <3>1. UNCHANGED stage
      BY <2>1, <2>4 DEF CodnaReview
    <3> QED
      BY <2>2, <3>1 DEF RunsSucceed
  <2> QED
    BY <2>3, <2>4
<1>3. CASE Human
  <2>1. CASE HumanArm \/ HumanDisarm
    BY <2>1, OthersLeaveRuns DEF RunsSucceed, HumanArm, HumanDisarm, prVars, reviewVars, jobVars
  <2>2. CASE HumanPush
    BY <2>2, OthersLeaveRuns DEF RunsSucceed, HumanPush, NewHead, Undisturbed
  <2>3. CASE HumanThread \/ HumanBlock \/ HumanDismiss
    BY <2>3, OthersLeaveRuns DEF RunsSucceed, HumanThread, HumanBlock, HumanDismiss, prVars, jobVars
  <2>4. CASE HumanClose \/ HumanReopen \/ HumanDraft
    BY <2>4, OthersLeaveRuns DEF RunsSucceed, HumanClose, HumanReopen, HumanDraft, reviewVars, jobVars
  <2> QED
    BY <1>3, <2>1, <2>2, <2>3, <2>4 DEF Human
<1>4. CASE StartJob
  <2>1. phase' = "metadata" \/ UNCHANGED phase
    BY <1>4 DEF StartJob
  <2> QED
    BY <1>4, <2>1, RunSucceeds DEF RunsSucceed, StartJob, prVars, reviewVars
<1>5. CASE ReadMetadata
  <2>1. first = "signed"
    BY <1>5 DEF ReadMetadata, ArmInvariant, ArmOwned, RunsSucceed
  <2> QED
    BY <1>5, <2>1, RunSucceeds DEF ReadMetadata, Continue, prVars, reviewVars
<1>6. CASE ReadPullRequest \/ ReadThreads
  BY <1>6, RunSucceeds DEF ReadPullRequest, ReadThreads, prVars, reviewVars
<1>7. CASE Decide
  <2>1. \/ Finish("failure") /\ ~(setting.method /\ setting.oneApp)
        \/ Finish("success")
        \/ setting.method /\ setting.oneApp /\ (Continue("update") \/ Continue("act"))
    BY <1>7 DEF Decide
  <2>2. phase' \in {"act", "update"} => setting.method /\ setting.oneApp
    BY <2>1 DEF Finish
  <2>3. phase' = "idle" => last' = "success" \/ armedBy # "app"
    BY <2>1 DEF Finish, Continue, RunsSucceed
  <2> QED
    BY <1>7, <2>2, <2>3, RunSucceeds DEF Decide, prVars, reviewVars
<1>8. CASE Enable
  <2>1. /\ UNCHANGED <<setting, first, head, stage, approvals, review>>
        /\ setting.method /\ setting.oneApp
    BY <1>8 DEF Enable, prVars, reviewVars, RunsSucceed
  <2>2. stage # "pending" => head \in approvals
    BY <1>8 DEF Enable, Decision, CanArm, ReviewHolds, PastRead, Landing, LandingInvariant
  <2>3. armedBy' = "app" /\ phase' = "idle" => last' = "success"
    BY <1>8 DEF Enable, MergedBy, ThenUpdate, Finish, Continue, ArmInvariant, ArmOwned
  <2> QED
    BY <2>1, <2>2, <2>3 DEF RunsSucceed
<1>9. CASE Disarm
  <2>1. armedBy' = "none"
    BY <1>9 DEF Disarm, ArmInvariant, ArmOwned
  <2> QED
    BY <1>9, <2>1 DEF RunsSucceed, Disarm, prVars, reviewVars
<1>10. CASE JobUpdate
  <2>1. phase' = "idle" /\ last' = "success" /\ UNCHANGED <<setting, first, armedBy, approvals>>
    BY <1>10 DEF JobUpdate, Finish
  <2>2. stage' # "pending" => UNCHANGED <<stage, head>>
    BY <1>10 DEF JobUpdate, UpdateBranch, NewHead
  <2> QED
    BY <2>1, <2>2 DEF RunsSucceed
<1>11. CASE FailJob
  BY <1>11 DEF FailJob, Undisturbed
<1>12. CASE Sweep
  <2>1. CASE StartSweep \/ SweepFind
    BY <2>1, OthersLeaveRuns DEF RunsSucceed, StartSweep, SweepFind, prVars, reviewVars, jobVars
  <2>2. CASE SweepUpdate
    BY <2>2, OthersLeaveRuns DEF RunsSucceed, SweepUpdate, UpdateBranch, NewHead
  <2> QED
    BY <1>12, <2>1, <2>2 DEF Sweep
<1>13. CASE UNCHANGED vars
  BY <1>13, OthersLeaveRuns DEF RunsSucceed, vars, prVars, reviewVars, jobVars
<1> QED
  BY <1>1, <1>2, <1>3, <1>4, <1>5, <1>6, <1>7, <1>8, <1>9, <1>10, <1>11, <1>12, <1>13 DEF Next, Job

\* A step that lands something lands a head that is approved.
LEMMA LandsApproved ==
    ASSUME TypeOK, Landing, RunsSucceed, ArmGoodForOneHead, [Next]_vars
    PROVE  ArmGoodForOneHead'
<1>1. UNCHANGED landed \/ (landed'.by = "app" => landed'.head = head /\ head \in approvals)
  <2>1. CASE Merge
    BY <2>1 DEF Merge, MergedBy, Mergeable, RunsSucceed
  <2>2. CASE Enable
    BY <2>2 DEF Enable, MergedBy, Mergeable, Decision, CanArm, ReviewHolds, PastRead, Landing,
                LandingInvariant
  <2>3. CASE ~Merge /\ ~Enable
    BY <2>3 DEF Next, DependabotPush, MainPush, Codna, CodnaReview, CodnaConcludes, Human, HumanArm,
                HumanDisarm, HumanPush, HumanThread, HumanBlock, HumanDismiss, HumanClose,
                HumanReopen, HumanDraft, Job, StartJob, ReadMetadata, ReadPullRequest, ReadThreads, Decide,
                Disarm, JobUpdate, FailJob, Sweep, StartSweep, SweepFind, SweepUpdate, vars
  <2> QED
    BY <2>1, <2>2, <2>3
<1>2. approvals \subseteq approvals'
  BY DEF Next, Merge, DependabotPush, MainPush, Codna, CodnaReview, CodnaConcludes, Human, HumanArm,
         HumanDisarm, HumanPush, HumanThread, HumanBlock, HumanDismiss, HumanClose,
         HumanReopen, HumanDraft, Job, StartJob, ReadMetadata, ReadPullRequest, ReadThreads, Decide, Enable,
         Disarm, JobUpdate, FailJob, Sweep, StartSweep, SweepFind, SweepUpdate, vars, reviewVars
<1> QED
  BY <1>1, <1>2 DEF ArmGoodForOneHead

\* "An arm is good for one head", as the workflow's header says, for any bounds and
\* any order of events: unless a person rewrites Dependabot's commit, a call of a run
\* fails or codna finishes a head before its run, no head lands by this App's
\* auto-merge that codna did not approve.
THEOREM ArmGoodForOneHeadOtherwise ==
    ASSUME Undisturbed
    PROVE  Spec => []ArmGoodForOneHead
<1>1. Init => RunsSucceed /\ ArmGoodForOneHead
  BY DEF Init, RunsSucceed, ArmGoodForOneHead
<1>2. TypeOK /\ ArmInvariant /\ SettledArmIsGood /\ Landing /\ RunsSucceed /\ ArmGoodForOneHead
      /\ [Next]_vars => RunsSucceed' /\ ArmGoodForOneHead'
  BY RunsSucceedStep, LandsApproved
<1>3. Spec => []Landing
  BY Landed DEF Undisturbed
<1> QED
  BY <1>1, <1>2, <1>3, TypeCorrect, SettledArmCorrect, PTL DEF Spec
-----------------------------------------------------------------------------
(* A person's auto-merge *)

\* A run that read a person's auto-merge ends at its decision.
EndsAtDecision == phase \in {"act", "update"} => facts.armedBy # "human"

LEMMA PersonsArm ==
    ASSUME NEW e, NEW f, f.armedBy = "human"
    PROVE  Decision(e, f) = "skip" /\ ~UpdateWanted(e, f)
BY DEF Decision, UpdateWanted

LEMMA EndsStep == ASSUME EndsAtDecision, [Next]_vars PROVE EndsAtDecision'
<1>1. CASE UNCHANGED <<phase, facts>>
  BY <1>1 DEF EndsAtDecision
<1>2. CASE StartJob \/ ReadMetadata \/ ReadPullRequest \/ ReadThreads
  BY <1>2 DEF StartJob, ReadMetadata, ReadPullRequest, ReadThreads, Continue, Finish, EndsAtDecision
<1>3. CASE Decide
  <2>1. CASE facts.armedBy = "human"
    <3>1. phase' = "idle"
      BY <1>3, <2>1, PersonsArm DEF Decide, Finish
    <3>2. QED
      BY <3>1 DEF EndsAtDecision
  <2>2. CASE facts.armedBy # "human"
    <3>1. phase' = "idle" \/ facts' = facts
      BY <1>3 DEF Decide, Finish, Continue
    <3>2. QED
      BY <2>2, <3>1 DEF EndsAtDecision
  <2>3. QED
    BY <2>1, <2>2
<1>4. CASE Enable \/ Disarm \/ JobUpdate \/ FailJob
  <2>1. phase' = "idle" \/ (phase = "act" /\ facts' = facts)
    BY <1>4 DEF Enable, Disarm, JobUpdate, FailJob, ThenUpdate, Finish, Continue
  <2>2. QED
    BY <2>1 DEF EndsAtDecision
<1>5. CASE Merge \/ DependabotPush \/ MainPush \/ Codna \/ CodnaConcludes \/ Human \/ Sweep
  <2>1. UNCHANGED <<phase, facts>>
    BY <1>5 DEF Merge, DependabotPush, MainPush, Codna, CodnaReview, CodnaConcludes, Human, HumanArm,
            HumanDisarm, HumanPush, HumanThread, HumanBlock, HumanDismiss, HumanClose, HumanReopen, HumanDraft,
            Sweep, StartSweep, SweepFind, SweepUpdate, jobVars
  <2>2. QED
    BY <1>1, <2>1
<1>6. CASE UNCHANGED vars
  BY <1>1, <1>6 DEF vars, jobVars
<1> QED
  BY <1>2, <1>3, <1>4, <1>5, <1>6 DEF Next, Job

\* For any bounds and any behaviour of people and codna: a run that read a person's
\* auto-merge neither disables nor replaces it, nor pushes to its head.
THEOREM SeenHumanArmKeptCorrect == Spec => SeenHumanArmKept
<1>1. Init => EndsAtDecision
  BY DEF Init, EndsAtDecision
<1>2. EndsAtDecision /\ [Next]_vars => EndsAtDecision'
  BY EndsStep
<1>3. EndsAtDecision =>
        [(armedBy = "human" /\ facts.armedBy = "human" /\ (Enable \/ Disarm \/ JobUpdate))
         => (armedBy' = "human" /\ head' = head)]_vars
  BY DEF EndsAtDecision, Enable, Disarm, JobUpdate
<1> QED
  BY <1>1, <1>2, <1>3, PTL DEF Spec, SeenHumanArmKept
=============================================================================
