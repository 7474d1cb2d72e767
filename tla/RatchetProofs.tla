--------------------------- MODULE RatchetProofs ---------------------------
(* For any repository, rules and pull requests: a green check at the scope  *)
(* of a diff is as good as a full scan of what it is merged into.           *)
EXTENDS Ratchet, TLAPS

\* What a pull request proposes lies in the files it changes and keeps.
Proposal(p) ==
    /\ changed[p] \subseteq Files
    /\ proposed[p] \subseteq In(changed[p] \ deleted[p], Findings)

\* The severe findings a pull request proposes that the baseline does not cover.
Uncovered(p, scores) ==
    LET B == BaselineOf(tool, mode, baseline)
    IN  IF mode = "ratchet" /\ B # NoBaseline THEN New(tool, B, scores, proposed[p]) ELSE {}

\* A green check read all that the pull request proposes, at whatever scope, and
\* found it covered; that stands while nobody edits the baseline.
Stands(p) ==
    /\ phase[p] = "open" /\ verdict[p] = "green"
    /\ drops[p] = {} /\ since[p] # "edited" /\ Filtered(p)
    => Uncovered(p, judged[p]) = {}

\* At each of its scopes a check reads all that the pull request proposes in files
\* the scanner knows.
LEMMA CheckReadsProposal ==
    ASSUME NEW p \in Pulls, Proposal(p), Filtered(p), drops[p] = {}, tool \in Tools,
           NEW scope \in Scopes(p), Verdicts(p, scope) = "green"
    PROVE  Uncovered(p, severe) = {}
<1> DEFINE B == BaselineOf(tool, mode, baseline)
<1>1. MergedBaseline(p) = baseline
    BY DEF MergedBaseline
<1>2. SUFFICES ASSUME mode = "ratchet", B # NoBaseline, NEW f \in New(tool, B, severe, proposed[p])
               PROVE  FALSE
    BY DEF Uncovered
<1>3. f \in Severe(tool, severe, proposed[p]) /\ KeyOf(tool, f) \notin B
    BY <1>2 DEF New
<1>4. f \in proposed[p] /\ f \in MergedCode(p)
    BY <1>3 DEF Severe, MergedCode
<1>5. f \in Findings /\ f[1] \in changed[p] \ deleted[p] /\ f[1] \in Known
    BY <1>4 DEF Proposal, In, Filtered
<1>6. ~Skipped(p, scope) /\ f \in Read(p, scope)
  <2>1. CASE scope.kind # "list"
      BY <2>1, <1>4 DEF Skipped, Read
  <2>2. CASE scope.kind = "list"
    <3>1. f[1] \in scope.files
        BY <2>2, <1>5 DEF Scopes, Whole, List
    <3>2. CASE tool = "opengrep"
      <4>1. f[1] \in Targets(p, scope)
          BY <3>1, <3>2, <1>5 DEF Targets, Known
      <4>2. QED
          BY <4>1, <3>2, <1>4 DEF Skipped, Read, In
    <3>3. CASE tool # "opengrep"
      <4>1. ~Skipped(p, scope)
          BY <3>1, <3>3, <1>5 DEF Skipped, Known
      <4>2. QED
          BY <4>1, <3>3, <1>4 DEF Read
    <3>4. QED
        BY <3>2, <3>3
  <2>3. QED
      BY <2>1, <2>2
<1>7. f \in New(tool, B, severe, Read(p, scope))
    BY <1>2, <1>3, <1>6 DEF New, Severe
<1>8. Verdicts(p, scope) = "red"
    BY <1>1, <1>2, <1>6, <1>7 DEF Verdicts, Verdict
<1>9. QED
    BY <1>8

Inv == TypeOK /\ \A p \in Pulls : Proposal(p) /\ Stands(p)

\* The keys of findings are keys.
LEMMA KeysType ==
    ASSUME NEW findings \in SUBSET Findings
    PROVE  KeysOf(tool, findings) \subseteq KeySpace
  BY DEF KeysOf, KeyOf, KeySpace, Findings

\* A merge leaves findings in the tree.
LEMMA MergedCodeType ==
    ASSUME TypeOK, NEW p \in Pulls PROVE MergedCode(p) \in SUBSET Findings
  BY DEF TypeOK, MergedCode

\* A merge leaves keys in the baseline.
LEMMA MergedBaselineType ==
    ASSUME TypeOK, NEW p \in Pulls
    PROVE  MergedBaseline(p) = NoBaseline \/ MergedBaseline(p) \in SUBSET KeySpace
  BY DEF TypeOK, MergedBaseline

\* Counting a bounded thing.
LEMMA CountType ==
    ASSUME TypeOK, NEW b \in Bounded, NEW max, Count(b, max)
    PROVE  used' \in [Bounded -> Nat]
  BY DEF TypeOK, Count

\* A pull request nothing of which changes keeps its verdict, whatever the tree
\* of the default branch comes to.
LEMMA Undisturbed ==
    ASSUME NEW q \in Pulls, Stands(q),
           tool' = tool, mode' = mode, baseline' = baseline,
           proposed'[q] = proposed[q], drops'[q] = drops[q], phase'[q] = phase[q],
           verdict'[q] = verdict[q], judged'[q] = judged[q],
           since'[q] # "edited" => since[q] # "edited"
    PROVE  Stands(q)'
<1>1. Uncovered(q, judged[q])' = Uncovered(q, judged[q])
    BY DEF Uncovered, BaselineOf, New, Severe, KeyOf
<1>2. Filtered(q)' = Filtered(q)
    BY DEF Filtered, Known
<1>3. QED
    BY <1>1, <1>2 DEF Stands

\* No pull request is open at first.
LEMMA InitInv == Init => Inv
<1> SUFFICES ASSUME Init PROVE Inv
    OBVIOUS
<1>1. baseline = NoBaseline \/ baseline \in SUBSET KeySpace
    BY KeysType DEF Init
<1>2. TypeOK
    BY <1>1, RatchetAssumption DEF Init, TypeOK, NoMeasure, Bounded
<1>3. \A p \in Pulls : Proposal(p) /\ Stands(p)
    BY DEF Init, Proposal, Stands, In
<1>4. QED
    BY <1>2, <1>3 DEF Inv

\* A pull request that is opened proposes what it may and has no verdict yet.
LEMMA OpenInv == ASSUME Inv, NEW p \in Pulls, OpenPull(p) PROVE Inv'
<1> USE DEF Inv
<1>1. used' \in [Bounded -> Nat]
    BY CountType DEF OpenPull, Bounded
<1>2. PICK files \in SUBSET Files, gone \in SUBSET Files :
      \E new \in SUBSET In(files \ gone, Findings) :
         /\ changed' = [changed EXCEPT ![p] = files]
         /\ deleted' = [deleted EXCEPT ![p] = gone]
         /\ proposed' = [proposed EXCEPT ![p] = new]
    BY DEF OpenPull
<1>3. TypeOK'
    BY <1>1, <1>2 DEF OpenPull, NoVerdict, TypeOK, KeySpace, In
<1>4. ASSUME NEW q \in Pulls PROVE Proposal(q)'
    BY <1>2 DEF TypeOK, Proposal, In
<1>5. ASSUME NEW q \in Pulls PROVE Stands(q)'
  <2>1. CASE q = p
      BY <2>1 DEF OpenPull, NoVerdict, Stands, TypeOK
  <2>2. CASE q # p
      BY <2>2, <1>2, Undisturbed DEF OpenPull, NoVerdict, TypeOK
  <2>3. QED
      BY <2>1, <2>2
<1>6. QED
    BY <1>3, <1>4, <1>5

\* A verdict is that of a scan at one of the scopes.
LEMMA CheckInv == ASSUME Inv, NEW p \in Pulls, CheckPull(p) PROVE Inv'
<1> USE DEF Inv
<1>1. PICK scope \in Scopes(p) : /\ verdict' = [verdict EXCEPT ![p] = Verdicts(p, scope)]
                                 /\ advice' = [advice EXCEPT ![p] = Advice(p, scope)]
    BY DEF CheckPull
<1>2. Verdicts(p, scope) \in {"green", "red"}
    BY DEF Verdicts, Verdict
<1>3. Advice(p, scope) \in SUBSET KeySpace
  <2>1. Fixed(tool, BaselineOf(tool, mode, MergedBaseline(p)), Read(p, scope)) \in SUBSET KeySpace
      BY MergedBaselineType DEF Fixed, BaselineOf
  <2>2. QED
      BY <2>1 DEF Advice
<1>4. TypeOK'
    BY <1>1, <1>2, <1>3 DEF CheckPull, TypeOK, KeySpace
<1>5. ASSUME NEW q \in Pulls PROVE Proposal(q)'
    BY DEF CheckPull, Proposal, In
<1>6. ASSUME NEW q \in Pulls PROVE Stands(q)'
  <2>1. CASE q = p
    <3>1. SUFFICES ASSUME verdict'[p] = "green", drops[p] = {}, Filtered(p)
                   PROVE  Uncovered(p, judged[p])' = {}
        BY <2>1 DEF Stands, CheckPull, Filtered, Known
    <3>2. Verdicts(p, scope) = "green" /\ judged'[p] = severe
        BY <1>1, <3>1 DEF CheckPull, TypeOK
    <3>3. Uncovered(p, severe) = {}
        BY <3>1, <3>2, CheckReadsProposal DEF TypeOK
    <3>4. Uncovered(p, judged[p])' = Uncovered(p, severe)
        BY <3>2 DEF CheckPull, Uncovered
    <3>5. QED
        BY <3>3, <3>4
  <2>2. CASE q # p
      BY <2>2, <1>1, Undisturbed DEF CheckPull, TypeOK
  <2>3. QED
      BY <2>1, <2>2
<1>7. QED
    BY <1>4, <1>5, <1>6

\* A change of one pull request takes its verdict with it and leaves the others be.
LEMMA EditInv == ASSUME Inv, NEW p \in Pulls, FollowAdvice(p) \/ UpdatePull(p) PROVE Inv'
<1> USE DEF Inv
<1>1. TypeOK'
  <2>1. CASE FollowAdvice(p)
      BY <2>1 DEF FollowAdvice, NoVerdict, TypeOK, KeySpace
  <2>2. CASE UpdatePull(p)
      BY <2>2 DEF UpdatePull, NoVerdict, TypeOK, KeySpace
  <2>3. QED
      BY <2>1, <2>2
<1>2. ASSUME NEW q \in Pulls PROVE Proposal(q)'
    BY DEF FollowAdvice, UpdatePull, Proposal, In
<1>3. ASSUME NEW q \in Pulls PROVE Stands(q)'
  <2>1. CASE q = p
      BY <2>1 DEF FollowAdvice, UpdatePull, NoVerdict, Stands, TypeOK
  <2>2. CASE q # p /\ FollowAdvice(p)
      BY <2>2, Undisturbed DEF FollowAdvice, NoVerdict, TypeOK
  <2>3. CASE q # p /\ UpdatePull(p)
      BY <2>3, Undisturbed DEF UpdatePull, NoVerdict, TypeOK
  <2>4. QED
      BY <2>1, <2>2, <2>3
<1>4. QED
    BY <1>1, <1>2, <1>3

\* A merge that leaves the baseline as it is takes nothing from the other checks.
LEMMA MergeInv == ASSUME Inv, NEW p \in Pulls, MergePull(p) PROVE Inv'
<1> USE DEF Inv
<1>1. code' \in SUBSET Findings /\ (baseline' = NoBaseline \/ baseline' \in SUBSET KeySpace)
    BY MergedCodeType, MergedBaselineType DEF MergePull
<1>2. since' \in [Pulls -> {"same", "moved", "edited"}]
    BY DEF MergePull, Moved
<1>3. TypeOK'
    BY <1>1, <1>2 DEF MergePull, TypeOK, KeySpace
<1>4. ASSUME NEW q \in Pulls PROVE Proposal(q)'
    BY DEF MergePull, TypeOK, Proposal, In
<1>5. ASSUME NEW q \in Pulls PROVE Stands(q)'
  <2>1. SUFFICES ASSUME phase'[q] = "open", verdict'[q] = "green", since'[q] # "edited"
                 PROVE  Stands(q)'
      BY DEF Stands
  <2>2. q # p /\ phase[q] = "open" /\ verdict[q] = "green" /\ Others(p, q)
      BY <2>1 DEF MergePull, TypeOK, Others
  <2>3. since'[q] = IF drops[p] # {} THEN "edited" ELSE Moved(q)
      BY <2>2 DEF MergePull
  <2>4. drops[p] = {} /\ since[q] # "edited"
      BY <2>1, <2>3 DEF Moved
  <2>5. baseline' = baseline
      BY <2>4 DEF MergePull, MergedBaseline
  <2>6. QED
      BY <2>2, <2>4, <2>5, Undisturbed DEF MergePull, TypeOK
<1>6. QED
    BY <1>3, <1>4, <1>5

\* Measuring changes nothing; committing what was measured edits the baseline under
\* every check; a new score changes no verdict given with an old one.
LEMMA RepositoryInv == ASSUME Inv, Measure \/ CommitMeasured \/ WorldMoves PROVE Inv'
<1> USE DEF Inv
<1>1. CASE Measure
  <2>1. used' \in [Bounded -> Nat]
      BY <1>1, CountType DEF Measure, Bounded
  <2>2. MeasuredKeys \in SUBSET KeySpace
      BY KeysType DEF MeasuredKeys, TypeOK
  <2>3. measured' \in [kind : {"none", "scan"}, code : SUBSET Findings, keys : SUBSET KeySpace]
      BY <1>1, <2>2 DEF Measure, TypeOK
  <2>4. TypeOK'
      BY <1>1, <2>1, <2>3 DEF Measure, TypeOK, KeySpace, pull
  <2>5. \A q \in Pulls : Proposal(q)' /\ Stands(q)'
      BY <1>1, Undisturbed DEF Measure, Proposal, In, pull
  <2>6. QED
      BY <2>4, <2>5
<1>2. CASE CommitMeasured
  <2>1. TypeOK'
      BY <1>2 DEF CommitMeasured, TypeOK, KeySpace, NoMeasure
  <2>2. \A q \in Pulls : Proposal(q)' /\ Stands(q)'
      BY <1>2 DEF CommitMeasured, TypeOK, Proposal, Stands, In
  <2>3. QED
      BY <2>1, <2>2
<1>3. CASE WorldMoves
  <2>1. used' \in [Bounded -> Nat]
      BY <1>3, CountType DEF WorldMoves, Bounded
  <2>2. severe' \in SUBSET Issues
      BY <1>3 DEF WorldMoves, TypeOK
  <2>3. TypeOK'
      BY <1>3, <2>1, <2>2 DEF WorldMoves, TypeOK, KeySpace, pull
  <2>4. \A q \in Pulls : Proposal(q)' /\ Stands(q)'
      BY <1>3, Undisturbed DEF WorldMoves, Proposal, In, pull
  <2>5. QED
      BY <2>3, <2>4
<1>4. QED
    BY <1>1, <1>2, <1>3

\* Every step keeps the invariant.
LEMMA NextInv == Inv /\ [Next]_vars => Inv'
<1> SUFFICES ASSUME Inv, [Next]_vars PROVE Inv'
    OBVIOUS
<1>1. CASE UNCHANGED vars
  <2>1. TypeOK'
      BY <1>1 DEF vars, pull, Inv, TypeOK, KeySpace
  <2>2. \A q \in Pulls : Proposal(q)' /\ Stands(q)'
      BY <1>1, Undisturbed DEF vars, pull, Inv, Proposal, In
  <2>3. QED
      BY <2>1, <2>2 DEF Inv
<1>2. QED
    BY <1>1, OpenInv, CheckInv, EditInv, MergeInv, RepositoryInv DEF Next

\* The inductive invariant: every green check still stands.
LEMMA InvAlways == Spec => []Inv
  BY InitInv, NextInv, PTL DEF Spec

\* Types, for any repository.
THEOREM RatchetTypeCorrect == Spec => []TypeOK
<1>1. Inv => TypeOK
    BY DEF Inv
<1>2. QED
    BY <1>1, InvAlways, PTL

\* A pull request that was open and is not any more was merged.
LEMMA OnlyMergesClose ==
    ASSUME Inv, [Next]_vars, NEW p \in Pulls, phase[p] = "open", phase'[p] = "none"
    PROVE  MergePull(p)
<1>1. ~(Measure \/ CommitMeasured \/ WorldMoves \/ UNCHANGED vars)
    BY DEF Measure, CommitMeasured, WorldMoves, pull, vars
<1>2. ASSUME NEW q \in Pulls, OpenPull(q) PROVE FALSE
    BY <1>2 DEF OpenPull, Inv, TypeOK
<1>3. ASSUME NEW q \in Pulls, CheckPull(q) \/ FollowAdvice(q) \/ UpdatePull(q) PROVE FALSE
    BY <1>3 DEF CheckPull, FollowAdvice, UpdatePull
<1>4. ASSUME NEW q \in Pulls, MergePull(q), q # p PROVE FALSE
    BY <1>4 DEF MergePull, Inv, TypeOK
<1>5. QED
    BY <1>1, <1>2, <1>3, <1>4 DEF Next

\* For any repository and any history of merges: a pull request that leaves the
\* baseline alone and whose check, however old, was green at the scope of its diff
\* keeps the full scan of the default branch green, as long as nobody edited the
\* baseline and nothing was scored higher since, and the findings it brings are in
\* files the scanner knows.
THEOREM GreenMergesKeepMainGreenCorrect == Spec => GreenMergesKeepMainGreen
<1> DEFINE Keeps == \A p \in Pulls :
                       phase[p] = "open" /\ phase'[p] = "none" /\ MainGreen
                       /\ drops[p] = {} /\ since[p] # "edited" /\ severe \subseteq judged[p]
                       /\ Filtered(p) => MainGreen'
<1>1. ASSUME Inv, [Next]_vars PROVE [Keeps]_vars
  <2> SUFFICES ASSUME ~(UNCHANGED vars), NEW p \in Pulls, phase[p] = "open", phase'[p] = "none",
                      MainGreen, drops[p] = {}, since[p] # "edited", severe \subseteq judged[p],
                      Filtered(p)
               PROVE  MainGreen'
      OBVIOUS
  <2>1. MergePull(p)
      BY <1>1, OnlyMergesClose
  <2>2. Uncovered(p, judged[p]) = {} /\ MergedBaseline(p) = baseline
      BY <1>1, <2>1 DEF MergePull, Inv, Stands, MergedBaseline
  <2> DEFINE B == BaselineOf(tool, mode, baseline)
  <2>3. ASSUME mode = "ratchet", B # NoBaseline PROVE New(tool, B, severe, MergedCode(p)) = {}
    <3>1. New(tool, B, severe, code) = {} /\ New(tool, B, judged[p], proposed[p]) = {}
        BY <2>2, <2>3 DEF MainGreen, Verdict, Uncovered
    <3>2. New(tool, B, severe, proposed[p]) \subseteq New(tool, B, judged[p], proposed[p])
        BY <2>3 DEF New, Severe
    <3>3. New(tool, B, severe, MergedCode(p))
              \subseteq New(tool, B, severe, code) \cup New(tool, B, severe, proposed[p])
        BY <2>3 DEF New, Severe, MergedCode
    <3>4. QED
        BY <3>1, <3>2, <3>3
  <2>4. Verdict(tool, mode, baseline, severe, MergedCode(p)) = "green"
      BY <2>3 DEF Verdict
  <2>5. QED
      BY <2>1, <2>2, <2>4 DEF MergePull, MainGreen
<1>2. QED
    BY <1>1, InvAlways, PTL DEF Spec, GreenMergesKeepMainGreen
-----------------------------------------------------------------------------
(* The two other facts the steps keep: what was measured is of one tree, and *)
(* what a scan of the whole tree called gone is gone.                        *)

MeasuredInv ==
    measured.kind = "scan" => tool # "gitleaks" /\ measured.keys = KeysOf(tool, measured.code)
Gone(p) ==
    /\ verdict[p] = "none" => advice[p] = {}
    /\ phase[p] = "open" /\ since[p] = "same" => advice[p] \cap KeysOf(tool, MergedCode(p)) = {}
FactsInv == MeasuredInv /\ (tool # "opengrep" => \A p \in Pulls : Gone(p))

\* Nothing else moves what a pull request would leave.
LEMMA StillGone ==
    ASSUME NEW q \in Pulls, Gone(q), tool' = tool, code' = code, changed'[q] = changed[q],
           proposed'[q] = proposed[q], phase'[q] = phase[q], advice'[q] = advice[q],
           verdict'[q] = verdict[q],
           since'[q] = "same" => since[q] = "same"
    PROVE  Gone(q)'
<1>1. MergedCode(q)' = MergedCode(q)
    BY DEF MergedCode, In
<1>2. QED
    BY <1>1 DEF Gone, KeysOf, KeyOf

\* A scanner other than opengrep reads the whole tree or nothing.
LEMMA AdviceIsGone ==
    ASSUME tool # "opengrep", NEW p \in Pulls, NEW scope
    PROVE  Advice(p, scope) \cap KeysOf(tool, MergedCode(p)) = {}
<1>1. CASE Skipped(p, scope)
    BY <1>1 DEF Advice
<1>2. CASE ~Skipped(p, scope)
  <2>1. Read(p, scope) = MergedCode(p)
      BY <1>2 DEF Read
  <2>2. QED
      BY <1>2, <2>1 DEF Advice, Fixed
<1>3. QED
    BY <1>1, <1>2

LEMMA FactsStart == ASSUME Init PROVE FactsInv
  BY DEF Init, FactsInv, MeasuredInv, NoMeasure, Gone

LEMMA FactsOfPulls ==
    ASSUME TypeOK, FactsInv, NEW p \in Pulls,
           OpenPull(p) \/ CheckPull(p) \/ FollowAdvice(p) \/ UpdatePull(p) \/ MergePull(p)
    PROVE  FactsInv'
<1>1. tool' = tool /\ measured' = measured
    BY DEF OpenPull, CheckPull, FollowAdvice, UpdatePull, MergePull
<1>2. MeasuredInv'
    BY <1>1 DEF FactsInv, MeasuredInv, KeysOf, KeyOf
<1>3. ASSUME tool # "opengrep", NEW q \in Pulls PROVE Gone(q)'
  <2>1. Gone(q)
      BY <1>3 DEF FactsInv
  <2>2. CASE OpenPull(p)
    <3>1. CASE q = p
        BY <2>2, <3>1 DEF OpenPull, NoVerdict, TypeOK, Gone
    <3>2. CASE q # p
        BY <2>1, <2>2, <3>2, StillGone DEF OpenPull, NoVerdict, TypeOK
    <3>3. QED
        BY <3>1, <3>2
  <2>3. CASE CheckPull(p)
    <3>1. PICK scope : /\ advice' = [advice EXCEPT ![p] = Advice(p, scope)]
                       /\ verdict' = [verdict EXCEPT ![p] = Verdicts(p, scope)]
        BY <2>3 DEF CheckPull
    <3>2. CASE q = p
      <4>1. advice'[p] = Advice(p, scope) /\ MergedCode(p)' = MergedCode(p)
          BY <2>3, <3>1 DEF CheckPull, TypeOK, MergedCode, In
      <4>2. advice'[p] \cap KeysOf(tool, MergedCode(p)) = {}
          BY <1>3, <4>1, AdviceIsGone
      <4>3. verdict'[p] # "none"
          BY <3>1 DEF TypeOK, Verdicts, Verdict
      <4>4. QED
          BY <1>1, <3>2, <4>1, <4>2, <4>3 DEF Gone, KeysOf, KeyOf
    <3>3. CASE q # p
        BY <2>1, <2>3, <3>1, <3>3, StillGone DEF CheckPull, TypeOK
    <3>4. QED
        BY <3>2, <3>3
  <2>4. CASE FollowAdvice(p) \/ UpdatePull(p)
    <3>1. CASE q = p
        BY <2>4, <3>1 DEF FollowAdvice, UpdatePull, NoVerdict, TypeOK, Gone
    <3>2. CASE q # p /\ FollowAdvice(p)
        BY <2>1, <3>2, StillGone DEF FollowAdvice, NoVerdict, TypeOK
    <3>3. CASE q # p /\ UpdatePull(p)
        BY <2>1, <3>3, StillGone DEF UpdatePull, NoVerdict, TypeOK
    <3>4. QED
        BY <2>4, <3>1, <3>2, <3>3
  <2>5. CASE MergePull(p)
    <3>1. SUFFICES ASSUME phase'[q] = "open", since'[q] = "same" PROVE Gone(q)'
      <4>1. verdict'[q] = "none" => advice'[q] = {}
          BY <2>1, <2>5 DEF MergePull, TypeOK, Gone
      <4>2. QED
          BY <4>1 DEF Gone
    <3>2. q # p /\ Others(p, q) /\ verdict[q] = "none"
        BY <2>5, <3>1 DEF MergePull, TypeOK, Others, Moved
    <3>3. advice[q] = {}
        BY <2>1, <3>2 DEF Gone
    <3>4. QED
        BY <2>5, <3>2, <3>3 DEF MergePull, TypeOK, Gone
  <2>6. QED
      BY <2>2, <2>3, <2>4, <2>5
<1>4. QED
    BY <1>1, <1>2, <1>3 DEF FactsInv

LEMMA FactsKeep == ASSUME TypeOK, FactsInv, [Next]_vars PROVE FactsInv'
<1>1. CASE Measure
  <2>1. MeasuredInv'
      BY <1>1 DEF Measure, MeasuredInv, MeasuredKeys, KeysOf, KeyOf
  <2>2. tool # "opengrep" => \A q \in Pulls : Gone(q)'
      BY <1>1, StillGone DEF FactsInv, Measure, pull
  <2>3. QED
      BY <1>1, <2>1, <2>2 DEF FactsInv, Measure
<1>2. CASE CommitMeasured
  <2>1. MeasuredInv'
      BY <1>2 DEF CommitMeasured, NoMeasure, MeasuredInv
  <2>2. tool # "opengrep" => \A q \in Pulls : Gone(q)'
      BY <1>2, StillGone DEF CommitMeasured, TypeOK, FactsInv
  <2>3. QED
      BY <1>2, <2>1, <2>2 DEF FactsInv, CommitMeasured
<1>3. CASE WorldMoves \/ UNCHANGED vars
  <2>1. tool' = tool /\ measured' = measured /\ code' = code /\ UNCHANGED pull
      BY <1>3 DEF WorldMoves, vars
  <2>2. MeasuredInv'
      BY <2>1 DEF FactsInv, MeasuredInv, KeysOf, KeyOf
  <2>3. tool # "opengrep" => \A q \in Pulls : Gone(q)'
      BY <2>1, StillGone DEF FactsInv, pull
  <2>4. QED
      BY <2>1, <2>2, <2>3 DEF FactsInv
<1>4. QED
    BY <1>1, <1>2, <1>3, FactsOfPulls DEF Next

LEMMA FactsAlways == Spec => [](Inv /\ FactsInv)
<1>1. Init => Inv /\ FactsInv
    BY InitInv, FactsStart
<1>2. Inv /\ FactsInv /\ [Next]_vars => (Inv /\ FactsInv)'
    BY NextInv, FactsKeep DEF Inv
<1>3. QED
    BY <1>1, <1>2, PTL DEF Spec

\* For any repository: what osv, trivy or gitleaks call gone from a branch that is
\* up to date, a full scan does not find.
THEOREM WholeTreeAdviceIsGoneCorrect == Spec => []WholeTreeAdviceIsGone
<1>1. FactsInv => WholeTreeAdviceIsGone
    BY DEF FactsInv, Gone, WholeTreeAdviceIsGone, AdvisedLinesAreGone
<1>2. QED
    BY <1>1, FactsAlways, PTL

\* For any repository: the keys of one tree, committed however much later, cover
\* that tree.
THEOREM MeasuredTreeIsCoveredCorrect == Spec => MeasuredTreeIsCovered
<1>1. Inv /\ FactsInv /\ [Next]_vars =>
         [measured.kind = "scan" /\ measured' = NoMeasure =>
             New(tool, baseline', severe', code') \cap measured.code = {}]_vars
  <2> SUFFICES ASSUME Inv, FactsInv, Next, measured.kind = "scan", measured' = NoMeasure,
                      NEW f \in New(tool, baseline', severe', code'), f \in measured.code
               PROVE  FALSE
      OBVIOUS
  <2>1. measured' # measured
      BY DEF NoMeasure
  <2>2. CommitMeasured
    <3>1. ~Measure
        BY DEF Measure, NoMeasure
    <3>2. QED
        BY <2>1, <3>1 DEF Next, OpenPull, CheckPull, FollowAdvice, UpdatePull, MergePull, WorldMoves
  <2>3. baseline' = KeysOf(tool, measured.code)
      BY <2>2 DEF CommitMeasured, FactsInv, MeasuredInv
  <2>4. baseline' # NoBaseline
    <3>1. KeysOf(tool, measured.code) \in SUBSET Keys
        BY KeysType DEF Inv, TypeOK, KeySpace, Keys
    <3>2. QED
        BY <2>3, <3>1, RatchetAssumption
  <2>5. KeyOf(tool, f) \notin baseline'
      BY <2>4 DEF New
  <2>6. QED
      BY <2>3, <2>5 DEF KeysOf
<1>2. QED
    BY <1>1, FactsAlways, PTL DEF Spec, MeasuredTreeIsCovered

\* For any repository whose full scan passes: a check is red for a severe finding
\* the pull request itself brings.
THEOREM RedIsEarnedCorrect == Spec => RedIsEarned
<1> DEFINE Earned == \A p \in Pulls :
                        verdict[p] # "red" /\ verdict'[p] = "red" /\ MainGreen /\ drops[p] = {}
                           => Brings(p)
<1>1. Inv /\ [Next]_vars => [Earned]_vars
  <2> SUFFICES ASSUME Inv, Next, NEW p \in Pulls, verdict[p] # "red", verdict'[p] = "red",
                      MainGreen, drops[p] = {}
               PROVE  Brings(p)
      OBVIOUS
  <2>1. CheckPull(p)
    <3>1. ~(Measure \/ CommitMeasured \/ WorldMoves)
        BY DEF Measure, CommitMeasured, WorldMoves, pull
    <3>2. ASSUME NEW q \in Pulls, OpenPull(q) \/ FollowAdvice(q) \/ UpdatePull(q) \/ MergePull(q)
          PROVE  FALSE
        BY <3>2 DEF OpenPull, NoVerdict, FollowAdvice, UpdatePull, MergePull, Inv, TypeOK
    <3>3. ASSUME NEW q \in Pulls, CheckPull(q), q # p PROVE FALSE
        BY <3>3 DEF CheckPull, Inv, TypeOK
    <3>4. QED
        BY <3>1, <3>2, <3>3 DEF Next
  <2>2. PICK scope : verdict' = [verdict EXCEPT ![p] = Verdicts(p, scope)]
      BY <2>1 DEF CheckPull
  <2>3. Verdicts(p, scope) = "red"
      BY <2>2 DEF Inv, TypeOK
  <2>4. MergedBaseline(p) = baseline
      BY DEF MergedBaseline
  <2> DEFINE B == BaselineOf(tool, mode, baseline)
  <2>5. /\ mode = "ratchet" /\ B # NoBaseline
        /\ New(tool, B, severe, Read(p, scope)) # {}
      BY <2>3, <2>4 DEF Verdicts, Verdict
  <2>6. PICK f \in New(tool, B, severe, Read(p, scope)) : TRUE
      BY <2>5
  <2>7. f \in Severe(tool, severe, Read(p, scope)) /\ KeyOf(tool, f) \notin B
      BY <2>5, <2>6 DEF New
  <2>8. f \in MergedCode(p)
      BY <2>7 DEF Severe, Read, In
  <2>9. f \in proposed[p]
    <3>1. SUFFICES ASSUME f \notin proposed[p] PROVE FALSE
        OBVIOUS
    <3>2. f \in code
        BY <2>8, <3>1 DEF MergedCode
    <3>3. f \in New(tool, B, severe, code)
        BY <2>5, <2>7, <3>2 DEF New, Severe
    <3>4. QED
        BY <2>5, <3>3 DEF MainGreen, Verdict
  <2>10. f \in Severe(tool, severe, proposed[p])
      BY <2>7, <2>9 DEF Severe
  <2>11. tool = "gitleaks" \/ B = baseline
      BY DEF BaselineOf
  <2>12. QED
      BY <2>4, <2>7, <2>10, <2>11 DEF Brings
<1>2. QED
    BY <1>1, InvAlways, PTL DEF Spec, RedIsEarned
=============================================================================
