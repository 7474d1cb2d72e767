------------------------------ MODULE Ratchet ------------------------------
(* The gate at work in one repository: pull requests scanned at the scope   *)
(* of their diff (changed.py, ci.run_ci) and merged on a green check, the   *)
(* default branch scanned in full, the baseline measured and shrunk.        *)
EXTENDS Gate, Naturals, FiniteSets

CONSTANTS Pulls,        \* pull requests
          UsedTools,    \* the scanners a run looks at, one at a time
          Modes,        \* the modes it looks at
          Scannable,    \* the files opengrep reads when they are listed (OPENGREP_EXT)
          Manifests,    \* the files that put osv in scope (MANIFEST_RE)
          Iac,          \* the files that put trivy in scope (IAC_RE)
          MaxPulls,     \* bound on pull requests opened
          MaxWorld,     \* bound on changes of the advisories and rules
          MaxMeasures   \* bound on measured baselines

ASSUME RatchetAssumption ==
    /\ UsedTools \subseteq Tools
    /\ Modes \subseteq {"advisory", "ratchet"}
    /\ Scannable \subseteq Files /\ Manifests \subseteq Files /\ Iac \subseteq Files
    /\ {MaxPulls, MaxWorld, MaxMeasures} \subseteq Nat
    /\ \A keys \in SUBSET Keys : NoBaseline # keys

VARIABLES
    tool, mode,         \* of this repository; never change
    severe,             \* the issues scored HIGH or CRITICAL today
    code,               \* the findings in the default branch's head
    baseline,           \* security/baseline/<tool>.txt there
    phase,              \* of each pull request: "none", "open"
    changed,            \* the files it changes
    deleted,            \* those it deletes
    proposed,           \* the findings in the files it changes, after it
    drops,              \* the baseline lines it deletes
    moved,              \* the files the default branch changed since it branched off
    since,              \* the default branch since its latest check, if any: the "same",
                        \* "moved" on, or its baseline "edited" too
    verdict,            \* of its latest check: "none", "green", "red"
    judged,             \* the severities of that check
    advice,             \* the keys that check names as no longer observed
    measured,           \* the measured baseline nobody committed yet
    used                \* how often each bounded thing happened

pull == <<phase, changed, deleted, proposed, drops, moved, since, verdict, judged, advice>>
vars == <<tool, mode, severe, code, baseline, pull, measured, used>>

Bounded == {"pull", "world", "measure"}
KeySpace == IF tool = "osv" THEN Issues ELSE Findings
NoMeasure == [kind |-> "none", code |-> {}, keys |-> {}]

\* Findings, keys, scopes and results stay what the scanners and the files hold.
TypeOK ==
    /\ tool \in Tools /\ mode \in {"advisory", "ratchet"}
    /\ severe \in SUBSET Issues /\ code \in SUBSET Findings
    /\ baseline = NoBaseline \/ baseline \in SUBSET KeySpace
    /\ phase \in [Pulls -> {"none", "open"}]
    /\ changed \in [Pulls -> SUBSET Files] /\ deleted \in [Pulls -> SUBSET Files]
    /\ proposed \in [Pulls -> SUBSET Findings]
    /\ drops \in [Pulls -> SUBSET KeySpace]
    /\ moved \in [Pulls -> SUBSET Files]
    /\ since \in [Pulls -> {"same", "moved", "edited"}]
    /\ verdict \in [Pulls -> {"none", "green", "red"}]
    /\ judged \in [Pulls -> SUBSET Issues]
    /\ advice \in [Pulls -> SUBSET KeySpace]
    /\ measured \in [kind : {"none", "scan"}, code : SUBSET Findings, keys : SUBSET KeySpace]
    /\ used \in [Bounded -> Nat]

Init ==
    /\ tool \in UsedTools /\ mode \in Modes
    /\ severe \in SUBSET Issues
    /\ code \in SUBSET Findings
    /\ baseline \in {NoBaseline, KeysOf(tool, code)}
    /\ phase = [p \in Pulls |-> "none"]
    /\ changed = [p \in Pulls |-> {}] /\ deleted = [p \in Pulls |-> {}]
    /\ proposed = [p \in Pulls |-> {}] /\ drops = [p \in Pulls |-> {}]
    /\ moved = [p \in Pulls |-> {}] /\ since = [p \in Pulls |-> "same"]
    /\ verdict = [p \in Pulls |-> "none"] /\ judged = [p \in Pulls |-> {}]
    /\ advice = [p \in Pulls |-> {}]
    /\ measured = NoMeasure
    /\ used = [b \in Bounded |-> 0]

Count(b, max) == used[b] < max /\ used' = [used EXCEPT ![b] = used[b] + 1]
-----------------------------------------------------------------------------
\* The tree and the baseline a pull request would leave (refs/pull/N/merge).
In(files, findings) == {f \in findings : f[1] \in files}
MergedCode(p) == (code \ In(changed[p], code)) \cup proposed[p]
MergedBaseline(p) == IF baseline = NoBaseline THEN NoBaseline ELSE baseline \ drops[p]

\* _pull_scope: the API's list, which names deleted files, and those of a push
\* meanwhile, or the diff's, which does not, or the whole tree when neither
\* answers.
Whole == [kind |-> "ALL", files |-> {}]
List(files) == [kind |-> "list", files |-> files]
ScopesMissingAFile(p) == {Whole} \cup {List(changed[p] \ {f}) : f \in changed[p]}
Scopes(p) ==
    {Whole} \cup {List(files) : files \in {fs \in SUBSET Files : changed[p] \ deleted[p] \subseteq fs}}

\* What a check reads at a scope: gitleaks the whole tree; opengrep those of the
\* listed files that still exist and that it scans; osv and trivy the whole tree,
\* when one of the listed files is a manifest or an infrastructure definition.
\* A scanner with nothing to read is skipped.
Targets(p, scope) == (scope.files \cap Scannable) \ deleted[p]
Skipped(p, scope) ==
    /\ scope.kind = "list"
    /\ \/ tool = "opengrep" /\ Targets(p, scope) = {}
       \/ tool = "osv" /\ scope.files \cap Manifests = {}
       \/ tool = "trivy" /\ scope.files \cap Iac = {}
Read(p, scope) ==
    IF Skipped(p, scope) THEN {}
    ELSE IF tool = "opengrep" /\ scope.kind = "list" THEN In(Targets(p, scope), MergedCode(p))
    ELSE MergedCode(p)
Verdicts(p, scope) ==
    IF Skipped(p, scope) THEN "green"
    ELSE Verdict(tool, mode, MergedBaseline(p), severe, Read(p, scope))
AdviceOfASkippedScan(p, scope) ==
    Fixed(tool, BaselineOf(tool, mode, MergedBaseline(p)), Read(p, scope))
Advice(p, scope) ==
    IF Skipped(p, scope) THEN {}
    ELSE Fixed(tool, BaselineOf(tool, mode, MergedBaseline(p)), Read(p, scope))

\* A push to the pull request's branch: its new head has no check yet.
NoVerdict(p) ==
    /\ verdict' = [verdict EXCEPT ![p] = "none"] /\ advice' = [advice EXCEPT ![p] = {}]
    /\ judged' = [judged EXCEPT ![p] = {}] /\ since' = [since EXCEPT ![p] = "same"]

OpenPull(p) ==
    /\ phase[p] = "none"
    /\ Count("pull", MaxPulls)
    /\ \E files \in SUBSET Files, gone \in SUBSET Files :
       \E new \in SUBSET In(files \ gone, Findings) :
          /\ gone \subseteq files
          /\ changed' = [changed EXCEPT ![p] = files]
          /\ deleted' = [deleted EXCEPT ![p] = gone]
          /\ proposed' = [proposed EXCEPT ![p] = new]
    /\ drops' = [drops EXCEPT ![p] = {}]
    /\ phase' = [phase EXCEPT ![p] = "open"]
    /\ moved' = [moved EXCEPT ![p] = {}]
    /\ NoVerdict(p)
    /\ UNCHANGED <<tool, mode, severe, code, baseline, measured>>

\* The required check of a pull request.
CheckPull(p) ==
    /\ phase[p] = "open" /\ moved[p] \cap changed[p] = {}
    /\ \E scope \in Scopes(p) :
          /\ verdict' = [verdict EXCEPT ![p] = Verdicts(p, scope)]
          /\ advice' = [advice EXCEPT ![p] = Advice(p, scope)]
    /\ judged' = [judged EXCEPT ![p] = severe] /\ since' = [since EXCEPT ![p] = "same"]
    /\ UNCHANGED <<tool, mode, severe, code, baseline, phase, changed, deleted, proposed, drops,
                   moved, measured, used>>

\* annotate: "N baseline entries no longer observed -- shrink security/baseline/<tool>.txt".
FollowAdvice(p) ==
    /\ phase[p] = "open" /\ advice[p] # {}
    /\ drops' = [drops EXCEPT ![p] = drops[p] \cup advice[p]]
    /\ NoVerdict(p)
    /\ UNCHANGED <<tool, mode, severe, code, baseline, phase, changed, deleted, proposed, moved,
                   measured, used>>

\* The default branch is merged into the pull request's branch.
UpdatePull(p) ==
    /\ phase[p] = "open" /\ moved[p] # {} /\ moved[p] \cap changed[p] = {}
    /\ moved' = [moved EXCEPT ![p] = {}]
    /\ NoVerdict(p)
    /\ UNCHANGED <<tool, mode, severe, code, baseline, phase, changed, deleted, proposed, drops,
                   measured, used>>

\* A green check lets the pull request merge, also when the default branch went on
\* since; where branches have to be up to date it does so for fewer of them.
Others(p, q) == q # p /\ phase[q] = "open"
Moved(q) == IF since[q] = "edited" THEN "edited" ELSE "moved"
MergePull(p) ==
    /\ phase[p] = "open" /\ verdict[p] = "green" /\ moved[p] \cap changed[p] = {}
    /\ code' = MergedCode(p)
    /\ baseline' = MergedBaseline(p)
    /\ moved' = [q \in Pulls |-> IF Others(p, q) THEN moved[q] \cup changed[p] ELSE {}]
    /\ since' = [q \in Pulls |-> IF ~(Others(p, q) /\ verdict[q] # "none") THEN "same"
                                 ELSE IF drops[p] # {} THEN "edited" ELSE Moved(q)]
    /\ phase' = [phase EXCEPT ![p] = "none"]
    /\ changed' = [changed EXCEPT ![p] = {}] /\ deleted' = [deleted EXCEPT ![p] = {}]
    /\ proposed' = [proposed EXCEPT ![p] = {}] /\ drops' = [drops EXCEPT ![p] = {}]
    /\ verdict' = [verdict EXCEPT ![p] = "none"] /\ judged' = [judged EXCEPT ![p] = {}]
    /\ advice' = [advice EXCEPT ![p] = {}]
    /\ UNCHANGED <<tool, mode, severe, measured, used>>

\* workflow_dispatch with measure_baseline: the keys of every finding of a full
\* scan; secrets are not measured.
MeasuredKeysOfNew == KeysOf(tool, New(tool, baseline, severe, code))
MeasuredKeys == KeysOf(tool, code)
Measure ==
    /\ tool # "gitleaks"
    /\ Count("measure", MaxMeasures)
    /\ measured' = [kind |-> "scan", code |-> code, keys |-> MeasuredKeys]
    /\ UNCHANGED <<tool, mode, severe, code, baseline, pull>>

\* "Download and commit it as-is."
CommitMeasured ==
    /\ measured # NoMeasure
    /\ baseline' = measured.keys /\ measured' = NoMeasure
    /\ since' = [q \in Pulls |-> IF verdict[q] # "none" THEN "edited" ELSE since[q]]
    /\ UNCHANGED <<tool, mode, severe, code, phase, changed, deleted, proposed, drops, moved,
                   verdict, judged, advice, used>>

\* An advisory or a rule is scored anew.
WorldMoves ==
    /\ Count("world", MaxWorld)
    /\ \E i \in Issues : severe' = (severe \ {i}) \cup ({i} \ severe)
    /\ UNCHANGED <<tool, mode, code, baseline, pull, measured>>

Next ==
    \/ \E p \in Pulls : OpenPull(p) \/ CheckPull(p) \/ FollowAdvice(p)
                        \/ UpdatePull(p) \/ MergePull(p)
    \/ Measure \/ CommitMeasured \/ WorldMoves

Spec == Init /\ [][Next]_vars
-----------------------------------------------------------------------------
\* A full scan of the default branch passes.
MainGreen == Verdict(tool, mode, baseline, severe, code) = "green"

\* What a pull request proposes lies in files the scanner looks at when they
\* are listed.  (A finding elsewhere is skipped by the check and met by the full
\* scan.)
Known == IF tool = "opengrep" THEN Scannable ELSE IF tool = "osv" THEN Manifests
         ELSE IF tool = "trivy" THEN Iac ELSE Files
Filtered(p) == \A f \in proposed[p] : f[1] \in Known

\* A pull request that leaves the baseline alone and passed a check at the scope
\* of its diff does not turn the full scan of the default branch red, however old
\* the check and whatever merged since, as long as no merge edited the baseline
\* and nothing is scored higher since.
GreenMergesKeepMainGreen ==
    [][\A p \in Pulls :
          phase[p] = "open" /\ phase'[p] = "none" /\ MainGreen
          /\ drops[p] = {} /\ since[p] # "edited" /\ severe \subseteq judged[p] /\ Filtered(p)
             => MainGreen']_vars

\* A check fails for what the pull request itself brings: a severe finding in
\* a file it changes that no baseline line covers, or a line it deletes.
Brings(p) ==
    \E f \in Severe(tool, severe, proposed[p]) :
       tool = "gitleaks" \/ KeyOf(tool, f) \notin MergedBaseline(p)
RedIsEarned ==
    [][\A p \in Pulls :
          verdict[p] # "red" /\ verdict'[p] = "red" /\ MainGreen /\ drops[p] = {}
             => Brings(p)]_vars

\* A measured baseline, committed as it is however much later, covers the tree it
\* was measured on: what a full scan then calls new is not of that tree, whatever
\* was merged and scored anew since.
MeasuredTreeIsCovered ==
    [][measured.kind = "scan" /\ measured' = NoMeasure =>
          New(tool, baseline', severe', code') \cap measured.code = {}]_vars

\* The keys the gate tells a pull request's author to delete from the baseline
\* are keys a full scan does not find, while the default branch stays the same.
AdvisedLinesAreGone ==
    \A p \in Pulls : phase[p] = "open" /\ since[p] = "same"
                        => advice[p] \cap KeysOf(tool, MergedCode(p)) = {}

\* So it is of the scanners whose diff-scoped scan reads the whole tree or nothing.
WholeTreeAdviceIsGone == tool # "opengrep" => AdvisedLinesAreGone
=============================================================================
