# A formal model of the security toolchain

TLA+ modules for the parts of `thyn-ai/security-toolchain` in which order,
concurrency, partial failure or stale information decide whether the program is
right, the TLC configurations that check them on small instances, and TLAPS
proofs of the main results for every instance. Paths below are those of the
repository; `auto-merge.yml` is `.github/workflows/dependabot-auto-merge.yml`.

Contents: the inventory of the system; the modules; the runs; what the runs
refute; fairness; proofs; what is not modelled; the plan; how to run it.

## 1. The system

The repository ships one Python package (`thyn-sec`, run by pre-commit hooks
and CI), reusable workflows that the fleet's repositories call, and a script
that bumps the fleet's pins on a release.

| Component | State it keeps | Operations | Interacts through |
|---|---|---|---|
| Auto-merge workflow, `auto-merge.yml`, caller `templates/dependabot-auto-merge.yml` | none of its own; it reads and writes a pull request's auto-merge, head and branch on GitHub | `enable` job (read metadata, read the pull request, count threads, decide, enable / disarm, update the branch), `sweep` job | GitHub's events, `gh`, the reviewer codna, Dependabot, people |
| Gate, `gate.py` | `security/baseline/<tool>.txt` | parse reports, read and write baselines, `evaluate`, exit code, annotate | reports of four scanners; called by `ci.py` and the hooks |
| CI run, `ci.py`, `cli.py`, `security-full.yml`, `action.yml` | report files, the copy for code scanning, the measured baseline artifact, the step's outputs and exit code | `run_ci`: scan, skip, demote, gate, copy, drop, measure, write the outputs; upload | scope from `changed.py`, binaries from `fetch.py`, GitHub code scanning |
| Scope, `changed.py` | a list file between two jobs | from the environment, the event, the API's pages, `git diff`; write and read the list; choose targets | GitHub API, git |
| Binary cache, `fetch.tool_path` | `<cache>/<tool>/<version>/<tool>` | lookup, download with retries, verify, extract, chmod, rename | other `thyn-sec` processes of the same user |
| Rules cache, `fetch.rules_path` | `rules/<bundle>-<commit>/` and `.complete` | lookup, download, extract, rmtree, rename, mark | as above; `hooks.opengrep_configs` |
| Hooks, `hooks.py` | none | one scanner run each; `resolve_overlay`, a recursion over `opengrep-overlays.json` | caches, gate |
| Lock, platform, repository helpers | `lock.json`, read-only | lookups | everybody |
| Pin verification, `verify.py` | none | compares a repository's pins | fleet workflow |
| Fleet propagation, `scripts/propagate.py` | branches and pull requests in the fleet | plan, commit, push, open a pull request | GitHub, git |

Which behaviours are hard, and the property that makes each component correct:

* **Auto-merge.** Four parties change a pull request while a run, started by an
  event that may already be superseded, acts on facts read in two calls a while
  ago. GitHub keeps both an enabled auto-merge and an approval when a new head
  is pushed; the workflow's promise is that *an arm is good for one head*:
  only a head codna approved lands by this App's arm, a person's auto-merge is
  left alone, and what codna approves does land, also under a ruleset that
  requires up-to-date branches, without anybody's help.
* **Gate and CI run.** A pull request is judged by a scan of its diff, the
  default branch by a scan of everything, against a baseline that other pull
  requests and measurements change. The diff-scoped judgement has to be worth
  the full one, red must be earned, and what is called obsolete must be gone.
* **One run.** Four scanners run one after the other, each may fail or be
  interrupted at any point, and opengrep's report is rewritten, parsed, copied and
  cut on the way. Green must mean that the change was scanned, the report must
  say the same to the gate, to code scanning and in the artifact, and a baseline
  is measured whole or not at all.
* **Overlays.** They extend one another, in diamonds or circles; a pack that is
  lost there is a rule nobody runs.
* **Scope.** It must never silently be narrower than the change: pages that
  fail or shift, limits of the API, missing fields, names that do not survive
  the way through git and the list file.
* **Caches.** Several processes, killed at any step, share a directory that
  later runs trust without verifying it again. What is trusted must be whole.
* **Propagation.** A bump is rendered from a clone and merged much later; runs of
  other releases, reruns after partial failure and edits of people come in
  between. The pins of a repository must move together, and its own choice of
  `auto_merge_majors` must survive.

`PROJECT.json` lists each hazard at its line with the properties for it.

## 2. The modules

| Module | Models | Composes |
|---|---|---|
| `AutoMerge` | both jobs of `auto-merge.yml` on one pull request, with GitHub, Dependabot, codna and people | |
| `MCAutoMerge` | the repositories and verdicts the runs use | `AutoMerge` |
| `VerifiedCache` | abstract: ask, be given the whole item or be refused | |
| `ToolCache` | `fetch.tool_path`, `download_verified` | refines `VerifiedCache` |
| `RulesCache` | `fetch.rules_path`, `hooks.opengrep_configs` | refines `VerifiedCache` |
| `Gate` | keys, severity, `evaluate`, exit code (pure operators) | |
| `Ratchet` | the gate over time in one repository: pull requests, merges, baselines | `Gate` |
| `MCRatchet` | sets and symmetry | `Ratchet` |
| `ChangedFiles` | `changed.py` from event to targets | |
| `OpengrepReport` | the levels of opengrep's report through `demote_low_confidence_levels`, `parse_opengrep_sarif`, `drop_audit_results` (pure operators) | `Gate` |
| `CiRun` | one process that scans and gates: `thyn-sec ci` or a local hook | `OpengrepReport` |
| `Overlays` | `hooks.resolve_overlay`, call by call | |
| `SecurityRun` | the job of `security-full.yml`, from the event to the upload; the hooks | `ChangedFiles`, `CiRun`, `Overlays` |
| `MCSecurityRun` | the initial states the run of `SecurityRun` looks at | `SecurityRun` |
| `FleetReleases` | abstract: a release is proposed to a repository, withdrawn, or accepted whole | |
| `Fleet` | `propagate.py` over the fleet's repositories, with their pull requests, and the agreement `verify.py` asks for | refines `FleetReleases` |
| `MCFleet` | the fleet of the run, its starting trees, symmetry | `Fleet` |
| `*Proofs` | the theorems, one module per component | |

### AutoMerge

One pull request. `setting` is what the caller, the repository and the pull request's
origin fix: author, cross-repository (a head never moves to another repository),
the `Allow auto-merge` setting, merge queue, ruleset,
update type, inputs. `pr`, `head`, `first`, `base`, `draft`, `armedBy`, `review`,
`opinion`, `objection`, `threads`, `stage` are the pull request on GitHub; heads
are numbers, the empty string of a workflow output is `"none"`. `events`,
`phase`, `event`, `facts`, `last` are the `enable` job. The actions of a run
follow the steps of the file: `StartJob` (the caller's `if` and the concurrency
group: a later event ends the run under way wherever it is), `ReadMetadata`,
`ReadPullRequest` (one `gh pr view`, one snapshot), `ReadThreads` (a second
call), `Decide`, `Enable` or `Disarm`, `JobUpdate`. `Decision`, `UpdateWanted`
and the operators they use are the pure part of the Decide step. `SweepFind` and
`SweepUpdate` are the other job. `"job_failure"` lets any step fail.

GitHub is modelled from how the workflow's comments and calls describe it:
`reviewDecision` keeps an approval across pushes; `gh pr merge --auto` merges at
once when nothing is missing and arms otherwise, whatever head is there by then;
`gh pr update-branch` reads the head anew. codna submits a review and then
concludes its check; it may also still submit a review of the head before.

`Allowed` names the behaviours of the environment a run includes. Two of them are
timing assumptions when absent: without `"early_review"` codna does not finish
its first review of a head before the run of that head's push ended (a review
takes minutes, a run seconds), and without `"early_sweep"` a sweep does not
read while an enable run is between its read and its end.

### ToolCache, RulesCache, VerifiedCache

`ToolCache`: each process works in its own temporary directory; only `Replace`
touches the shared path. A wrong digest is final, a network error is retried up
to `Attempts`. `Exit` is the end of a process, its kill, or an error of the disk,
at any step; after it a process may start again.

`RulesCache`: the target is a directory, so publishing it takes `Exists`, `List`,
`Unlink` (one entry at a time, through the opened directory as
`shutil.rmtree` does), `Rmdir`, `Replace`, `Mark`. Directories are inodes: a
process can remove entries of a directory another process published. `Scan`
takes the packs that are there and skips the rest, as `opengrep_configs` does
with a warning. `Sharing = "alone"` runs one process at a time.

Both refine `VerifiedCache` through `Stored` (absent or whole) and `Told`.

### Gate and Ratchet

A finding is a pair of file and issue; the key in the baseline is the finding,
except for osv, whose key has no path. `Gate` holds the severity cut, `evaluate`
and the exit code. In `Ratchet`, `code` is the set of findings of the default
branch; a pull request replaces the findings of the files it changes. `Scopes`
are what `_pull_scope` may return for it: the whole tree, or any list with the files
it changes and keeps (which is what `CoversTheChange` says of the derivation).
`Targets`, `Skipped` and `Read` are what each scanner makes of a list: opengrep
reads the listed files that still exist and whose names it scans (`Scannable`, for
`OPENGREP_EXT`); osv and trivy read the whole tree when a listed file is of theirs
(`Manifests`, `Iac`, for `MANIFEST_RE` and `IAC_RE`); gitleaks reads everything.
A scanner with nothing to read is skipped, which is green and advises nothing.
A conflict with what merged meanwhile (`moved`) blocks check, update and merge;
a pull request that is merely behind may merge, which a branch that asks for
up-to-date pull requests allows less often. `since` says what happened to the
default branch after the pull request's latest check: nothing, a merge, or an
edit of the baseline. `WorldMoves` rescoring an advisory or rule changes what is severe at any time.

### ChangedFiles

The derivation as one process: `FromEnv`, `FromEvent`, `ReadPage` / `FailPage`,
`GitDiff`, `WriteList`, `ReadList`. `change` is what the event's commits change,
`listed` what the pull request lists now. `Push` turns it into another list, any
number of times before and between the pages; `Pushes` may be any pairs of lists, so
files are added, removed and reverted. `slipped` remembers the names a push took
from the pages that were still to be read, off the list or onto a page already
read. A push event has the ref that was pushed (`pushed`: a branch or a tag, with the
default branch's name or another) and the fields that tell it (`tells`:
`GITHUB_REF`, the payload's `ref`, `GITHUB_REF_NAME`, `GITHUB_REF_TYPE`);
`PushedDefault` decides from these as the code does.
Page size and page limit (100 and 30) are constants, scaled to 2 and 2: each
list length that behaves differently is among the lists (none, less than a page,
a full page, in between, full pages, more than the API lists). Names are opaque;
those git quotes (`Odd`), those with blanks at an end (`Padded`) and deleted ones
(`Deletions`) are told apart because the code treats them differently.

### OpengrepReport, CiRun

A report is the level of each rule and a set of results, each with a level of its
own or `"unset"`. An issue of `Gate` is a rule; `Audit` are the rules the code takes
for low confidence, of which `Tagged` are those with the tag (the others are known
by their id, which the parser does not look at: they do not block because they
were demoted before). `Written` is what opengrep writes, with any choice of
results that leave their level to the rule; it lists every rule it ran.

`CiRun` has one action per step of `run_ci`: `Skip` and the wrappers
`ScanGitleaks`, `ScanOpengrep` (then `DemoteReport`, `ParseReport`, `CopyReport`,
`DropFromCopy`), `ScanOsv`, `ScanTrivy`, then `Conclude`, `MeasureOne` for each
scanner that ran, `WriteOutputs`. `at` is the step that comes next, `tree` what each
scanner would find in the whole tree, `Hits` what it finds of it. Two kinds of
errors end a run before its outputs are written: `Fail` is an exception `main`
turns into exit 2, `Crash` one it does not know (a report of the wrong shape, a
baseline off CI, a copy that cannot be written), `Interrupt` is Ctrl-C.
What was written stays: a measurement may
be interrupted between two baselines.

### Overlays

`stack` holds the calls of `visit` under way, each with the field it walks and its
place there; `seen`, `lists` and `resolved` are the code's `seen`, `packs` and
`excludes`, and how the call ended. `Shapes` are the files looked at: an overlay has
three lists and the fields of it that are of the wrong type.

### SecurityRun

The derivation writes `scope` and `files`; `ScanAndGate` starts `CiRun` with them,
or, for a hook, with the files of the change. The scan waits for `ResolveOverlay` and
for a configuration (`Configs`); where there is none, what remains is `Fail`.
`UploadOpengrep` gives code scanning the file the outputs name, if outputs were
written; it may not happen (`continue-on-error`, a fork's token).

### Fleet

`main` is what each repository's default branch pins: a tag for the pre-commit
block, the gate's caller and the auto-merge caller (or `Absent`), and the
`auto_merge_majors` line: a bare `"on"` or `"off"`, or `"unread"`, a choice with a
comment after it or in quotes, which the regular expression of propagate.py:136
does not match. A bump branch is known by repository and tag, as its
name is; `fork` keeps the tree it was cut from (what it holds is `Bumped` of it),
`request` its pull request. `pc`, `tag`, `todo`, `repo`, `clone` are the fan-out
runs; `StartRun`, `Clone`, `Plan`, `Push`, `Create`, `End` follow `main` and
`propagate`, and `StepFails` is a `sh` that raises. `Merge` is GitHub's
squash: each pin and the choice are merged three-way, line by line, from `fork`;
what both sides changed differently is a conflict and cannot be merged. Overlay
arguments, the `merge_group` trigger and permissions of the security caller are
text the pins do not depend on and are left out; a run whose only change would
be such text ends as "already at the tag" in the model.

`FleetReleases` is what all this comes to for a repository: what its managed files
pin, its choice, and the releases under review. `Fleet` implements it through
`Pinned`, `Choice` and `Review`.

## 3. The runs

| Run | Question | Bounds |
|---|---|---|
| `arm` | Does an arm rest on an approval of the current head once everything is answered, and is what lands green approved? | 2 heads by push, 1 push to main, 1 review beyond the first of a head; 12 settings that differ in one guard each; all four verdicts; reordered events, failing jobs, force-pushes, dismissals |
| `arm_people` | Does a person's auto-merge that a run saw survive that run? Is every head the App's arm lands one codna approved, while no step fails and nobody rewrites the branch? | 2 heads by push, 1 push to main, one review a head, clean or with findings; people arm, disarm, comment, block, close, reopen, convert to draft and back; merge state unreadable; early sweeps |
| `arm_live` | Does what codna approves land, does a branch that fell behind catch up, does an unfounded arm end? | 3 heads by push, 2 pushes to main, strict, queued and ruled repositories |
| `tool_cache` | Is the cached binary verified, whoever is killed where? Does the cache keep its promise, does every run end? | 3 processes, one offline, 3 attempts, 4 starts |
| `rules` | The same for the rules directory, one process at a time, killed between any two steps | 2 processes, one offline, 2 packs, 3 directories, 5 starts |
| `ratchet` | Is a green check of a diff worth a full scan, is red earned, is advised debt gone, does a baseline committed late cover what was measured? | 2 pull requests, 2 files (one every filter knows, one none does), 1 issue, four scanners, two modes, 1 rescoring, 1 measurement |
| `security_run` | Does the scope cover the change, does green mean the change was scanned, do verdict, upload and artifact agree, is a measured baseline whole, is an overlay resolved to all it stands for? | 2 files a page, 2 pages, any number of pushes that add files or take one out; 3 rules, one of each kind; 3 overlays; four families of initial states, below |
| `fleet` | Do a repository's pins move together and its choices survive, whatever runs, reruns and merges come in whatever order? | 3 repositories (one opted out of the caller, one with narrow safe paths), 2 releases, 2 runs at once, 1 edit by a person |
| `arm_rewritten`, `arm_sweep`, `rules_race`, `ratchet_advised` | see section 4 | as small as the case allows |

Why the bounds are enough: in `AutoMerge` a run is about one head against the
next, so two heads, a stale review, a stale read and a superseded run all occur
with two pushes; the update of a branch adds heads of its own. In the caches the
shared state is one path: one process that publishes, one that looks, one that
is killed cover the pairs of steps, and the starts allow a recovery after two
crashes. In `Ratchet` every property relates one pull request to the default
branch, and a second pull request is whatever merged meanwhile; findings of two
files separate scanned from unscanned, severity separates old from new. One
issue is enough there because issues do not interact except through the osv key,
which two files with the same issue share. A file outside every filter is what
separates a skipped scanner from one that reads, and a finding the check missed from one
it judged. In `Fleet` repositories do not interact and a
merge involves one branch and one tree, so two releases and two runs bring about
every pair of (what the branch was cut from, what the default branch is now); the
third repository only has its bumps refused. `fleet` starts from a few of the trees
`Init` allows (onboarded without and with an auto-merge caller); the proofs
start from all. `SYMMETRY` exchanges the two runs, which no definition tells apart.
`ratchet` keeps `Audit` empty: the
demotion of audit rules is in `Gate` and its proof is for any `Audit`.

`security_run` does not start from every initial state of `Spec`, whose parts would
multiply, but from four families that each vary one part in full (`MCInit`):
every payload, environment, list and push with one finding in one file, for each
scanner; every command line, set of severe rules and set of findings, over a
pull request and a push to main; every local hook; every way three overlays
extend two others each, unknown and circular ones included, and files with
fields of the wrong type. In all of them every step may fail. Findings of two
files and three kinds of rules (no audit rule, one by its id, one by its tag) are
what the report's operators tell apart; three overlays are the least with a
diamond inside a circle. The proofs of `CiRun`, `Overlays` and `SecurityRun`
are for all initial states of `Spec`.

What the passing runs show, beyond types:

* `SettledArmIsGood`, `GreenLandingIsApproved`: the promise "good for one head",
  for settled states and for landings, with the last run green. `ArmInvariant`
  and `LandingInvariant` are the reasons, checked here and used by the proofs.
* `ArmGoodForOneHead`: the same for every landing, whether the last run was green or
  not, where no step of a run fails, nobody rewrites the branch and codna finishes
  no head before the run of its push. With any one of these three allowed TLC finds
  a landing that was not approved; `arm_rewritten` is the second.
* `SeenHumanArmKept`: neither disabled, nor replaced, nor given a new head by a
  run that saw it.
* `Lands`, `ArmedBranchCaughtUp`, `StaleArmEnds`: liveness, see section 5.
* `CachedToolIsVerified`, `CompleteMeansWhole`, `ScansTheWholeBundle`,
  `NoRunBreaksOnTheCache`, `Answered`, `KeepsPromise`: what is trusted is whole,
  what a crash leaves is repaired, every run ends, the cache refines the
  abstract one.
* `GreenMergesKeepMainGreen`: a pull request that leaves the baseline alone and is
  merged on a green check of its diff does not turn main's full scan red, however
  old the check and whatever merged since. It asks that the findings it brings lie
  in files the scanner's filter knows (`Filtered`), that nothing was scored higher
  since the check, and that no merge or measurement edited the baseline since;
  without any one of the three TLC finds a merge that turns main red.
* `RedIsEarned`: a check turns red for a finding the pull request brings.
  `WholeTreeAdviceIsGone`: advice of whole-tree scanners is right.
  `MeasuredTreeIsCovered`: a measured baseline, committed after the branch moved on,
  covers what it was measured on; what a full scan then calls new came later.
* `CoversTheChange`: the scope is never silently narrower than the change, except
  for a name that git quotes or that has blanks at an end, and for a file that a push
  takes from the pages still to be read (see the observations).
* `GreenCoversTheChange`: the same end to end. A green ratchet check leaves no
  severe finding without a baseline line in any file of the change a scanner
  reads, with the same exceptions, whichever page, scanner or rewriting failed on the
  way.
* `JudgedByTheGate`, `AlertsMatchTheVerdict`, `ArtifactKeepsEverything`: the verdict
  on the rewritten report is the one on the findings; what turned the check red
  is in the upload, audit hints are not (or are warnings, when asked for), and
  the artifact keeps them.
* `DefaultUploadIsFull`: an upload for a push to the default branch holds every
  finding of the tree (audit hints aside), so code scanning closes no alert that
  still stands. It is about the ref that was pushed, not about what the code made of
  the fields, so that a field read in the wrong order breaks it. It asks that some
  field names the ref, that the payload names the default branch, and that the caller
  handed no list over, which comes before any event.
* `MeasuredIsWhole`: baselines are written over whole trees, once every scanner
  asked for has finished.
* `ResolvedIsTheClosure`, `ParentsFirst`: an overlay resolves to the packs of all it
  extends and of nothing else, parents first, except around a circle.
* `BumpedTogether`, `MajorsKept`, `ReviewedBranchStays`: what a merged bump leaves
  passes `verify_repo`, also when the branch was cut from an older tree than the
  one it is merged into; only a person changes a bare `auto_merge_majors`; a rerun never
  replaces the branch of an open pull request.

Every property is paired in `PROJECT.json` with a mutant of the code it is about
(a dropped comparison, an off-by-one, a skipped step); the mutated operators stand
next to the originals in the modules and nothing else uses them.

## 4. What the runs refute

Each is a small run that ends in a violation of something the repository says.

* `arm_rewritten`: `fetch-metadata` is the first step of the job and fails on a
  pull request whose first commit is not Dependabot's. After a force-push by a
  person nothing disarms, and the App's arm lands a head codna never approved.
  Without rewritten branches, failing steps and early reviews the statement is
  proved (`ArmGoodForOneHeadOtherwise`).
* `arm_sweep`: an enable run reads "not behind", main moves, the sweep finds the
  pull request not armed, the run arms it. Nothing will update the branch until
  the next push to main.
* `rules_race`: two processes publish the rules directory; the second is killed
  while removing what the first has marked complete. The marker (which is
  unlinked in no particular order) stays next to missing packs, and later scans
  skip them with a warning.
* `ratchet_advised`: a diff-scoped opengrep run calls every baseline line of a
  file it did not scan "no longer observed".

Observations that follow from the same models and are kept out of the runs:

* On a branch that merges pull requests that are behind, an old green check may have
  relied on a baseline line another pull request has deleted since (for osv, whose
  key has no path, even one that was right to delete): main turns red by a green
  merge. As long as the baseline is not edited between check and merge it does not
  (`GreenMergesKeepMainGreen`). A branch that asks for up-to-date pull requests has
  every check made anew.
* A scanner none of whose files changed is skipped green (ci.py:138-169). The
  filters are lists of names (changed.py:50-105): a finding the full scan reports in
  a file they do not name, such as a manifest only osv-scanner knows, is not met by
  any pull request's check and turns main red after the merge. Hence `Filtered`.
* `gh pr merge --disable-auto` names nobody's arm: a person who replaces the
  App's arm between the read and the Disarm step loses theirs. `SeenHumanArmKept`
  is therefore about arms the run saw.
* `gh pr update-branch` reads the head itself, so the head it updates may be newer
  than the one Decide judged; the arm is then judged again by the new head's run.
* `measure_baseline` writes what is there; measured again, it absorbs what came
  since, although the header says the file may only shrink.
* A pull request that only deletes baseline lines changes no scannable file: its
  check skips osv and trivy, and the next full scan judges. Hence the premise
  "leaves the baseline alone" of `GreenMergesKeepMainGreen` and `RedIsEarned`.
* A file that a push takes out of a pull request between two pages moves the next one
  onto a page already read (changed.py:133-161): it is in no page, although
  changed.py:5-7 promises to widen the scan rather than narrow it. The push starts a run
  of its own, which reads the list anew. `CoversTheChange` excepts such files (`slipped`), and `AddingLosesNothing`
  proves that pushes that only add files leave none.
* `git diff --name-only` without `-z` (changed.py:177) quotes a name that is not
  ASCII; the quoted text is kept as the path, names no file, and is dropped from
  the targets. A name that begins or ends with a blank does not survive the list
  file. changed.py:5-7 promises to widen the scan rather than narrow it;
  `CoversTheChange` excepts these names too (`Lost`).
* A fan-out run that ends between the push of its branch and the creation of the
  pull request cannot be repaired by a rerun: the rerun's commit is another one,
  its push is rejected, and the repository is FAILED until a person deletes the
  branch. A dispatch for an older tag proposes going back, as asked. A repository
  that opts out of the auto-merge caller keeps the file, whose pin then stays
  behind and fails `verify_repo`; `Init` has no such repository. Only `SystemExit`
  is caught, so another exception ends the fan-out (`End`).
* A choice of `auto_merge_majors` with a comment after it or in quotes is valid YAML but
  is not read by the next bump (propagate.py:136), which renders fleet.json's choice
  in its place. `MajorsKept` is therefore about bare choices.
* An approval that comes while the pull request is a draft is skipped, and
  `ready_for_review` is no event of the caller: the pull request is then armed by no run
  until it is reviewed or pushed to again. `Lands` is about pull requests that
  are never drafts.
* The pre-commit block says "Edit args, not rev" (pre-commit-block.yaml:1), but
  `upsert_block` renders the whole block anew from `fleet.json`: an edited overlay
  lasts until the next bump. `Fleet` abstracts from arguments.
* `ReportError`, `LockError` and `UnsupportedPlatform` are no `ToolchainError`: `main`
  does not catch them, and the process ends with a traceback and exit 1, which
  is also the exit code of a red gate. Both are red (`GreenCoversTheChange`).
* A scanner that fails ends `run_ci` before `annotate`: what earlier scanners found
  is in no annotation and in no upload of that run, only in the artifact.
* A report that is missing counts as no findings (hooks.py:217, 292, 324, 382). The
  model assumes that a scanner whose exit code is accepted wrote its report, and
  that `--out-dir` holds no report of an earlier run, as in the workflow.
* An audit rule known by its id alone does not block because the report was
  demoted before it is parsed; the parser itself only looks at the tag, and the
  demotion only at rules the report lists. Opengrep lists every rule it ran.
* A merge state that still reads UNKNOWN after the retries goes without an update.

## 5. Fairness

* `AutoMerge.FairSpec`: weak fairness of the steps of a started or waiting run
  (GitHub starts every run; each step is a bounded command), of the sweep, of
  codna's review of a head it has not reviewed and of its check's conclusion
  (the reviewer the workflow relies on), and of GitHub's completing an enabled
  auto-merge whose requirements are met. No fairness for pushes, people,
  failures or a second review. `Lands` is conditional on codna's last word being
  a clean approval that stays.
* Caches: weak fairness of a process' own steps (`urlopen` has a timeout, retries
  are bounded). A kill is always possible and never obliged; `Answered` counts it
  as an end.

## 6. Proofs

All for any value of the constants that satisfies the modules' assumptions.

* `AutoMergeProofs`. `TypeCorrect`. `SettledArmCorrect`: `SettledArmIsGood` is not
  inductive, because a run acts on facts it read earlier. `ArmInvariant` says why
  that is safe: facts are out of date only while an event that says so waits
  (`FactsKept`), only runs that found an arm of this App or none act on it
  (`ArmOwned`), and a run past its decision does what was decided
  (`ActsOnFacts`). The proof goes action by action; lemmas cover an event that
  arrives, a run that ends and a step that changes nothing the invariant reads.
  `GreenLandingCorrect` proves `GreenLandingIsApproved` from `LandingInvariant`,
  under `"early_review" \notin Allowed`, which is the assumption `LandingInvariant`
  needs: a run never acts on the facts of one head after codna judged the next.
  `ArmInvariantCorrect` and `LandingInvariantCorrect` state the two invariants.
  `ArmGoodForOneHeadOtherwise` is for landings after any run, under `Undisturbed`. It
  adds `RunsSucceed`: while the App's arm stands no run fails, and a head codna is
  done with is approved, so that a landing lands an approved head (`LandsApproved`).
  `SeenHumanArmKeptCorrect` needs one invariant more, `EndsAtDecision`: a run that saw
  a person's arm decides "skip" and wants no update, so it is never at a step that
  touches the pull request.
* `ToolCacheProofs`. The invariant says for each step what the process' own file
  is; the shared path is absent or executable. `ToolVerified` and
  `ToolImplementsPromise` follow, the latter step by step: each action maps to an
  action of `VerifiedCache` or leaves `Stored` and `Told` unchanged. `ToolRunsAdvance`
  is `RunsAdvance`: `StepsLeft(p)` is a natural number, every step of a run's own lowers
  it and no step of another raises it. It is what `Answered` comes to without
  fairness: a run that keeps being scheduled cannot go on for ever.
* `RulesCacheProofs`. For `Sharing = "alone"` (`rules_race` shows that it is needed) the
  invariant adds that at most one process is not idle and says for each step of
  it what target, staging and listing hold. `CompleteMeansWholeCorrect`,
  `RulesCorrect` (`ScansTheWholeBundle`), `NoRunBreaksOnTheCacheCorrect`,
  `RulesImplementPromise`.

  For any number of processes at once: `RulesTypeCorrect`; `WarmCacheServesCorrect`,
  that a whole and marked bundle nobody is about to replace stays, and that every
  run that starts on it is given all of it, so the race needs an empty or broken
  cache; and `RunsAdvanceCorrect`, as above, where removing a directory is bounded by
  the listing it was begun with, whatever others put there meanwhile.
* `FleetProofs`. `FleetTypeCorrect`, `BumpedTogetherCorrect`, `MajorsKeptCorrect`,
  `ReviewedBranchStaysCorrect`.
  The invariant `IInv`: every tree a repository has, a branch was cut from or a
  run has cloned is `Sound` (its pins agree, what is not managed is absent, no
  choice without a caller), and the default branch still has the pins of that
  tree or has been bumped completely since (`Based`). Then a clean merge cannot
  mix two releases: the key lemma `MergedPins`. It needs that all managed files
  are bumped in one commit; `MergedMajors` needs that the caller's own choice is
  carried over.

  `FleetBringsReleases` is the refinement of `FleetReleases` (`BringsReleases`). A merge
  maps to accepting the very release whose pull request is merged: a clean merge pins its
  own release in every managed file, or, when the bump only rewrote the line of an
  unreadable choice, leaves all pins as they are (`MergePinsItsTag`), whatever was
  merged in between.
* `CiRunProofs`. `CiTypeCorrect`, `JudgedByTheGateCorrect`,
  `ArtifactKeepsEverythingCorrect`, `MeasuredIsWholeCorrect`. The invariant says of
  each step what opengrep's report is by then: as written, demoted, or parsed (`ReportInv`), and that a scanner the
  run is past has a verdict unless it was skipped (`PassedInv`). Two lemmas about
  the report carry the proof: demoting keeps the findings, and what blocks in the
  demoted report is what the gate calls severe. A second invariant, `Handed`, follows
  the report on its way out: what was judged is kept in the artifact (`Kept`), the
  copy is the report or the report without its audit results (`Cut`), and exit 0
  comes from verdicts that are all green (`Green`). A third, `Ran`, gives
  `ExitTellsTheVerdictCorrect`: a run that writes its outputs, unless it measures, is red if and only if the
  gate says red of what a scanner that was asked for and in scope finds there. With
  `CoversTheChangeCorrect` it is what `Ratchet` takes a check to be.
* `OverlaysProofs`. `ResolvedIsTheClosureCorrect`, `ParentsFirstCorrect`, and the
  type invariant. A visited overlay is either on the stack, with the entries before
  its frame's place already collected, or finished, with everything collected and
  every parent visited; nothing is collected that a visited overlay does not
  declare, and every visited overlay is in any closed set with the name asked for.
  No induction over the depth of the recursion is needed. `ResolutionEndsCorrect`, for
  finite files: `Left` are the positions of lists not yet passed, of overlays not yet
  entered or on the stack; each step of `visit` lowers their number, so the recursion
  ends, also around circles. It needs that an overlay has at most one frame
  (`OneFrame`), which is what marking it in `seen` before its parents gives.
* `SecurityRunProofs`, on the composition. `EachPart`: every step of the composed run
  is a step of one part and leaves the others alone, so it implements the
  derivation (`DeriveSpec`), the run (`CiSpec`) and the resolution (`OverlaySpec`), and
  the invariants of the parts hold in it. For the derivation `DInv` says what has
  been read by each page: every file of the change is collected, still on a page to be
  read, or slipped (`Paging`), and a finished derivation has either no list or one
  with the whole change but for what slipped or was lost (`Scoped`);
  `PageBound` and `ShortPage` are the arithmetic of a page that is not full.
  `CoversTheChangeCorrect` follows, for pushes of any kind, and `AddingLosesNothing`
  for pushes that only add files, wherever in the list. `Linked` says that
  the run was started with the scope that was derived, and that code scanning
  holds a file the run handed out. From these and the invariants of the run follow
  `GreenCoversTheChangeCorrect`, `AlertsMatchTheVerdictCorrect` and
  `DefaultUploadIsFullCorrect`: the scope holds the change, each scanner reads its
  part of it, a green verdict is the gate's on what was read. `RunTypeCorrect`.
* `RatchetProofs`, for any scope that holds what a pull request changes and keeps and
  any filters. `RatchetTypeCorrect`, `GreenMergesKeepMainGreenCorrect`. The invariant:
  what a pull request proposes lies in the files it changes and keeps (`Proposal`), and
  a green check found all of it covered by the baseline at the scores of its day, which
  stands while nobody edits the baseline (`Stands`). The key lemma `CheckReadsProposal`
  is about one check: at each scope the scanner reads every finding the pull request
  brings in a file its filter knows, and is not skipped if there is one. A merge then
  adds to main only covered findings.

  Also `WholeTreeAdviceIsGoneCorrect`, `MeasuredTreeIsCoveredCorrect`,
  `RedIsEarnedCorrect`. The facts they need are in `FactsInv`: a measurement holds the
  keys of the tree it was made on, and what a pull request was advised to delete is
  not in its tree.

So every safety and action property of the passing runs has a theorem. Where
one has a hypothesis (no early review; `Undisturbed`; one process at a time for the
rules directory) the constants of its run satisfy it, and TLC finds the violation
without it. Some theorems state what no run checks: `AddingLosesNothing`,
`WarmCacheServes`, `RunsAdvance` of both caches,
`ResolutionEnds`, `ExitTellsTheVerdict` and `BringsReleases`. They are stated in the
proof modules, the last in `Fleet`; each can be checked by TLC with the bounds of
the run of its component.

Only model-checked are the liveness properties (`Lands`, `ArmedBranchCaughtUp`,
`StaleArmEnds`, `Answered`), because the prover does not reason under fairness. Of
`Answered` the measure is proved (`RunsAdvance`); what is left to TLC is that fairness
makes a run take its steps. For processes that publish the rules directory together
on an empty or broken cache nothing is claimed beyond types, progress and the
violation `rules_race` finds.

## 7. Not modelled

* Of the command line: `install`, `run`, `lock`, `overlays`, `actionlint` and
  `security-fix-deps`, which print, or hand over to another program.
* The lock file, platform lookup, path helpers: pure lookups without state.
  Scanners, git, GitHub, codna: external, as their callers use them.
* Field-by-field parsing of the four report formats and the fingerprinting of
  snippets: the model starts from findings and keys. Of pin verification, the form
  of a pin and the comparison with the installed package.
* The update type of a Dependabot title: the classification of requirement ranges
  is a function of the title; `AutoMerge` takes its result as part of the setting.
* The upload of trivy's own report, which nothing rewrites.
* The repository's own self-test and scorecard workflows.

## 8. Plan

Done in this order: auto-merge, because a mistake there merges code nobody
reviewed; the caches, whose contents all scans trust; the gate over time; the
scope; the fleet; the report, the run and its composition from the event to the
upload, with the overlays; the proofs of all of these. To come, most important
first:

1. Uploads across runs: what code scanning shows when the runs of one ref end in an
   order other than that of their pushes, under the concurrency group.
2. `UpdateType`: the classification of requirement ranges from the title, a
   pure function checked against a reference definition.
3. In `Fleet`, the overlay arguments of the pre-commit block, and repositories that
   opt out while they still have the caller.
4. For the rules cache with processes together: what holds until the first kill.

## 9. Running it

    tlc -workers 2 -config arm.cfg MCAutoMerge.tla      # any run: its cfg and module
    tlapm AutoMergeProofs.tla                           # any *Proofs module

`CHECK_DEADLOCK FALSE` is set in every run: a merged pull request, a derived
scope, a cache whose starts are used up, and a repository at its bounds are
states in which nothing more happens.
