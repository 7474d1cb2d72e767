------------------------------- MODULE CiRun --------------------------------
(* One thyn-sec process that scans and gates: `thyn-sec ci` (ci.run_ci) or  *)
(* a local hook (cli._local_gate), with the wrappers of hooks.py.  The      *)
(* scanners run one after the other over the scope the process was given;   *)
(* the first that fails ends the process, which may also be interrupted.    *)
EXTENDS OpengrepReport

CONSTANTS Missing,      \* paths a scope may name that are no file
          Scannable,    \* paths opengrep reads when they are named
          Manifests,    \* paths that put osv in scope
          Iac           \* paths that put trivy in scope

Empty == [rules |-> [i \in Issues |-> "unset"], results |-> {}]
Args == [command : {"ci", "hook"}, mode : {"advisory", "ratchet"}, measure : {"no", "yes"},
         audit : {"drop", "upload"}, tools : SUBSET Tools]

VARIABLES
    args,               \* the command line; never changes
    severe, tree,       \* what is scored HIGH or CRITICAL, what each scanner finds in the tree
    baselines,          \* security/baseline/<tool>.txt
    scoping, named,     \* ALL or a list, and the list
    at,                 \* the scanner or step that comes next
    found,              \* the findings of the scanners that ran
    judged,             \* "none", "green", "red": the GateResult of each of them
    sarif, copy,        \* <<>> or <<report>>: opengrep.sarif, opengrep.code-scanning.sarif
    measured,           \* the baselines written: tools
    outputs,            \* GITHUB_OUTPUT: "none", "written"
    exit                \* "none", then the exit code

world == <<args, severe, tree, baselines>>
scan == <<scoping, named>>
results == <<found, judged>>
reports == <<sarif, copy>>
ending == <<measured, outputs, exit>>
ciVars == <<world, scan, at, results, reports, ending>>

Steps == {"idle", "gitleaks", "opengrep", "demote", "parse", "copy", "drop", "osv", "trivy",
          "conclude", "measure", "outputs", "ended"}

\* A run stays within its files, findings and exit codes.
CiTypeOK ==
    /\ args \in Args /\ severe \in SUBSET Issues /\ tree \in [Tools -> SUBSET Findings]
    /\ \A t \in Tools : baselines[t] = NoBaseline \/ baselines[t] \in SUBSET Keys
    /\ scoping \in {"ALL", "list"} /\ named \in SUBSET Files
    /\ at \in Steps
    /\ found \in [Tools -> SUBSET Findings]
    /\ judged \in [Tools -> {"none", "green", "red"}]
    /\ sarif = << >> \/ sarif[1] \in Reports
    /\ copy = << >> \/ copy[1] \in Reports
    /\ measured \in SUBSET Tools
    /\ outputs \in {"none", "written"}
    /\ exit \in {"none", "0", "1", "2", "130"}

\* The process starts: nothing is scanned yet.
Fresh ==
    /\ scoping = "ALL" /\ named = {}
    /\ at = "idle"
    /\ found = [t \in Tools |-> {}] /\ judged = [t \in Tools |-> "none"]
    /\ sarif = << >> /\ copy = << >>
    /\ measured = {} /\ outputs = "none" /\ exit = "none"
CiInit ==
    /\ args \in Args
    /\ args.command = "hook" => /\ args.mode = "ratchet" /\ args.measure = "no"
                                /\ \E t \in Tools : args.tools = {t}
    /\ severe \in SUBSET Issues
    /\ tree \in [Tools -> SUBSET {f \in Findings : f[1] \notin Missing}]
    /\ baselines \in [Tools -> {NoBaseline} \cup SUBSET Keys]
    /\ Fresh
-----------------------------------------------------------------------------
\* A measured baseline needs a full scan.
GivenScope(given) == given
ForcedScope(given) == IF args.measure = "yes" THEN "ALL" ELSE given
Start(given, list) ==
    /\ at = "idle" /\ at' = "gitleaks"
    /\ scoping' = ForcedScope(given) /\ named' = list
    /\ UNCHANGED <<world, results, reports, ending>>

\* cmd_ci: the list, or ALL.  The hooks: gitleaks-staged, gitleaks-push and
\* opengrep-changed are about a change, the others about the whole tree.
StartCi(given, list) == args.command = "ci" /\ Start(given, list)
StartHook(list) ==
    /\ args.command = "hook"
    /\ \/ Start("ALL", {})
       \/ args.tools \subseteq {"gitleaks", "opengrep"} /\ Start("list", list)

\* opengrep_targets, any_match: what the scope leaves each scanner to do.
\* A hook is given the files pre-commit picked.
Targets ==
    IF scoping = "ALL" THEN Files \ Missing
    ELSE {n \in named \ Missing : args.command = "hook" \/ n \in Scannable}
Matches(kind) == scoping = "ALL" \/ named \cap kind # {}
InScope(t) ==
    \/ t = "gitleaks"
    \/ t = "opengrep" /\ (scoping = "ALL" \/ Targets # {})
    \/ t = "osv" /\ Matches(Manifests)
    \/ t = "trivy" /\ Matches(Iac)
Runs(t) == t \in args.tools /\ InScope(t)
\* what the scanner finds there; gitleaks-staged and gitleaks-push read the change
Narrowed(t) == t = "opengrep" \/ (t = "gitleaks" /\ args.command = "hook")
Hits(t) == IF Narrowed(t) THEN {f \in tree[t] : f[1] \in Targets} ELSE tree[t]

After(t) == IF t = "gitleaks" THEN "opengrep" ELSE IF t = "opengrep" THEN "osv"
            ELSE IF t = "osv" THEN "trivy" ELSE "conclude"
Skip(t) ==
    /\ at = t /\ ~Runs(t) /\ at' = After(t)
    /\ UNCHANGED <<world, scan, results, reports, ending>>

\* evaluate and GateResult.exit_code, on the parsed findings.
Judge(t, blocking) ==
    LET baseline == BaselineOf(t, args.mode, baselines[t])
    IN  IF args.mode = "ratchet" /\ baseline # NoBaseline
           /\ \E f \in blocking : KeyOf(t, f) \notin baseline
        THEN "red" ELSE "green"
Record(t, hits, blocking) ==
    /\ found' = [found EXCEPT ![t] = hits]
    /\ judged' = [judged EXCEPT ![t] = Judge(t, blocking)]

\* gitleaks, osv, trivy: the wrapper runs the scanner and parses its report.
ScanTree(t) ==
    /\ at = t /\ Runs(t)
    /\ Record(t, Hits(t), Severe(t, severe, Hits(t)))
    /\ at' = After(t)
    /\ UNCHANGED <<world, scan, reports, ending>>
ScanGitleaks == ScanTree("gitleaks")
ScanOsv == ScanTree("osv")
ScanTrivy == ScanTree("trivy")
-----------------------------------------------------------------------------
\* hooks.opengrep and run_ci's handling of its report, step by step.
ScanOpengrep ==
    /\ at = "opengrep" /\ Runs("opengrep") /\ at' = "demote"
    /\ \E explicit \in SUBSET Hits("opengrep") :
          sarif' = <<Written(severe, Hits("opengrep"), explicit)>>
    /\ UNCHANGED <<world, scan, results, copy, ending>>
DemoteReport ==
    /\ at = "demote" /\ at' = "parse"
    /\ sarif' = <<Demote(sarif[1])>>
    /\ UNCHANGED <<world, scan, results, copy, ending>>
ParseReport ==
    /\ at = "parse"
    /\ Record("opengrep", FoundIn(sarif[1]), BlockingIn(sarif[1]))
    /\ at' = IF args.command = "ci" /\ args.audit = "drop" THEN "copy" ELSE "osv"
    /\ UNCHANGED <<world, scan, reports, ending>>
CopyReport ==
    /\ at = "copy" /\ at' = "drop"
    /\ copy' = sarif
    /\ UNCHANGED <<world, scan, results, sarif, ending>>
DropInPlace ==
    /\ at = "drop" /\ at' = "osv"
    /\ copy' = <<DropAudit(copy[1])>> /\ sarif' = copy'
    /\ UNCHANGED <<world, scan, results, ending>>
DropFromCopy ==
    /\ at = "drop" /\ at' = "osv"
    /\ copy' = <<DropAudit(copy[1])>>
    /\ UNCHANGED <<world, scan, results, sarif, ending>>
-----------------------------------------------------------------------------
End(code) == at' = "ended" /\ exit' = code

\* A binary or rules bundle that cannot be had, a scanner that exits otherwise
\* than with its findings, no rule pack: ToolchainError and ScanError are exit 2.
\* A report of the wrong shape, a lock without the asset or a machine without
\* one, a baseline off CI: no handler, and Python's exit is 1.
FailGoingOn ==
    /\ at \in Tools /\ Runs(at)
    /\ Record(at, {}, {}) /\ at' = After(at)
    /\ UNCHANGED <<world, scan, reports, ending>>
Fail ==
    /\ at \in Tools /\ Runs(at)
    /\ End("2") /\ UNCHANGED <<world, scan, results, reports, measured, outputs>>
Crash ==
    /\ at \in Tools \cup {"demote", "parse", "copy", "drop", "measure"}
    /\ at \in Tools => Runs(at)
    /\ End("1") /\ UNCHANGED <<world, scan, results, reports, measured, outputs>>
Interrupt ==
    /\ at \notin {"idle", "ended"}
    /\ End("130") /\ UNCHANGED <<world, scan, results, reports, measured, outputs>>

ExitCode == IF \E t \in Tools : judged[t] = "red" THEN "1" ELSE "0"
\* main's exit code, of run_ci or of _local_gate; a measuring run's is 0.
Conclude ==
    /\ at = "conclude"
    /\ at' = IF args.command = "hook" THEN "ended"
             ELSE IF args.measure = "yes" THEN "measure" ELSE "outputs"
    /\ exit' = IF args.command = "hook" THEN ExitCode ELSE exit
    /\ UNCHANGED <<world, scan, results, reports, measured, outputs>>

\* write_baseline: the keys of everything found, for every scanner that ran.
ToMeasure == {t \in {"opengrep", "osv", "trivy"} : judged[t] # "none"} \ measured
MeasureOne(t) ==
    /\ at = "measure" /\ t \in ToMeasure
    /\ baselines' = [baselines EXCEPT ![t] = KeysOf(t, found[t])]
    /\ measured' = measured \cup {t}
    /\ UNCHANGED <<args, severe, tree, scan, at, results, reports, outputs, exit>>
Measured ==
    /\ at = "measure" /\ ToMeasure = {} /\ at' = "outputs"
    /\ UNCHANGED <<world, scan, results, reports, ending>>

\* _gh_output, and the return of run_ci.
WriteOutputs ==
    /\ at = "outputs" /\ outputs' = "written"
    /\ End(IF args.measure = "yes" THEN "0" ELSE ExitCode)
    /\ UNCHANGED <<world, scan, results, reports, measured>>

CiStep ==
    \/ \E t \in Tools : Skip(t) \/ MeasureOne(t)
    \/ ScanGitleaks \/ ScanOsv \/ ScanTrivy
    \/ ScanOpengrep \/ DemoteReport \/ ParseReport \/ CopyReport \/ DropFromCopy
    \/ Fail \/ Crash \/ Interrupt \/ Conclude \/ Measured \/ WriteOutputs
CiNext == CiStep \/ \E given \in {"ALL", "list"}, list \in SUBSET Files :
                        StartCi(given, list) \/ StartHook(list)
CiSpec == CiInit /\ [][CiNext]_ciVars
-----------------------------------------------------------------------------
\* The report of opengrep is rewritten, parsed, copied and cut on the way, and
\* the verdict is the one the gate gives the findings themselves.
JudgedByTheGate ==
    measured = {} =>
        \A t \in Tools : judged[t] # "none" =>
           judged[t] = Verdict(t, args.mode, baselines[t], severe, Hits(t))

\* The report kept as an artifact holds every result that was judged.
ArtifactKeepsEverything ==
    judged["opengrep"] # "none" => FoundIn(sarif[1]) = found["opengrep"]

\* "a partial baseline would be a lie": baselines are written for whole trees, and
\* only once every scanner that was asked for has finished.
MeasuredIsWhole ==
    measured # {} =>
        /\ \A t \in args.tools : judged[t] # "none" /\ found[t] = tree[t]
        /\ \A t \in measured : baselines[t] = KeysOf(t, tree[t])
=============================================================================
