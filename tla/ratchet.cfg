\* Two pull requests of all four scanners, branches up to date, lines
\* deleted as the gate advises, advisories rescored, the baseline measured.
SPECIFICATION Spec
CONSTANTS
    Files = {f1, f2}
    Issues = {i1}
    Audit = {}
    NoBaseline = nobaseline
    Pulls = {p1, p2}
    UsedTools <- AllTools
    Modes <- BothModes
    Scannable = {f1}
    Manifests = {f1}
    Iac = {f1}
    MaxPulls = 2
    MaxWorld = 1
    MaxMeasures = 1
SYMMETRY Symmetry
INVARIANTS TypeOK WholeTreeAdviceIsGone
PROPERTIES GreenMergesKeepMainGreen RedIsEarned MeasuredTreeIsCovered
CHECK_DEADLOCK FALSE
