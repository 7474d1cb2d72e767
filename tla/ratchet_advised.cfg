\* A pull request's author follows the gate's advice to shrink the baseline.
SPECIFICATION Spec
CONSTANTS
    Files = {f1, f2}
    Issues = {i1}
    Audit = {}
    NoBaseline = nobaseline
    Pulls = {p1}
    UsedTools = {"opengrep"}
    Modes = {"ratchet"}
    Scannable = {f1}
    Manifests = {f1}
    Iac = {f1}
    MaxPulls = 1
    MaxWorld = 0
    MaxMeasures = 0
INVARIANTS AdvisedLinesAreGone
CHECK_DEADLOCK FALSE
