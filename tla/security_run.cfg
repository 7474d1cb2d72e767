\* Every payload and list around the page limits, pushed to in between, with one
\* finding; every command line, fault and kind of rule on two events.
SPECIFICATION MCSpec
CONSTANTS
    Files = {"a", "b", "m", "i", "e", "A", "B", "gone", "odd", "padded", "mangled"}
    bad = bad
    hint = hint
    tagged = tagged
    Issues = {bad, hint, tagged}
    Audit = {hint, tagged}
    Tagged = {tagged}
    NoBaseline = nobaseline
    Missing = {"gone", "mangled"}
    Scannable = {"a", "b", "e", "A", "B", "gone", "odd", "padded"}
    Manifests = {"m"}
    Iac = {"i"}
    Histories <- AllSizes
    Pushes <- AllPushes
    PerPage = 2
    MaxPages = 2
    Odd = {"odd"}
    Padded = {"padded"}
    Deletions = {"gone"}
    Bundled = {"p", "px", "py"}
    Local = {}
    Shapes <- AllShapes
    Asked = {"base", "x", "unknown"}
INVARIANTS TypeOK CoversTheChange GreenCoversTheChange JudgedByTheGate
           AlertsMatchTheVerdict ArtifactKeepsEverything MeasuredIsWhole DefaultUploadIsFull
           ResolvedIsTheClosure ParentsFirst
CHECK_DEADLOCK FALSE
