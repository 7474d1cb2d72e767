----------------------------- MODULE SecurityRun -----------------------------
(* One run of security-full.yml's job, or of a local hook (whose files      *)
(* pre-commit names).  In the job the changed files are derived             *)
(* (ChangedFiles) and handed over as a list.  They are scanned (CiRun) with *)
(* the opengrep rules of an overlay (Overlays), and what the scan says of   *)
(* itself decides what is uploaded.                                         *)
EXTENDS ChangedFiles, CiRun, Overlays

CONSTANTS Bundled,      \* rule packs that are directories of the bundle
          Local         \* the repository's own rules, security/opengrep/*.yml

ASSUME SecurityRunAssumption ==
    /\ Mangled \in Files /\ Deletions \subseteq Missing
    /\ \A list \in Histories : InSeq(list) \subseteq Files
    /\ \A push \in Pushes : InSeq(push[2]) \subseteq Files

VARIABLE alerts         \* <<>> or <<report>>: what code scanning was given of opengrep

runVars == <<derivation, ciVars, overlayVars, alerts>>

Init == DeriveInit /\ CiInit /\ OverlayInit /\ alerts = << >>

DeriveChangedFiles ==
    args.command = "ci" /\ DeriveNext /\ UNCHANGED <<ciVars, overlayVars, alerts>>
\* hooks.opengrep resolves the overlay before it runs the scanner, and fails
\* when that fails or leaves nothing to run it with (opengrep_configs): a pack
\* the bundle lacks is passed over.
ResolveOverlay ==
    /\ at = "opengrep" /\ Runs("opengrep")
    /\ OverlayNext /\ UNCHANGED <<derivation, ciVars, alerts>>
Configs == (OneOf(lists["packs"]) \cap Bundled) \cup Local
ScanAndGate ==
    /\ \/ pc = "done" /\ StartCi(scope, files)
       \/ StartHook(InSeq(change))
       \/ CiStep
    /\ at' = "demote" => resolved = "done" /\ Configs # {}
    /\ UNCHANGED <<derivation, overlayVars, alerts>>

\* Upload Opengrep SARIF: whenever the output names a file, the gate's verdict
\* notwithstanding; the upload itself may fail.
NamedSarif == IF args.audit = "upload" THEN sarif ELSE copy
UploadOpengrep ==
    /\ at = "ended" /\ outputs = "written" /\ judged["opengrep"] # "none"
    /\ alerts = << >> /\ alerts' = NamedSarif
    /\ UNCHANGED <<derivation, ciVars, overlayVars>>

Next == DeriveChangedFiles \/ ResolveOverlay \/ ScanAndGate \/ UploadOpengrep
Spec == Init /\ [][Next]_runVars
-----------------------------------------------------------------------------
TypeOK == DeriveTypeOK /\ CiTypeOK /\ OverlayTypeOK

\* What a scan is for: a check that is green in ratchet mode leaves no severe
\* finding without a baseline line in any file of the change a scanner reads,
\* whatever failed on the way; only names the list cannot carry are lost, and files
\* a push takes from the pages still to be read.
Reads(t, n) == t = "gitleaks" \/ (t = "opengrep" /\ n \in Scannable)
               \/ (t = "osv" /\ n \in Manifests) \/ (t = "trivy" /\ n \in Iac)
Reported == {f \in Findings : f[1] \in InSeq(change) \ Missing
                              /\ ~(scope = "list" /\ (Lost(f[1]) \/ f[1] \in slipped))}
GreenCoversTheChange ==
    at = "ended" /\ exit = "0" /\ args.mode = "ratchet" /\ args.measure = "no" =>
        \A t \in args.tools :
           \A f \in Severe(t, severe, tree[t]) \cap Reported :
              Reads(t, f[1]) => LET baseline == BaselineOf(t, args.mode, baselines[t])
                                IN  baseline = NoBaseline \/ KeyOf(t, f) \in baseline

\* Code scanning is given every finding that turned the check red, no hint of an
\* audit rule unless they were asked for, and none at level error ever.
AlertsMatchTheVerdict ==
    alerts # << >> =>
        /\ Severe("opengrep", severe, Hits("opengrep")) \subseteq FoundIn(alerts[1])
        /\ \A x \in alerts[1].results :
              Rule(x) \in Audit => args.audit = "upload" /\ LevelIn(alerts[1], x) # "error"

\* On a push to the default branch code scanning closes what an upload does not
\* name.  Whichever field says which ref was pushed, the upload is of the whole
\* tree, audit rules aside, unless the caller handed a list over.
DefaultUploadIsFull ==
    alerts # << >> /\ event.kind = "push" /\ env = "unset" /\ event.pushed = DefaultRef
    /\ event.default = "named" /\ event.tells \cap {"GITHUB_REF", "ref", "GITHUB_REF_NAME"} # {} =>
        {f \in tree["opengrep"] : f[2] \notin Audit} \subseteq FoundIn(alerts[1])
=============================================================================
