-------------------------------- MODULE Gate --------------------------------
(* gate.py and ci.gate_findings: how the findings of one scanner are judged *)
(* against its committed baseline.  A finding is the pair of the file it is *)
(* in and the issue (rule and snippet, check, advisory, secret) found there. *)
CONSTANTS Files,        \* the files of the repository
          Issues,       \* what a scanner may find in a file
          Audit,        \* the issues of audit / LOW CONFIDENCE rules
          NoBaseline    \* security/baseline/<tool>.txt does not exist: no set of keys

Findings == Files \X Issues
Keys == Findings \cup Issues

ASSUME GateAssumption == Audit \subseteq Issues

Tools == {"gitleaks", "opengrep", "osv", "trivy"}

\* A key has no line number.  An osv key has no path either: package and
\* advisory are the same debt in every lockfile.
KeyWithoutPath(tool, f) == f[2]
KeyOf(tool, f) == IF tool = "osv" THEN f[2] ELSE f
KeysOf(tool, findings) == {KeyOf(tool, f) : f \in findings}

\* HIGH or CRITICAL.  Every secret is; an audit rule never is, its level is
\* rewritten in the report before the gate parses it.
Severe(tool, severe, findings) ==
    IF tool = "gitleaks" THEN findings
    ELSE {f \in findings : f[2] \in severe /\ ~(tool = "opengrep" /\ f[2] \in Audit)}

\* ci.gate_findings: secrets have no baseline file.
BaselineOf(tool, mode, file) ==
    IF tool # "gitleaks" THEN file ELSE IF mode = "ratchet" THEN {} ELSE NoBaseline

\* evaluate: the findings that are new, and the keys that are no longer observed.
NewIgnoringSeverity(tool, baseline, severe, findings) ==
    IF baseline = NoBaseline THEN findings
    ELSE {f \in findings : KeyOf(tool, f) \notin baseline}
New(tool, baseline, severe, findings) ==
    LET blocking == Severe(tool, severe, findings)
    IN  IF baseline = NoBaseline THEN blocking
        ELSE {f \in blocking : KeyOf(tool, f) \notin baseline}
Fixed(tool, baseline, findings) ==
    IF baseline = NoBaseline THEN {} ELSE baseline \ KeysOf(tool, findings)

\* GateResult.exit_code: "red" is 1.
Verdict(tool, mode, file, severe, findings) ==
    LET baseline == BaselineOf(tool, mode, file)
    IN  IF mode = "ratchet" /\ baseline # NoBaseline /\ New(tool, baseline, severe, findings) # {}
        THEN "red" ELSE "green"
=============================================================================
