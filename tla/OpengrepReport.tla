--------------------------- MODULE OpengrepReport ---------------------------
(* gate.py on the SARIF report of opengrep: what its rewriters and its      *)
(* parser make of the levels of rules and results.  An issue of Gate is a   *)
(* rule here.  Opengrep lists in a report every rule it ran.                *)
EXTENDS Gate

CONSTANT Tagged         \* the rules tagged LOW CONFIDENCE; the others of Audit
                        \* are known by their id

ASSUME TaggedAssumption == Tagged \subseteq Audit

Levels == {"error", "warning", "note"}
MaybeLevels == Levels \cup {"unset"}

\* The rules with their default level, and the results, each with its own.
Reports == [rules : [Issues -> MaybeLevels], results : SUBSET (Findings \X MaybeLevels)]
Rule(x) == x[1][2]
FoundIn(report) == {x[1] : x \in report.results}

\* What opengrep writes: a rule of today's severe ones is an error, and a result
\* says its level itself or leaves it to its rule.
LevelOfRule(severe, i) == IF i \in severe THEN "error" ELSE "warning"
Written(severe, found, explicit) ==
    [rules |-> [i \in Issues |-> LevelOfRule(severe, i)],
     results |-> {<<f, LevelOfRule(severe, f[2])>> : f \in explicit}
                 \cup {<<f, "unset">> : f \in found \ explicit}]
-----------------------------------------------------------------------------
\* demote_low_confidence_levels: an error of a low-confidence rule becomes a
\* warning, at the rule and at each result; a report without such a result is
\* left as it is.
Demotable(report, x) ==
    /\ Rule(x) \in Audit
    /\ x[2] = "error" \/ (x[2] = "unset" /\ report.rules[Rule(x)] = "error")
DemotedResult(x) == IF Rule(x) \in Audit /\ x[2] = "error" THEN <<x[1], "warning">> ELSE x
DemoteResultsOnly(report) ==
    [rules |-> report.rules, results |-> {DemotedResult(x) : x \in report.results}]
Demote(report) ==
    IF \A x \in report.results : ~Demotable(report, x) THEN report
    ELSE [rules |-> [i \in Issues |-> IF i \in Audit /\ report.rules[i] = "error"
                                      THEN "warning" ELSE report.rules[i]],
          results |-> {DemotedResult(x) : x \in report.results}]

\* drop_audit_results.
DropTagged(report) ==
    [rules |-> report.rules, results |-> {x \in report.results : Rule(x) \notin Tagged}]
DropAudit(report) ==
    [rules |-> report.rules, results |-> {x \in report.results : Rule(x) \notin Audit}]

\* parse_opengrep_sarif: a result without a level has its rule's, a rule without
\* one warns; an error of a tagged rule is no blocker.
LevelIn(report, x) ==
    IF x[2] # "unset" THEN x[2]
    ELSE IF report.rules[Rule(x)] # "unset" THEN report.rules[Rule(x)] ELSE "warning"
BlockingIn(report) ==
    {x[1] : x \in {y \in report.results : LevelIn(report, y) = "error" /\ Rule(y) \notin Tagged}}
=============================================================================
