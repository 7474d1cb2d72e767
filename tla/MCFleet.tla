------------------------------ MODULE MCFleet ------------------------------
(* The fleet the run of Fleet checks: a repository with an auto-merge       *)
(* caller, one that opted out of it, one propagate may not write workflows  *)
(* of.                                                                      *)
EXTENDS Fleet, TLC

CONSTANTS plain, opted, narrow, t1

Tree(hooks, gate, merge, choice) ==
    [pins |-> [k \in Kinds |-> CASE k = "hooks" -> hooks [] k = "gate" -> gate [] OTHER -> merge],
     majors |-> choice]

\* Onboarded before there was an auto-merge caller, or with one.
FewStarts ==
    /\ main[plain] \in {Tree(t1, t1, Absent, "none"), Tree(t1, t1, t1, "off")}
    /\ main[opted] = Tree(t1, t1, Absent, "none")
    /\ main[narrow] = Tree(t1, t1, Absent, "none")

Runs == Permutations(Procs)

MCInit == Init /\ FewStarts
MCSpec == MCInit /\ [][Next]_vars
=============================================================================
