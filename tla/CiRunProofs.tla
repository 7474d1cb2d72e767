---------------------------- MODULE CiRunProofs -----------------------------
(* For every tree, scope, baseline and command line: what a run judges are  *)
(* the findings of the scanners, although opengrep's report is rewritten    *)
(* before it is parsed; the report that is kept has them all; and measured  *)
(* baselines are of the whole tree.  The invariant says, at each step, what *)
(* is in opengrep.sarif, and which scanners have been judged.               *)
EXTENDS CiRun, TLAPS

-----------------------------------------------------------------------------
(* The report *)

\* Each finding is a result, with its rule's level or without one.
LEMMA WrittenResults ==
    ASSUME NEW S, NEW hits, NEW explicit \in SUBSET hits
    PROVE  /\ \A x \in Written(S, hits, explicit).results :
                 /\ x[1] \in hits /\ x = <<x[1], x[2]>>
                 /\ x[2] = LevelOfRule(S, x[1][2]) \/ x[2] = "unset"
           /\ \A f \in hits : \/ <<f, LevelOfRule(S, f[2])>> \in Written(S, hits, explicit).results
                              \/ <<f, "unset">> \in Written(S, hits, explicit).results
           /\ \A i \in Issues : Written(S, hits, explicit).rules[i] = LevelOfRule(S, i)
  BY DEF Written

\* A level is never unset, and an error's rule is a severe one.
LEMMA RuleLevels ==
    ASSUME NEW S, NEW i
    PROVE  /\ LevelOfRule(S, i) # "unset" /\ LevelOfRule(S, i) # "note"
           /\ LevelOfRule(S, i) = "error" <=> i \in S
  BY DEF LevelOfRule

\* The results of a report as it is parsed.
LEMMA DemotedIsWritten ==
    ASSUME NEW S, NEW hits \in SUBSET Findings, NEW explicit \in SUBSET hits,
           NEW R, R = Written(S, hits, explicit)
    PROVE  /\ FoundIn(Demote(R)) = hits
           /\ \A x \in Demote(R).results :
                 LevelIn(Demote(R), x) = "error" /\ Rule(x) \notin Tagged
                 <=> Rule(x) \in S \ Audit
           /\ \A x \in Demote(R).results : Rule(x) \in Audit => LevelIn(Demote(R), x) # "error"
<1>1. /\ \A x \in R.results :
            /\ x[1] \in hits /\ x = <<x[1], x[2]>>
            /\ x[2] = LevelOfRule(S, x[1][2]) \/ x[2] = "unset"
      /\ \A f \in hits : <<f, LevelOfRule(S, f[2])>> \in R.results \/ <<f, "unset">> \in R.results
      /\ \A i \in Issues : R.rules[i] = LevelOfRule(S, i)
    BY WrittenResults
<1>2. \A f \in hits : f[2] \in Issues
    BY DEF Findings
<1>3. \A x \in R.results : Rule(x) \in Issues /\ Rule(x) = x[1][2]
    BY <1>1, <1>2 DEF Rule
<1>4. CASE \A x \in R.results : ~Demotable(R, x)
  <2>1. Demote(R) = R
      BY <1>4 DEF Demote
  <2>2. FoundIn(R) = hits
    <3>1. \A f \in hits : \E x \in R.results : x[1] = f
        BY <1>1
    <3>2. QED BY <1>1, <3>1 DEF FoundIn
  <2>3. ASSUME NEW x \in R.results
        PROVE  LevelIn(R, x) = "error" /\ Rule(x) \notin Tagged <=> Rule(x) \in S \ Audit
    <3>1. LevelIn(R, x) = LevelOfRule(S, Rule(x))
        BY <1>1, <1>3, RuleLevels DEF LevelIn
    <3>2. LevelIn(R, x) = "error" <=> Rule(x) \in S
        BY <3>1, RuleLevels
    <3>3. Rule(x) \in S => Rule(x) \notin Audit
        BY <1>1, <1>3, <1>4, RuleLevels DEF Demotable
    <3>4. QED BY <3>2, <3>3, TaggedAssumption
  <2>4. ASSUME NEW x \in R.results, Rule(x) \in Audit PROVE LevelIn(R, x) # "error"
      BY <1>1, <1>3, <1>4, <2>4 DEF Demotable, LevelIn
  <2>5. QED BY <2>1, <2>2, <2>3, <2>4
<1>5. CASE \E x \in R.results : Demotable(R, x)
  <2> DEFINE D == Demote(R)
  <2>1. /\ D.results = {DemotedResult(x) : x \in R.results}
        /\ \A i \in Issues : D.rules[i] = IF i \in Audit /\ R.rules[i] = "error" THEN "warning"
                                          ELSE R.rules[i]
      BY <1>5 DEF Demote
  <2> HIDE DEF D
  <2>2. ASSUME NEW x \in R.results
        PROVE  /\ DemotedResult(x)[1] = x[1] /\ Rule(DemotedResult(x)) = Rule(x)
               /\ LevelIn(D, DemotedResult(x)) = IF Rule(x) \in Audit /\ Rule(x) \in S THEN "warning"
                                                 ELSE LevelOfRule(S, Rule(x))
    <3>1. DemotedResult(x)[1] = x[1] /\ Rule(DemotedResult(x)) = Rule(x)
        BY DEF DemotedResult, Rule
    <3>2. x[2] = LevelOfRule(S, Rule(x)) \/ x[2] = "unset"
        BY <1>1, <1>3
    <3>3. D.rules[Rule(x)] = IF Rule(x) \in Audit /\ Rule(x) \in S THEN "warning"
                             ELSE LevelOfRule(S, Rule(x))
        BY <1>1, <1>3, <2>1, RuleLevels
    <3>4. DemotedResult(x)[2] = IF Rule(x) \in Audit /\ x[2] = "error" THEN "warning" ELSE x[2]
        BY DEF DemotedResult
    <3>5. CASE x[2] = "unset"
        BY <3>1, <3>3, <3>4, <3>5, RuleLevels DEF LevelIn
    <3>6. CASE x[2] = LevelOfRule(S, Rule(x))
        BY <3>1, <3>4, <3>6, RuleLevels DEF LevelIn
    <3>7. QED BY <3>1, <3>2, <3>5, <3>6
  <2>3. FoundIn(D) = hits
    <3>1. \A f \in hits : \E x \in R.results : x[1] = f
        BY <1>1
    <3>2. ASSUME NEW f \in FoundIn(D) PROVE f \in hits
      <4>1. PICK y \in D.results : f = y[1]
          BY DEF FoundIn
      <4>2. PICK x \in R.results : y = DemotedResult(x)
          BY <2>1
      <4>3. QED BY <1>1, <2>2, <4>1, <4>2
    <3>3. ASSUME NEW f \in hits PROVE f \in FoundIn(D)
      <4>1. PICK x \in R.results : x[1] = f
          BY <3>1
      <4>2. DemotedResult(x) \in D.results /\ DemotedResult(x)[1] = f
          BY <2>1, <2>2, <4>1
      <4>3. QED BY <4>2 DEF FoundIn
    <3>4. QED BY <3>2, <3>3
  <2>4. ASSUME NEW y \in D.results
        PROVE  LevelIn(D, y) = "error" /\ Rule(y) \notin Tagged <=> Rule(y) \in S \ Audit
    <3>1. PICK x \in R.results : y = DemotedResult(x)
        BY <2>1
    <3>2. QED BY <2>2, <3>1, RuleLevels, TaggedAssumption
  <2>5. ASSUME NEW y \in D.results, Rule(y) \in Audit PROVE LevelIn(D, y) # "error"
    <3>1. PICK x \in R.results : y = DemotedResult(x)
        BY <2>1
    <3>2. QED BY <2>2, <2>5, <3>1, RuleLevels
  <2>6. QED BY <2>3, <2>4, <2>5 DEF D
<1>6. QED BY <1>4, <1>5

\* Whatever levels opengrep leaves unset, the parsed report blocks on exactly the
\* findings the gate calls severe, and no hint in it is an error.
LEMMA BlockingIsSevere ==
    ASSUME NEW S, NEW hits \in SUBSET Findings, NEW explicit \in SUBSET hits
    PROVE  /\ FoundIn(Demote(Written(S, hits, explicit))) = hits
           /\ BlockingIn(Demote(Written(S, hits, explicit))) = Severe("opengrep", S, hits)
           /\ \A x \in Demote(Written(S, hits, explicit)).results :
                 Rule(x) \in Audit => LevelIn(Demote(Written(S, hits, explicit)), x) # "error"
<1> DEFINE R == Written(S, hits, explicit)
           D == Demote(R)
<1>1. /\ FoundIn(D) = hits
      /\ \A x \in D.results :
            LevelIn(D, x) = "error" /\ Rule(x) \notin Tagged <=> Rule(x) \in S \ Audit
      /\ \A x \in D.results : Rule(x) \in Audit => LevelIn(D, x) # "error"
    BY DemotedIsWritten
<1> HIDE DEF D
<1>2. BlockingIn(D) = {f \in hits : f[2] \in S \ Audit}
  <2>1. ASSUME NEW f \in BlockingIn(D) PROVE f \in hits /\ f[2] \in S \ Audit
    <3>1. PICK x \in D.results : f = x[1] /\ LevelIn(D, x) = "error" /\ Rule(x) \notin Tagged
        BY DEF BlockingIn
    <3>2. QED BY <1>1, <3>1 DEF FoundIn, Rule
  <2>2. ASSUME NEW f \in hits, f[2] \in S \ Audit PROVE f \in BlockingIn(D)
    <3>1. PICK x \in D.results : x[1] = f
        BY <1>1 DEF FoundIn
    <3>2. LevelIn(D, x) = "error" /\ Rule(x) \notin Tagged
        BY <1>1, <2>2, <3>1 DEF Rule
    <3>3. QED BY <3>1, <3>2 DEF BlockingIn
  <2>3. QED BY <2>1, <2>2
<1>3. Severe("opengrep", S, hits) = {f \in hits : f[2] \in S \ Audit}
    BY DEF Severe
<1>4. QED BY <1>1, <1>2, <1>3 DEF D
-----------------------------------------------------------------------------
(* The invariant *)

Types ==
    /\ args \in Args /\ severe \in SUBSET Issues
    /\ tree \in [Tools -> SUBSET {f \in Findings : f[1] \notin Missing}]
    /\ DOMAIN baselines = Tools
    /\ at \in Steps
    /\ found \in [Tools -> SUBSET Findings]
    /\ judged \in [Tools -> {"none", "green", "red"}]
    /\ measured \in SUBSET Tools

\* Where opengrep has not been judged, and where each scanner has.
Unjudged == {"idle", "gitleaks", "opengrep", "demote", "parse"}
PastOf(t) ==
    {"conclude", "measure", "outputs"}
    \cup (IF t \in {"gitleaks", "opengrep"} THEN {"copy", "drop", "osv", "trivy"} ELSE {})
    \cup (IF t = "gitleaks" THEN {"opengrep", "demote", "parse"} ELSE {})
    \cup (IF t = "osv" THEN {"trivy"} ELSE {})

JudgedInv ==
    \A t \in Tools : judged[t] # "none" =>
        /\ found[t] = Hits(t)
        /\ measured = {} => judged[t] = Verdict(t, args.mode, baselines[t], severe, Hits(t))
ReportInv ==
    /\ at = "demote" => \E explicit \in SUBSET Hits("opengrep") :
                           sarif = <<Written(severe, Hits("opengrep"), explicit)>>
    /\ at = "parse" => \E explicit \in SUBSET Hits("opengrep") :
                          sarif = <<Demote(Written(severe, Hits("opengrep"), explicit))>>
    /\ at \in Unjudged => judged["opengrep"] = "none"
PassedInv == \A t \in Tools : at \in PastOf(t) /\ Runs(t) => judged[t] # "none"
MeasureInv ==
    /\ args.measure = "yes" => args.command = "ci"
    /\ at = "idle" => measured = {} /\ \A t \in Tools : judged[t] = "none"
    /\ at # "idle" /\ args.measure = "yes" => scoping = "ALL"
    /\ at = "measure" => args.measure = "yes"
    /\ measured # {} => /\ at \in {"measure", "outputs", "ended"} /\ args.measure = "yes"
                        /\ \A t \in args.tools : judged[t] # "none"
                        /\ \A t \in measured : judged[t] # "none" /\ baselines[t] = KeysOf(t, found[t])
IInv == /\ Types /\ JudgedInv /\ ReportInv /\ ArtifactKeepsEverything
        /\ PassedInv /\ MeasureInv

\* In a full scan every scanner is in scope and reads the whole tree.
LEMMA FullScan ==
    ASSUME Types, scoping = "ALL", NEW t \in Tools
    PROVE  InScope(t) /\ Hits(t) = tree[t]
<1>1. InScope(t)
    BY DEF InScope, Matches, Tools
<1>2. \A f \in tree[t] : f[1] \in Targets
    BY DEF Types, Targets, Findings
<1>3. QED BY <1>1, <1>2 DEF Hits

\* What a scanner finds is in the tree.
LEMMA HitsType == ASSUME Types, NEW t \in Tools PROVE Hits(t) \in SUBSET Findings
  BY DEF Types, Hits

\* evaluate's arithmetic and the gate's are the same.
LEMMA JudgeIsVerdict ==
    ASSUME NEW t \in Tools, NEW hits
    PROVE  Judge(t, Severe(t, severe, hits)) = Verdict(t, args.mode, baselines[t], severe, hits)
  BY DEF Judge, Verdict, New

\* The scope and the world stay; so does what they decide.
LEMMA ScopeKept ==
    ASSUME UNCHANGED <<args, tree, scan>>
    PROVE  \A t : Hits(t)' = Hits(t) /\ (InScope(t)' <=> InScope(t)) /\ (Runs(t)' <=> Runs(t))
  BY DEF scan, Hits, Narrowed, Targets, Matches, InScope, Runs
-----------------------------------------------------------------------------
(* The steps *)

\* A step that judges nothing and writes neither opengrep.sarif nor a baseline.
Quiet ==
    /\ UNCHANGED <<world, scan, results, sarif, measured>>
    /\ at # "idle" /\ at' \in Steps \ {"idle", "demote", "parse"}
    /\ at' \in Unjudged => at \in Unjudged
    /\ \A t \in Tools : at' \in PastOf(t) => at \in PastOf(t) \/ ~Runs(t)
    /\ at' = "measure" => at = "conclude" /\ args.measure = "yes"
    /\ at \in {"measure", "outputs", "ended"} => at' \in {"outputs", "ended"}

LEMMA QuietKeeps == ASSUME IInv, Quiet PROVE IInv'
<1>1. /\ args' = args /\ severe' = severe /\ tree' = tree /\ baselines' = baselines
      /\ scoping' = scoping /\ named' = named /\ found' = found /\ judged' = judged
      /\ sarif' = sarif /\ measured' = measured
    BY DEF Quiet, world, scan, results
<1>2. \A t : Hits(t)' = Hits(t) /\ (Runs(t)' <=> Runs(t))
    BY <1>1, ScopeKept DEF scan
<1>3. Types'
    BY <1>1 DEF IInv, Types, Quiet
<1>4. JudgedInv'
    BY <1>1, <1>2 DEF IInv, JudgedInv
<1>5. ReportInv'
    BY <1>1 DEF IInv, ReportInv, Quiet
<1>6. ArtifactKeepsEverything'
    BY <1>1 DEF IInv, ArtifactKeepsEverything
<1>7. PassedInv'
    BY <1>1, <1>2 DEF IInv, PassedInv, Quiet
<1>8. MeasureInv'
    BY <1>1 DEF IInv, MeasureInv, Quiet
<1>9. QED BY <1>3, <1>4, <1>5, <1>6, <1>7, <1>8 DEF IInv

LEMMA SkipIsQuiet == ASSUME IInv, NEW t \in Tools, Skip(t) PROVE Quiet
<1>1. at = t /\ ~Runs(t) /\ at' = After(t) /\ UNCHANGED <<world, scan, results, reports, ending>>
    BY DEF Skip
<1>2. UNCHANGED <<world, scan, results, sarif, measured>>
    BY <1>1 DEF reports, ending
<1>3. \A u \in Tools : at' \in PastOf(u) => at \in PastOf(u) \/ u = t
    BY <1>1 DEF Tools, After, PastOf
<1>4. QED BY <1>1, <1>2, <1>3 DEF Quiet, Tools, After, Steps, Unjudged

LEMMA QuietSteps ==
    ASSUME IInv, CopyReport \/ DropFromCopy \/ Fail \/ Crash \/ Interrupt
                 \/ Conclude \/ Measured \/ WriteOutputs
    PROVE  Quiet
<1>1. UNCHANGED <<world, scan, results, sarif, measured>>
    BY DEF CopyReport, DropFromCopy, Fail, Crash, Interrupt, Conclude, Measured, WriteOutputs,
           reports, ending
<1>2. CASE CopyReport
    BY <1>1, <1>2 DEF CopyReport, Quiet, Steps, Unjudged, PastOf, Tools
<1>3. CASE DropFromCopy
    BY <1>1, <1>3 DEF DropFromCopy, Quiet, Steps, Unjudged, PastOf, Tools
<1>4. CASE Fail \/ Crash \/ Interrupt
  <2>1. at # "idle" /\ at' = "ended"
      BY <1>4 DEF Fail, Crash, Interrupt, End, Tools
  <2>2. QED BY <1>1, <2>1 DEF Quiet, Steps, Unjudged, PastOf
<1>5. CASE Conclude
    BY <1>1, <1>5 DEF Conclude, Quiet, Steps, Unjudged, PastOf
<1>6. CASE Measured
    BY <1>1, <1>6 DEF Measured, Quiet, Steps, Unjudged, PastOf
<1>7. CASE WriteOutputs
    BY <1>1, <1>7 DEF WriteOutputs, End, Quiet, Steps, Unjudged, PastOf
<1>8. QED BY <1>2, <1>3, <1>4, <1>5, <1>6, <1>7

LEMMA StartKeeps ==
    ASSUME IInv, NEW given, NEW list, given \in {"ALL", "list"}, Start(given, list)
    PROVE  IInv'
<1>1. /\ at = "idle" /\ at' = "gitleaks" /\ scoping' = ForcedScope(given)
      /\ args' = args /\ severe' = severe /\ tree' = tree /\ baselines' = baselines
      /\ found' = found /\ judged' = judged /\ sarif' = sarif /\ measured' = measured
    BY DEF Start, world, results, reports, ending
<1>2. measured = {} /\ \A t \in Tools : judged[t] = "none"
    BY <1>1 DEF IInv, MeasureInv
<1>3. Types'
    BY <1>1 DEF IInv, Types, Steps
<1>4. JudgedInv' /\ ReportInv' /\ ArtifactKeepsEverything'
    BY <1>1, <1>2 DEF JudgedInv, ReportInv, ArtifactKeepsEverything, Tools
<1>5. PassedInv'
    BY <1>1 DEF PassedInv, PastOf
<1>6. MeasureInv'
    BY <1>1, <1>2 DEF IInv, MeasureInv, ForcedScope
<1>7. QED BY <1>3, <1>4, <1>5, <1>6 DEF IInv

\* A scanner's findings are judged: the others keep their verdicts.
LEMMA RecordKeeps ==
    ASSUME IInv, NEW t \in Tools, Record(t, Hits(t), Severe(t, severe, Hits(t))),
           UNCHANGED <<world, scan, sarif, measured>>, at # "idle"
    PROVE  /\ found' \in [Tools -> SUBSET Findings] /\ judged' \in [Tools -> {"none", "green", "red"}]
           /\ JudgedInv' /\ judged'[t] # "none" /\ found'[t] = Hits(t)
           /\ \A u \in Tools \ {t} : judged'[u] = judged[u] /\ found'[u] = found[u]
<1>1. /\ found' = [found EXCEPT ![t] = Hits(t)]
      /\ judged' = [judged EXCEPT ![t] = Judge(t, Severe(t, severe, Hits(t)))]
    BY DEF Record
<1>2. /\ args' = args /\ severe' = severe /\ baselines' = baselines /\ measured' = measured
    BY DEF world
<1>3. \A u : Hits(u)' = Hits(u)
    BY ScopeKept DEF world
<1>4. Judge(t, Severe(t, severe, Hits(t))) \in {"green", "red"}
    BY DEF Judge
<1>5. found' \in [Tools -> SUBSET Findings]
    BY <1>1, HitsType DEF IInv, Types
<1>6. judged' \in [Tools -> {"none", "green", "red"}]
    BY <1>1, <1>4 DEF IInv, Types
<1>7. judged'[t] = Judge(t, Severe(t, severe, Hits(t))) /\ found'[t] = Hits(t)
    BY <1>1 DEF IInv, Types
<1>8. \A u \in Tools \ {t} : judged'[u] = judged[u] /\ found'[u] = found[u]
    BY <1>1 DEF IInv, Types
<1>9. judged'[t] = Verdict(t, args.mode, baselines[t], severe, Hits(t))
    BY <1>7, JudgeIsVerdict
<1>10. JudgedInv'
  <2>1. ASSUME NEW u \in Tools, judged'[u] # "none"
        PROVE  /\ found'[u] = Hits(u)
               /\ measured = {} => judged'[u] = Verdict(u, args.mode, baselines[u], severe, Hits(u))
    <3>1. CASE u = t
        BY <3>1, <1>7, <1>9
    <3>2. CASE u # t
        BY <3>2, <2>1, <1>8 DEF IInv, JudgedInv
    <3>3. QED BY <3>1, <3>2
  <2>2. QED BY <1>2, <1>3, <2>1 DEF JudgedInv
<1>11. QED BY <1>4, <1>5, <1>6, <1>7, <1>8, <1>10

LEMMA ScanTreeKeeps ==
    ASSUME IInv, NEW t \in Tools, t # "opengrep", ScanTree(t) PROVE IInv'
<1>1. /\ at = t /\ t # "opengrep" /\ at' = After(t)
      /\ Record(t, Hits(t), Severe(t, severe, Hits(t)))
      /\ UNCHANGED <<world, scan, reports, ending>>
    BY DEF ScanTree
<1>2. /\ args' = args /\ severe' = severe /\ tree' = tree /\ baselines' = baselines
      /\ scoping' = scoping /\ sarif' = sarif /\ measured' = measured
      /\ UNCHANGED <<world, scan, sarif, measured>> /\ UNCHANGED <<args, tree, scan>>
    BY <1>1 DEF world, scan, reports, ending
<1>3. /\ found' \in [Tools -> SUBSET Findings] /\ judged' \in [Tools -> {"none", "green", "red"}]
      /\ JudgedInv' /\ judged'[t] # "none"
      /\ \A u \in Tools \ {t} : judged'[u] = judged[u] /\ found'[u] = found[u]
    BY <1>1, <1>2, RecordKeeps DEF Tools
<1>4. judged'["opengrep"] = judged["opengrep"] /\ found'["opengrep"] = found["opengrep"]
    BY <1>1, <1>3 DEF Tools
<1>5. /\ at' \in Steps \ {"idle", "demote", "parse", "measure"}
      /\ at' \in Unjudged => at \in Unjudged
      /\ \A u \in Tools : at' \in PastOf(u) => at \in PastOf(u) \/ u = t
    BY <1>1 DEF Tools, After, PastOf, Steps, Unjudged
<1>6. Types'
    BY <1>2, <1>3, <1>5 DEF IInv, Types
<1>7. ReportInv'
    BY <1>4, <1>5 DEF IInv, ReportInv
<1>8. ArtifactKeepsEverything'
    BY <1>2, <1>4 DEF IInv, ArtifactKeepsEverything
<1>9. PassedInv'
  <2>1. \A u : Runs(u)' <=> Runs(u)
      BY <1>2, ScopeKept
  <2>2. QED BY <1>3, <1>5, <2>1 DEF IInv, PassedInv
<1>10. MeasureInv'
  <2>1. measured = {} /\ at # "idle"
      BY <1>1 DEF IInv, MeasureInv, Tools
  <2>2. QED BY <1>2, <1>5, <2>1 DEF IInv, MeasureInv
<1>11. QED BY <1>3, <1>6, <1>7, <1>8, <1>9, <1>10 DEF IInv

\* opengrep runs: its report is as it writes it, then demoted.
LEMMA ReportKeeps ==
    ASSUME IInv, ScanOpengrep \/ DemoteReport
    PROVE  IInv'
<1>1. /\ args' = args /\ severe' = severe /\ tree' = tree /\ baselines' = baselines
      /\ scoping' = scoping /\ found' = found /\ judged' = judged /\ measured' = measured
      /\ UNCHANGED <<args, tree, scan>>
    BY DEF ScanOpengrep, DemoteReport, world, scan, results, ending
<1>2. at \in {"opengrep", "demote"} /\ at' \in {"demote", "parse"}
    BY DEF ScanOpengrep, DemoteReport
<1>3. judged["opengrep"] = "none" /\ measured = {}
    BY <1>2 DEF IInv, ReportInv, Unjudged, MeasureInv
<1>4. \A t : Hits(t)' = Hits(t) /\ (Runs(t)' <=> Runs(t))
    BY <1>1, ScopeKept
<1>5. Types'
    BY <1>1, <1>2 DEF IInv, Types, Steps
<1>6. JudgedInv' /\ ArtifactKeepsEverything'
    BY <1>1, <1>3, <1>4 DEF IInv, JudgedInv, ArtifactKeepsEverything
<1>7. ReportInv'
  <2>1. CASE ScanOpengrep
    <3>1. at' = "demote" /\ \E explicit \in SUBSET Hits("opengrep") :
                              sarif' = <<Written(severe, Hits("opengrep"), explicit)>>
        BY <2>1 DEF ScanOpengrep
    <3>2. QED BY <1>1, <1>3, <1>4, <3>1 DEF ReportInv
  <2>2. CASE DemoteReport
    <3>1. at = "demote" /\ at' = "parse" /\ sarif' = <<Demote(sarif[1])>>
        BY <2>2 DEF DemoteReport
    <3>2. \E explicit \in SUBSET Hits("opengrep") :
             sarif' = <<Demote(Written(severe, Hits("opengrep"), explicit))>>
        BY <3>1 DEF IInv, ReportInv
    <3>3. QED BY <1>1, <1>3, <1>4, <3>1, <3>2 DEF ReportInv
  <2>3. QED BY <2>1, <2>2
<1>8. PassedInv'
  <2>1. \A t \in Tools : at' \in PastOf(t) => at \in PastOf(t)
      BY DEF ScanOpengrep, DemoteReport, Tools, PastOf
  <2>2. QED BY <1>1, <1>4, <2>1 DEF IInv, PassedInv
<1>9. MeasureInv'
    BY <1>1, <1>2, <1>3 DEF IInv, MeasureInv
<1>10. QED BY <1>5, <1>6, <1>7, <1>8, <1>9 DEF IInv

\* The report is parsed: what it blocks on is what the gate calls severe.
LEMMA ParseKeeps == ASSUME IInv, ParseReport PROVE IInv'
<1>1. /\ at = "parse" /\ at' \in {"copy", "osv"}
      /\ Record("opengrep", FoundIn(sarif[1]), BlockingIn(sarif[1]))
      /\ UNCHANGED <<world, scan, reports, ending>>
    BY DEF ParseReport
<1>2. /\ args' = args /\ severe' = severe /\ tree' = tree /\ baselines' = baselines
      /\ scoping' = scoping /\ sarif' = sarif /\ measured' = measured
      /\ UNCHANGED <<world, scan, sarif, measured>> /\ UNCHANGED <<args, tree, scan>>
    BY <1>1 DEF world, scan, reports, ending
<1>3. /\ FoundIn(sarif[1]) = Hits("opengrep")
      /\ BlockingIn(sarif[1]) = Severe("opengrep", severe, Hits("opengrep"))
  <2>1. PICK explicit \in SUBSET Hits("opengrep") :
             sarif = <<Demote(Written(severe, Hits("opengrep"), explicit))>>
      BY <1>1 DEF IInv, ReportInv
  <2>2. Hits("opengrep") \in SUBSET Findings
      BY HitsType DEF IInv, Tools
  <2>3. sarif[1] = Demote(Written(severe, Hits("opengrep"), explicit))
      BY <2>1
  <2>4. QED BY <2>2, <2>3, BlockingIsSevere
<1>4. /\ found' \in [Tools -> SUBSET Findings] /\ judged' \in [Tools -> {"none", "green", "red"}]
      /\ JudgedInv' /\ judged'["opengrep"] # "none" /\ found'["opengrep"] = Hits("opengrep")
      /\ \A u \in Tools \ {"opengrep"} : judged'[u] = judged[u] /\ found'[u] = found[u]
    BY <1>1, <1>2, <1>3, RecordKeeps DEF Tools
<1>5. Types'
    BY <1>1, <1>2, <1>4 DEF IInv, Types, Steps
<1>6. ReportInv' /\ ArtifactKeepsEverything'
    BY <1>1, <1>2, <1>3, <1>4 DEF ReportInv, ArtifactKeepsEverything, Unjudged
<1>7. PassedInv'
  <2>1. \A u \in Tools : at' \in PastOf(u) => at \in PastOf(u) \/ u = "opengrep"
      BY <1>1 DEF Tools, PastOf
  <2>2. \A u : Runs(u)' <=> Runs(u)
      BY <1>2, ScopeKept
  <2>3. QED BY <1>4, <2>1, <2>2 DEF IInv, PassedInv
<1>8. MeasureInv'
  <2>1. measured = {}
      BY <1>1 DEF IInv, MeasureInv
  <2>2. QED BY <1>1, <1>2, <2>1 DEF IInv, MeasureInv
<1>9. QED BY <1>4, <1>5, <1>6, <1>7, <1>8 DEF IInv

\* A baseline is measured, of a scanner that ran over everything.
LEMMA MeasureKeeps == ASSUME IInv, NEW t \in Tools, MeasureOne(t) PROVE IInv'
<1>1. /\ at = "measure" /\ at' = at /\ judged[t] # "none"
      /\ baselines' = [baselines EXCEPT ![t] = KeysOf(t, found[t])]
      /\ measured' = measured \cup {t}
      /\ args' = args /\ severe' = severe /\ tree' = tree /\ scoping' = scoping
      /\ found' = found /\ judged' = judged /\ sarif' = sarif
      /\ UNCHANGED <<args, tree, scan>>
    BY DEF MeasureOne, ToMeasure, scan, results, reports
<1>2. \A u : Hits(u)' = Hits(u) /\ (Runs(u)' <=> Runs(u))
    BY <1>1, ScopeKept
<1>3. Types'
    BY <1>1 DEF IInv, Types
<1>4. JudgedInv'
    BY <1>1, <1>2 DEF IInv, JudgedInv
<1>5. ReportInv' /\ ArtifactKeepsEverything'
    BY <1>1 DEF IInv, ReportInv, ArtifactKeepsEverything, Unjudged
<1>6. PassedInv'
    BY <1>1, <1>2 DEF IInv, PassedInv
<1>7. MeasureInv'
  <2>1. args.measure = "yes" /\ args.command = "ci" /\ scoping = "ALL"
      BY <1>1 DEF IInv, MeasureInv
  <2>2. ASSUME NEW u \in args.tools PROVE judged[u] # "none"
    <3>1. u \in Tools /\ at \in PastOf(u)
        BY <1>1 DEF IInv, Types, Args, PastOf
    <3>2. Runs(u)
        BY <2>1, <3>1, FullScan DEF IInv, Runs
    <3>3. QED BY <3>1, <3>2 DEF IInv, PassedInv
  <2>3. DOMAIN baselines = Tools
      BY DEF IInv, Types
  <2>4. ASSUME NEW u \in measured'
        PROVE  judged[u] # "none" /\ baselines'[u] = KeysOf(u, found[u])
    <3>1. CASE u = t
        BY <1>1, <2>3, <3>1
    <3>2. CASE u # t
        BY <1>1, <2>3, <3>2 DEF IInv, MeasureInv
    <3>3. QED BY <3>1, <3>2
  <2>5. QED BY <1>1, <2>1, <2>2, <2>4 DEF MeasureInv
<1>8. QED BY <1>3, <1>4, <1>5, <1>6, <1>7 DEF IInv
-----------------------------------------------------------------------------
LEMMA StutterKeeps == ASSUME IInv, UNCHANGED ciVars PROVE IInv'
<1>1. /\ args' = args /\ severe' = severe /\ tree' = tree /\ baselines' = baselines
      /\ scoping' = scoping /\ at' = at /\ found' = found /\ judged' = judged
      /\ sarif' = sarif /\ measured' = measured /\ UNCHANGED <<args, tree, scan>>
    BY DEF ciVars, world, scan, results, reports, ending
<1>2. \A u : Hits(u)' = Hits(u) /\ (Runs(u)' <=> Runs(u))
    BY <1>1, ScopeKept
<1>3. Types' /\ MeasureInv'
    BY <1>1 DEF IInv, Types, MeasureInv
<1>4. JudgedInv' /\ PassedInv'
    BY <1>1, <1>2 DEF IInv, JudgedInv, PassedInv
<1>5. ReportInv' /\ ArtifactKeepsEverything'
    BY <1>1, <1>2 DEF IInv, ReportInv, ArtifactKeepsEverything
<1>6. QED BY <1>3, <1>4, <1>5 DEF IInv

LEMMA Starts == ASSUME CiInit PROVE IInv
<1>1. /\ at = "idle" /\ measured = {} /\ judged = [t \in Tools |-> "none"]
      /\ found = [t \in Tools |-> {}]
    BY DEF CiInit, Fresh
<1>2. DOMAIN baselines = Tools
    BY DEF CiInit
<1>3. Types
    BY <1>1, <1>2 DEF CiInit, Types, Steps
<1>4. args.measure = "yes" => args.command = "ci"
  <2>1. args.measure = "no" \/ args.command # "hook"
      BY DEF CiInit
  <2>2. args.command \in {"ci", "hook"}
      BY DEF CiInit, Args
  <2>3. QED BY <2>1, <2>2
<1>5. \A t \in Tools : judged[t] = "none"
    BY <1>1
<1>6. JudgedInv /\ ReportInv /\ ArtifactKeepsEverything
    BY <1>1, <1>5 DEF JudgedInv, ReportInv, ArtifactKeepsEverything, Tools
<1>7. PassedInv
    BY <1>1 DEF PassedInv, PastOf
<1>8. MeasureInv
    BY <1>1, <1>4, <1>5 DEF MeasureInv
<1>9. QED BY <1>3, <1>6, <1>7, <1>8 DEF IInv

LEMMA Preserved == ASSUME IInv, CiNext PROVE IInv'
<1>1. CASE \E t \in Tools : Skip(t)
    BY <1>1, SkipIsQuiet, QuietKeeps
<1>2. CASE ScanGitleaks \/ ScanOsv \/ ScanTrivy
    BY <1>2, ScanTreeKeeps DEF ScanGitleaks, ScanOsv, ScanTrivy, Tools
<1>3. CASE \E t \in Tools : MeasureOne(t)
    BY <1>3, MeasureKeeps
<1>4. CASE ScanOpengrep \/ DemoteReport
    BY <1>4, ReportKeeps
<1>5. CASE ParseReport
    BY <1>5, ParseKeeps
<1>6. CASE CopyReport \/ DropFromCopy \/ Fail \/ Crash \/ Interrupt
           \/ Conclude \/ Measured \/ WriteOutputs
    BY <1>6, QuietSteps, QuietKeeps
<1>7. CASE \E given \in {"ALL", "list"}, list \in SUBSET Files :
              StartCi(given, list) \/ StartHook(list)
    BY <1>7, StartKeeps DEF StartCi, StartHook
<1>8. QED BY <1>1, <1>2, <1>3, <1>4, <1>5, <1>6, <1>7 DEF CiNext, CiStep

LEMMA Invariant == CiSpec => []IInv
<1>1. CiInit => IInv
    BY Starts
<1>2. IInv /\ [CiNext]_ciVars => IInv'
    BY Preserved, StutterKeeps
<1>3. QED BY <1>1, <1>2, PTL DEF CiSpec

-----------------------------------------------------------------------------
(* What the run hands on: its exit code, its reports and its outputs *)

\* opengrep.sarif after the gate, and the report for code scanning.
Kept ==
    judged["opengrep"] # "none" =>
        \E explicit \in SUBSET Hits("opengrep") :
           sarif = <<Demote(Written(severe, Hits("opengrep"), explicit))>>
Cut ==
    /\ judged["opengrep"] # "none" /\ args.command = "ci" /\ args.audit = "drop"
    /\ at \in {"osv", "trivy", "conclude", "measure", "outputs"} \/ outputs = "written"
    => copy = <<DropAudit(sarif[1])>>
Green == exit = "0" /\ args.measure = "no" => \A t \in Tools : Runs(t) => judged[t] = "green"
Handed ==
    /\ Kept /\ Cut /\ Green
    /\ exit # "none" \/ outputs = "written" => at = "ended"
    /\ outputs = "written" \/ at \in {"measure", "outputs"} => args.command = "ci"
    /\ at \in {"copy", "drop"} => judged["opengrep"] # "none"
    /\ at = "drop" => copy = sarif

\* The scope, the world and what opengrep's report says stay.
Onward ==
    /\ UNCHANGED <<args, severe, tree, scan, sarif>>
    /\ judged'["opengrep"] = judged["opengrep"]
    /\ at \notin {"idle", "ended"}

LEMMA OnwardKeeps ==
    ASSUME IInv, Handed, Onward, outputs' = outputs, exit' = exit, copy' = copy,
           at' \notin {"copy", "drop"}, at' \in {"measure", "outputs"} => args.command = "ci",
           at' \in {"osv", "trivy", "conclude", "measure", "outputs"} =>
               at \in {"osv", "trivy", "conclude", "measure"} \/ judged["opengrep"] = "none"
    PROVE  Handed'
<1>1. /\ args' = args /\ severe' = severe /\ sarif' = sarif /\ UNCHANGED <<args, tree, scan>>
      /\ judged'["opengrep"] = judged["opengrep"]
      /\ exit = "none" /\ outputs # "written"
    BY DEF Onward, Handed
<1>2. \A t : Hits(t)' = Hits(t)
    BY <1>1, ScopeKept
<1>3. Kept'
    BY <1>1, <1>2 DEF Handed, Kept
<1>4. Cut'
    BY <1>1 DEF Handed, Cut
<1>5. QED BY <1>1, <1>3, <1>4 DEF Handed, Green

LEMMA HandedStarts == ASSUME CiInit PROVE Handed
<1>1. /\ at = "idle" /\ exit = "none" /\ outputs = "none" /\ judged = [t \in Tools |-> "none"]
    BY DEF CiInit, Fresh
<1>2. judged["opengrep"] = "none"
    BY <1>1 DEF Tools
<1>3. QED BY <1>1, <1>2 DEF Handed, Kept, Cut, Green

LEMMA HandedStutters == ASSUME Handed, UNCHANGED ciVars PROVE Handed'
<1>1. /\ args' = args /\ severe' = severe /\ at' = at /\ judged' = judged /\ sarif' = sarif
      /\ copy' = copy /\ outputs' = outputs /\ exit' = exit /\ UNCHANGED <<args, tree, scan>>
    BY DEF ciVars, world, scan, results, reports, ending
<1>2. \A u : Hits(u)' = Hits(u) /\ (Runs(u)' <=> Runs(u))
    BY <1>1, ScopeKept
<1>3. Kept' /\ Cut' /\ Green'
    BY <1>1, <1>2 DEF Handed, Kept, Cut, Green
<1>4. QED BY <1>1, <1>3 DEF Handed

LEMMA HandedThroughScans ==
    ASSUME IInv, Handed,
           \/ \E t \in Tools : Skip(t) \/ MeasureOne(t)
           \/ ScanGitleaks \/ ScanOsv \/ ScanTrivy \/ Measured
    PROVE  Handed'
<1>1. CASE \E t \in Tools : Skip(t)
  <2>1. PICK t \in Tools : Skip(t)
      BY <1>1
  <2>2. /\ at = t /\ at' = After(t) /\ UNCHANGED <<world, scan, results, reports, ending>>
      BY <2>1 DEF Skip
  <2>3. Onward /\ outputs' = outputs /\ exit' = exit /\ copy' = copy
      BY <2>2 DEF Onward, world, results, reports, ending, Tools
  <2>4. at = "opengrep" => judged["opengrep"] = "none"
      BY DEF IInv, ReportInv, Unjudged
  <2>5. QED BY <2>2, <2>3, <2>4, OnwardKeeps DEF After, Tools
<1>2. ASSUME NEW t \in {"gitleaks", "osv", "trivy"}, ScanTree(t) PROVE Handed'
  <2>1. /\ at = t /\ at' = After(t) /\ UNCHANGED <<world, scan, reports, ending>>
        /\ judged' = [judged EXCEPT ![t] = Judge(t, Severe(t, severe, Hits(t)))]
      BY <1>2 DEF ScanTree, Record
  <2>2. judged'["opengrep"] = judged["opengrep"]
      BY <2>1 DEF IInv, Types, Tools
  <2>3. Onward /\ outputs' = outputs /\ exit' = exit /\ copy' = copy
      BY <2>1, <2>2 DEF Onward, world, reports, ending
  <2>4. QED BY <2>1, <2>3, OnwardKeeps DEF After
<1>3. CASE Measured \/ \E t \in Tools : MeasureOne(t)
  <2>1. /\ Onward /\ outputs' = outputs /\ exit' = exit /\ copy' = copy
        /\ at = "measure" /\ at' \in {"measure", "outputs"}
      BY <1>3 DEF Measured, MeasureOne, Onward, world, results, reports, ending
  <2>2. QED BY <2>1, OnwardKeeps DEF Handed
<1>4. QED BY <1>1, <1>2, <1>3 DEF ScanGitleaks, ScanOsv, ScanTrivy

LEMMA HandedThroughOpengrep ==
    ASSUME IInv, Handed,
           ScanOpengrep \/ DemoteReport \/ ParseReport \/ CopyReport \/ DropFromCopy
    PROVE  Handed'
<1>1. /\ args' = args /\ severe' = severe /\ outputs' = outputs /\ exit' = exit
      /\ UNCHANGED <<args, tree, scan>> /\ exit = "none" /\ outputs # "written"
    BY DEF Handed, ScanOpengrep, DemoteReport, ParseReport, CopyReport, DropFromCopy,
           world, results, ending
<1>2. \A t : Hits(t)' = Hits(t)
    BY <1>1, ScopeKept
<1>3. CASE ScanOpengrep \/ DemoteReport
  <2>1. /\ at' \in {"demote", "parse"} /\ judged'["opengrep"] = "none"
      BY <1>3 DEF ScanOpengrep, DemoteReport, results, IInv, ReportInv, Unjudged
  <2>2. QED BY <1>1, <2>1 DEF Handed, Kept, Cut, Green
<1>4. CASE ParseReport
  <2>1. /\ at = "parse" /\ sarif' = sarif /\ judged'["opengrep"] # "none"
        /\ at' = IF args.command = "ci" /\ args.audit = "drop" THEN "copy" ELSE "osv"
      <3>1. judged' = [judged EXCEPT !["opengrep"] = Judge("opengrep", BlockingIn(sarif[1]))]
          BY <1>4 DEF ParseReport, Record
      <3>2. Judge("opengrep", BlockingIn(sarif[1])) # "none"
          BY DEF Judge
      <3>3. "opengrep" \in Tools /\ judged \in [Tools -> {"none", "green", "red"}]
          BY DEF IInv, Types, Tools
      <3>4. judged'["opengrep"] # "none"
          BY <3>1, <3>2, <3>3
      <3>5. QED BY <1>4, <3>4 DEF ParseReport, reports
  <2>2. Kept'
      BY <1>1, <1>2, <2>1 DEF IInv, ReportInv, Kept
  <2>3. Cut'
      BY <1>1, <2>1 DEF Cut
  <2>4. QED BY <1>1, <2>1, <2>2, <2>3 DEF Handed, Green
<1>5. CASE CopyReport \/ DropFromCopy
  <2>1. /\ sarif' = sarif /\ judged' = judged /\ judged["opengrep"] # "none"
      BY <1>5 DEF CopyReport, DropFromCopy, results, Handed
  <2>2. Kept'
      BY <1>1, <1>2, <2>1 DEF Handed, Kept
  <2>3. /\ at' \in {"drop", "osv"}
        /\ at' = "drop" => copy' = sarif
        /\ at' = "osv" => copy' = <<DropAudit(sarif[1])>>
      BY <1>5 DEF CopyReport, DropFromCopy, Handed
  <2>4. QED BY <1>1, <2>1, <2>2, <2>3 DEF Handed, Cut, Green
<1>6. QED BY <1>3, <1>4, <1>5

\* A run that has passed every scanner has their verdicts: the exit code is theirs.
LEMMA HandedAtTheEnd ==
    ASSUME IInv, Handed, Fail \/ Crash \/ Interrupt \/ Conclude \/ WriteOutputs
    PROVE  Handed'
<1>1. /\ args' = args /\ severe' = severe /\ judged' = judged /\ sarif' = sarif /\ copy' = copy
      /\ UNCHANGED <<args, tree, scan>> /\ at \notin {"idle", "ended"}
      /\ exit = "none" /\ outputs # "written"
    BY DEF Handed, Fail, Crash, Interrupt, Conclude, WriteOutputs, world, results, reports, Tools
<1>2. \A t : Hits(t)' = Hits(t) /\ (Runs(t)' <=> Runs(t))
    BY <1>1, ScopeKept
<1>3. Kept'
    BY <1>1, <1>2 DEF Handed, Kept
<1>4. CASE Fail \/ Crash \/ Interrupt
  <2>1. at' = "ended" /\ outputs' = outputs /\ exit' # "0"
      BY <1>4 DEF Fail, Crash, Interrupt, End
  <2>2. QED BY <1>1, <1>3, <2>1 DEF Handed, Cut, Green
<1>5. ASSUME at \in {"conclude", "outputs"}, ExitCode = "0" PROVE \A t \in Tools : Runs(t) => judged[t] = "green"
  <2>1. \A t \in Tools : Runs(t) => judged[t] # "none"
      BY <1>5 DEF IInv, PassedInv, PastOf
  <2>2. \A t \in Tools : judged[t] # "red"
      BY <1>5 DEF ExitCode
  <2>3. QED BY <2>1, <2>2 DEF IInv, Types
<1>6. CASE Conclude
  <2>1. /\ at = "conclude" /\ outputs' = outputs
        /\ args.command = "hook" => at' = "ended" /\ exit' = ExitCode
        /\ args.command # "hook" => at' \in {"measure", "outputs"} /\ exit' = exit
      BY <1>6 DEF Conclude
  <2>2. args.command # "hook" => args.command = "ci"
      BY DEF IInv, Types, Args
  <2>3. Green'
      BY <1>1, <1>2, <1>5, <2>1 DEF Green
  <2>4. Cut'
      BY <1>1, <2>1, <2>2 DEF Handed, Cut
  <2>5. QED BY <1>1, <1>3, <2>1, <2>2, <2>3, <2>4 DEF Handed
<1>7. CASE WriteOutputs
  <2>1. /\ at = "outputs" /\ at' = "ended" /\ outputs' = "written" /\ args.command = "ci"
        /\ args.measure # "yes" => exit' = ExitCode
      BY <1>7 DEF WriteOutputs, End, Handed
  <2>2. Green'
      BY <1>1, <1>2, <1>5, <2>1 DEF Green
  <2>3. Cut'
      BY <1>1, <2>1 DEF Handed, Cut
  <2>4. QED BY <1>1, <1>3, <2>1, <2>2, <2>3 DEF Handed
<1>8. QED BY <1>4, <1>6, <1>7

LEMMA HandedKeeps == ASSUME IInv, Handed, CiNext PROVE Handed'
<1>1. CASE CiStep
    BY <1>1, HandedThroughScans, HandedThroughOpengrep, HandedAtTheEnd DEF CiStep
<1>2. CASE \E given \in {"ALL", "list"}, list \in SUBSET Files :
              StartCi(given, list) \/ StartHook(list)
  <2>1. PICK given, list : Start(given, list)
      BY <1>2 DEF StartCi, StartHook
  <2>2. /\ at = "idle" /\ at' = "gitleaks" /\ judged' = judged /\ outputs' = outputs
        /\ exit' = exit
      BY <2>1 DEF Start, results, ending
  <2>3. judged["opengrep"] = "none" /\ exit = "none" /\ outputs # "written"
      BY <2>2 DEF IInv, MeasureInv, Handed, Tools
  <2>4. QED BY <2>2, <2>3 DEF Handed, Kept, Cut, Green
<1>3. QED BY <1>1, <1>2 DEF CiNext

-----------------------------------------------------------------------------
(* Types *)

LEMMA ReportTypes ==
    ASSUME NEW S, NEW hits \in SUBSET Findings, NEW explicit \in SUBSET hits
    PROVE  Written(S, hits, explicit) \in Reports
<1>1. \A i : LevelOfRule(S, i) \in MaybeLevels
    BY DEF LevelOfRule, MaybeLevels, Levels
<1>2. "unset" \in MaybeLevels
    BY DEF MaybeLevels
<1>3. [i \in Issues |-> LevelOfRule(S, i)] \in [Issues -> MaybeLevels]
    BY <1>1
<1>4. {<<f, LevelOfRule(S, f[2])>> : f \in explicit} \cup {<<f, "unset">> : f \in hits \ explicit}
      \in SUBSET (Findings \X MaybeLevels)
    BY <1>1, <1>2
<1>5. QED BY <1>3, <1>4 DEF Written, Reports

LEMMA RewrittenTypes ==
    ASSUME NEW R \in Reports
    PROVE  Demote(R) \in Reports /\ DropAudit(R) \in Reports
<1>1. /\ R.rules \in [Issues -> MaybeLevels] /\ R.results \in SUBSET (Findings \X MaybeLevels)
      /\ "warning" \in MaybeLevels
    BY DEF Reports, MaybeLevels, Levels
<1>2. [i \in Issues |-> IF i \in Audit /\ R.rules[i] = "error" THEN "warning" ELSE R.rules[i]]
      \in [Issues -> MaybeLevels]
    BY <1>1
<1>3. {DemotedResult(x) : x \in R.results} \in SUBSET (Findings \X MaybeLevels)
  <2>1. ASSUME NEW x \in R.results PROVE DemotedResult(x) \in Findings \X MaybeLevels
      BY <1>1 DEF DemotedResult
  <2>2. QED BY <2>1
<1>4. Demote(R) \in Reports
  <2>1. CASE \A x \in R.results : ~Demotable(R, x)
      BY <2>1 DEF Demote
  <2>2. CASE ~\A x \in R.results : ~Demotable(R, x)
      BY <1>2, <1>3, <2>2 DEF Demote, Reports
  <2>3. QED BY <2>1, <2>2
<1>5. {x \in R.results : Rule(x) \notin Audit} \in SUBSET (Findings \X MaybeLevels)
    BY <1>1
<1>6. DropAudit(R) \in Reports
    BY <1>1, <1>5 DEF DropAudit, Reports
<1>7. QED BY <1>4, <1>6

LEMMA KeyTypes ==
    ASSUME NEW t, NEW hits \in SUBSET Findings PROVE KeysOf(t, hits) \in SUBSET Keys
  BY DEF KeysOf, KeyOf, Keys, Findings

\* What Types leaves open.
Rest ==
    /\ \A t \in Tools : baselines[t] = NoBaseline \/ baselines[t] \in SUBSET Keys
    /\ scoping \in {"ALL", "list"} /\ named \in SUBSET Files
    /\ sarif = << >> \/ sarif[1] \in Reports
    /\ copy = << >> \/ copy[1] \in Reports
    /\ outputs \in {"none", "written"}
    /\ exit \in {"none", "0", "1", "2", "130"}

LEMMA RestStarts == ASSUME CiInit PROVE Rest
<1>1. \A t \in Tools : baselines[t] \in {NoBaseline} \cup SUBSET Keys
    BY DEF CiInit
<1>2. QED BY <1>1 DEF CiInit, Fresh, Rest

LEMMA RestThroughOpengrep ==
    ASSUME IInv, Handed, Rest,
           ScanOpengrep \/ DemoteReport \/ ParseReport \/ CopyReport \/ DropFromCopy
    PROVE  Rest'
<1>1. /\ baselines' = baselines /\ scoping' = scoping /\ named' = named
      /\ outputs' = outputs /\ exit' = exit
    BY DEF ScanOpengrep, DemoteReport, ParseReport, CopyReport, DropFromCopy, world, scan, ending
<1>2. Hits("opengrep") \in SUBSET Findings
    BY HitsType DEF IInv, Tools
<1>3. CASE ScanOpengrep
  <2>1. PICK explicit \in SUBSET Hits("opengrep") :
             sarif' = <<Written(severe, Hits("opengrep"), explicit)>>
      BY <1>3 DEF ScanOpengrep
  <2>2. sarif'[1] \in Reports
    <3>1. sarif'[1] = Written(severe, Hits("opengrep"), explicit)
        BY <2>1
    <3>2. QED BY <1>2, <3>1, ReportTypes
  <2>3. QED BY <1>1, <1>3, <2>2 DEF Rest, ScanOpengrep
<1>4. CASE DemoteReport
  <2>1. /\ sarif # << >> /\ sarif'[1] = Demote(sarif[1]) /\ copy' = copy
      BY <1>4 DEF DemoteReport, IInv, ReportInv
  <2>2. sarif'[1] \in Reports
      BY <2>1, RewrittenTypes DEF Rest
  <2>3. QED BY <1>1, <2>1, <2>2 DEF Rest
<1>5. CASE ParseReport \/ CopyReport
    BY <1>1, <1>5 DEF ParseReport, CopyReport, reports, Rest
<1>6. CASE DropFromCopy
  <2>1. copy = sarif /\ sarif # << >> /\ sarif' = sarif /\ copy'[1] = DropAudit(copy[1])
      BY <1>6 DEF DropFromCopy, Handed, Kept
  <2>2. copy'[1] \in Reports
      BY <2>1, RewrittenTypes DEF Rest
  <2>3. QED BY <1>1, <2>1, <2>2 DEF Rest
<1>7. QED BY <1>3, <1>4, <1>5, <1>6

LEMMA RestKeeps == ASSUME IInv, Handed, Rest, [CiNext]_ciVars PROVE Rest'
<1>1. CASE \/ \E t \in Tools : Skip(t)
           \/ ScanGitleaks \/ ScanOsv \/ ScanTrivy
           \/ Measured \/ UNCHANGED ciVars
    BY <1>1 DEF Skip, ScanGitleaks, ScanOsv, ScanTrivy, ScanTree, Measured,
                ciVars, world, scan, reports, ending, Rest
<1>2. CASE Fail \/ Crash \/ Interrupt \/ Conclude \/ WriteOutputs
    BY <1>2 DEF Fail, Crash, Interrupt, Conclude, WriteOutputs, End, ExitCode,
                world, scan, reports, Rest
<1>3. CASE ScanOpengrep \/ DemoteReport \/ ParseReport \/ CopyReport \/ DropFromCopy
    BY <1>3, RestThroughOpengrep
<1>4. CASE \E t \in Tools : MeasureOne(t)
  <2>1. PICK t \in Tools : MeasureOne(t)
      BY <1>4
  <2>2. /\ baselines' = [baselines EXCEPT ![t] = KeysOf(t, found[t])]
        /\ scoping' = scoping /\ named' = named /\ sarif' = sarif /\ copy' = copy
        /\ outputs' = outputs /\ exit' = exit
      BY <2>1 DEF MeasureOne, scan, reports
  <2>3. KeysOf(t, found[t]) \in SUBSET Keys
      BY KeyTypes DEF IInv, Types
  <2>4. QED BY <2>2, <2>3 DEF Rest, IInv, Types
<1>5. CASE \E given \in {"ALL", "list"}, list \in SUBSET Files :
              StartCi(given, list) \/ StartHook(list)
  <2>1. PICK given \in {"ALL", "list"}, list \in SUBSET Files : Start(given, list)
      BY <1>5 DEF StartCi, StartHook
  <2>2. QED BY <2>1 DEF Start, ForcedScope, world, reports, ending, Rest
<1>6. QED BY <1>1, <1>2, <1>3, <1>4, <1>5 DEF CiNext, CiStep

LEMMA Whole == CiSpec => [](IInv /\ Handed /\ Rest)
<1>1. CiInit => IInv /\ Handed /\ Rest
    BY Starts, HandedStarts, RestStarts
<1>2. IInv /\ Handed /\ Rest /\ [CiNext]_ciVars => (IInv /\ Handed /\ Rest)'
    BY Preserved, StutterKeeps, HandedKeeps, HandedStutters, RestKeeps
<1>3. QED BY <1>1, <1>2, PTL DEF CiSpec

\* A run stays within its files, findings, reports and exit codes.
THEOREM CiTypeCorrect == CiSpec => []CiTypeOK
<1>1. IInv /\ Handed /\ Rest => CiTypeOK
    BY DEF IInv, Types, Rest, CiTypeOK
<1>2. QED BY <1>1, Whole, PTL

\* For every tree, scope, set of baselines and command line, and whatever levels
\* opengrep leaves to its rules: the verdict of each scanner is the gate's.
THEOREM JudgedByTheGateCorrect == CiSpec => []JudgedByTheGate
<1>1. IInv => JudgedByTheGate
    BY DEF IInv, JudgedInv, JudgedByTheGate
<1>2. QED BY <1>1, Invariant, PTL

\* For every tree and command line: opengrep.sarif keeps every result that was
\* judged, also the audit results that code scanning is not given.
THEOREM ArtifactKeepsEverythingCorrect == CiSpec => []ArtifactKeepsEverything
<1>1. IInv => ArtifactKeepsEverything
    BY DEF IInv
<1>2. QED BY <1>1, Invariant, PTL

\* For every tree, scope and command line, however the run ends: what was measured
\* is the whole tree's, and every scanner that was asked for had finished.
THEOREM MeasuredIsWholeCorrect == CiSpec => []MeasuredIsWhole
<1>1. IInv => MeasuredIsWhole
  <2>1. SUFFICES ASSUME IInv, measured # {} PROVE MeasuredIsWhole
      BY DEF MeasuredIsWhole
  <2>2. /\ args.measure = "yes" /\ args.command = "ci" /\ scoping = "ALL"
        /\ args.tools \subseteq Tools /\ measured \subseteq Tools
      BY <2>1 DEF IInv, MeasureInv, Types, Args
  <2>3. ASSUME NEW t \in Tools, judged[t] # "none" PROVE found[t] = tree[t]
      BY <2>1, <2>2, <2>3, FullScan DEF IInv, JudgedInv
  <2>4. QED BY <2>1, <2>2, <2>3 DEF IInv, MeasureInv, MeasuredIsWhole
<1>2. QED BY <1>1, Invariant, PTL
-----------------------------------------------------------------------------
(* The exit code, both ways *)

\* What the workflow reads of a run: outputs are written only after every scanner
\* in scope was judged, and then the job is red exactly if the gate, on what that
\* scanner finds in the scope, says red.  (Without outputs the run failed.)
ExitTellsTheVerdict ==
    outputs = "written" /\ args.measure = "no" =>
        exit = IF \E t \in Tools :
                     Runs(t) /\ Verdict(t, args.mode, baselines[t], severe, Hits(t)) = "red"
               THEN "1" ELSE "0"

\* Only a scanner that was asked for and is in scope is judged; a run that wrote its
\* outputs has judged all of these, and its exit code is that of the verdicts.
Ran ==
    /\ \A t \in Tools : judged[t] # "none" => Runs(t)
    /\ at \in {"demote", "parse"} => Runs("opengrep")
    /\ outputs = "written" => \A t \in Tools : Runs(t) => judged[t] # "none"
    /\ outputs = "written" /\ args.measure = "no" => exit = ExitCode

LEMMA RanStarts == ASSUME CiInit PROVE Ran
  BY DEF CiInit, Fresh, Ran

\* Steps that judge nothing.
LEMMA RanUnjudged ==
    ASSUME Ran, UNCHANGED <<args, tree, scan, judged>>,
           at' \in {"demote", "parse"} => Runs("opengrep"),
           \/ outputs' # "written"
           \/ outputs' = outputs /\ exit' = exit
           \/ /\ args.measure = "no" => exit' = ExitCode
              /\ \A t \in Tools : Runs(t) => judged[t] # "none"
    PROVE  Ran'
<1>1. \A t : Runs(t)' <=> Runs(t)
    BY ScopeKept
<1>2. ExitCode' = ExitCode /\ args' = args /\ judged' = judged
    BY DEF ExitCode
<1>3. QED BY <1>1, <1>2 DEF Ran

\* A scanner that runs is judged.
LEMMA RanJudging ==
    ASSUME Types, Ran, NEW t \in Tools, Runs(t), NEW v,
           judged' = [judged EXCEPT ![t] = v], UNCHANGED <<args, tree, scan>>,
           outputs' # "written", at' \notin {"demote", "parse"}
    PROVE  Ran'
<1>1. \A u : Runs(u)' <=> Runs(u)
    BY ScopeKept
<1>2. \A u \in Tools : u # t => judged'[u] = judged[u]
    BY DEF Types
<1>3. \A u \in Tools : judged'[u] # "none" => Runs(u)
    BY <1>2 DEF Ran
<1>4. QED BY <1>1, <1>3 DEF Ran

LEMMA RanKeeps == ASSUME IInv, Handed, Ran, [CiNext]_ciVars PROVE Ran'
<1>1. Types /\ (outputs = "written" => at = "ended")
    BY DEF IInv, Handed
<1>2. ASSUME NEW t \in Tools, ScanTree(t), t # "opengrep" PROVE Ran'
  <2>1. /\ Runs(t) /\ judged' = [judged EXCEPT ![t] = Judge(t, Severe(t, severe, Hits(t)))]
        /\ UNCHANGED <<args, tree, scan>> /\ outputs' # "written"
      BY <1>1, <1>2 DEF ScanTree, Record, world, ending, Tools
  <2>2. at' \notin {"demote", "parse"}
      BY <1>2 DEF ScanTree, After
  <2>3. QED BY <1>1, <2>1, <2>2, RanJudging
<1>3. CASE ScanGitleaks \/ ScanOsv \/ ScanTrivy
    BY <1>2, <1>3 DEF ScanGitleaks, ScanOsv, ScanTrivy, Tools
<1>4. CASE ParseReport
  <2>1. /\ Runs("opengrep") /\ judged' = [judged EXCEPT !["opengrep"] = Judge("opengrep", BlockingIn(sarif[1]))]
        /\ UNCHANGED <<args, tree, scan>> /\ outputs' # "written"
        /\ at' \notin {"demote", "parse"}
      BY <1>1, <1>4 DEF ParseReport, Record, world, ending, Ran
  <2>2. "opengrep" \in Tools
      BY DEF Tools
  <2>3. QED BY <1>1, <2>1, <2>2, RanJudging
<1>5. CASE ScanOpengrep \/ DemoteReport \/ CopyReport \/ DropFromCopy
  <2>1. /\ UNCHANGED <<args, tree, scan, judged>> /\ outputs' = outputs /\ exit' = exit
        /\ at' \in {"demote", "parse"} => Runs("opengrep")
      BY <1>5 DEF ScanOpengrep, DemoteReport, CopyReport, DropFromCopy, world, results, ending, Ran
  <2>2. QED BY <2>1, RanUnjudged
<1>6. CASE Fail \/ Crash \/ Interrupt
  <2>1. /\ UNCHANGED <<args, tree, scan, judged>> /\ outputs' = outputs /\ outputs # "written"
        /\ at' = "ended"
      BY <1>1, <1>6 DEF Fail, Crash, Interrupt, End, world, results, Tools
  <2>2. QED BY <2>1, RanUnjudged
<1>7. CASE Conclude \/ Measured \/ \E t \in Tools : Skip(t) \/ MeasureOne(t)
  <2>1. /\ UNCHANGED <<args, tree, scan, judged>> /\ outputs' = outputs /\ outputs # "written"
        /\ at' \notin {"demote", "parse"}
      BY <1>1, <1>7 DEF Conclude, Measured, Skip, After, MeasureOne, world, results, ending, Tools
  <2>2. QED BY <2>1, RanUnjudged
<1>8. CASE WriteOutputs
  <2>1. /\ UNCHANGED <<args, tree, scan, judged>> /\ at' = "ended"
        /\ args.measure = "no" => exit' = ExitCode
        /\ \A t \in Tools : Runs(t) => judged[t] # "none"
      BY <1>8 DEF WriteOutputs, End, world, results, IInv, PassedInv, PastOf
  <2>2. QED BY <2>1, RanUnjudged
<1>9. CASE \E given \in {"ALL", "list"}, list \in SUBSET Files : StartCi(given, list) \/ StartHook(list)
  <2>1. PICK given, list : Start(given, list)
      BY <1>9 DEF StartCi, StartHook
  <2>2. /\ at' = "gitleaks" /\ judged' = judged /\ outputs' = outputs /\ outputs # "written"
        /\ \A t \in Tools : judged[t] = "none"
      BY <1>1, <2>1 DEF Start, results, ending, IInv, MeasureInv
  <2>3. QED BY <2>2 DEF Ran
<1>10. CASE UNCHANGED ciVars
  <2>1. /\ UNCHANGED <<args, tree, scan, judged>> /\ outputs' = outputs /\ exit' = exit /\ at' = at
      BY <1>10 DEF ciVars, world, scan, results, ending
  <2>2. QED BY <2>1, RanUnjudged DEF Ran
<1>11. QED
    BY <1>3, <1>4, <1>5, <1>6, <1>7, <1>8, <1>9, <1>10 DEF CiNext, CiStep

\* For every tree, scope, set of baselines and command line: a run that writes its
\* outputs, unless it measures, is red exactly if the gate says red of a scanner it ran.
THEOREM ExitTellsTheVerdictCorrect == CiSpec => []ExitTellsTheVerdict
<1>1. IInv /\ Ran => ExitTellsTheVerdict
  <2> SUFFICES ASSUME IInv, Ran, outputs = "written", args.measure = "no"
               PROVE  exit = IF \E t \in Tools :
                                   Runs(t) /\ Verdict(t, args.mode, baselines[t], severe, Hits(t)) = "red"
                             THEN "1" ELSE "0"
      BY DEF ExitTellsTheVerdict
  <2>1. \A t \in Tools : judged[t] # "none" =>
           judged[t] = Verdict(t, args.mode, baselines[t], severe, Hits(t)) /\ Runs(t)
      BY DEF IInv, JudgedInv, MeasureInv, Ran
  <2>2. /\ \A t \in Tools : Runs(t) => judged[t] # "none"
        /\ exit = ExitCode
      BY DEF Ran
  <2>3. QED
      BY <2>1, <2>2 DEF ExitCode
<1>2. CiInit => Ran
    BY RanStarts
<1>3. IInv /\ Handed /\ Ran /\ [CiNext]_ciVars => Ran'
    BY RanKeeps
<1>4. QED
    BY <1>1, <1>2, <1>3, Whole, PTL DEF CiSpec
=============================================================================
