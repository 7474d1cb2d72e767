------------------------------- MODULE Fleet -------------------------------
(* scripts/propagate.py: fan-out runs, each of one toolchain tag, bump the  *)
(* pins of the fleet's repositories through a branch and a pull request,    *)
(* while pull requests of other tags are open, merged, closed, and people   *)
(* edit the default branch.  A run may fail at a repository or be killed    *)
(* between any two of its calls; several may be under way.                  *)
EXTENDS Naturals

CONSTANTS Repos,        \* the repositories of fleet.json that are not skipped
          OptedOut,     \* those with dependabot_auto_merge: false
          MajorsOn,     \* those with dependabot_auto_merge_majors: true
          Narrow,       \* those whose sync_safe_paths leave the workflows out
          Tags,         \* the toolchain's releases
          Absent,       \* no such file, or no pin of the toolchain in it
          NoBranch,     \* chore/security-toolchain-<tag> does not exist
          Procs,        \* fan-out runs under way at once
          MaxRuns,      \* bound on runs started
          MaxFlips      \* bound on edits of auto_merge_majors

ASSUME FleetAssumption ==
    /\ OptedOut \cup MajorsOn \cup Narrow \subseteq Repos
    /\ Repos # {} /\ Tags # {} /\ Absent \notin Tags
    /\ MaxRuns \in Nat /\ MaxFlips \in Nat

\* The pre-commit block, the gate's caller, the Dependabot auto-merge caller.
Kinds == {"hooks", "gate", "merge"}
Managed(r) == IF r \in OptedOut THEN {"hooks", "gate"} ELSE Kinds

\* What a tree pins, and the auto_merge_majors line of its auto-merge caller: a bare
\* true or false, or "unread": one with a comment behind it or in quotes, which
\* _AUTO_MERGE_MAJORS_RE does not match.
Bare == {"on", "off"}
Choices == {"none", "unread"} \cup Bare
Trees == [pins : [Kinds -> Tags \cup {Absent}], majors : Choices]
Slots == Repos \X Tags

ASSUME NoBranchAssumption == NoBranch \notin Trees

VARIABLES
    main,       \* the tree of every repository's default branch
    fork,       \* of the bump branch of a repository and tag: the tree it was cut from
    request,    \* its pull request: "none", "open", "merged", "closed"
    pc,         \* where a run is
    tag,        \* the tag it pins
    todo,       \* the repositories it has not come to
    repo,       \* the one it is at
    clone,      \* the tree it cloned
    runs, flips

run == <<pc, tag, todo, repo, clone>>
vars == <<main, fork, request, run, runs, flips>>

Busy == {"next", "plan", "push", "create"}      \* places of a run under way

\* Trees pin tags, and a run is at a step of a repository of the fleet.
TypeOK ==
    /\ main \in [Repos -> Trees]
    /\ fork \in [Slots -> Trees \cup {NoBranch}]
    /\ request \in [Slots -> {"none", "open", "merged", "closed"}]
    /\ pc \in [Procs -> Busy \cup {"idle"}]
    /\ tag \in [Procs -> Tags]
    /\ todo \in [Procs -> SUBSET Repos]
    /\ repo \in [Procs -> Repos]
    /\ clone \in [Procs -> Trees]
    /\ runs \in Nat /\ flips \in Nat

\* The pins that are there agree.
Agree(pins) ==
    \A k, l \in Kinds : pins[k] # Absent /\ pins[l] # Absent => pins[k] = pins[l]

\* A repository that was never onboarded, has some of the files, or all; one
\* that opted out has no auto-merge caller.
Onboarding(r) ==
    {tree \in Trees : /\ Agree(tree.pins)
                      /\ tree.majors = "none" <=> tree.pins["merge"] = Absent
                      /\ \A k \in Kinds \ Managed(r) : tree.pins[k] = Absent}

Init ==
    /\ main \in {m \in [Repos -> Trees] : \A r \in Repos : m[r] \in Onboarding(r)}
    /\ fork = [x \in Slots |-> NoBranch]
    /\ request = [x \in Slots |-> "none"]
    /\ pc = [p \in Procs |-> "idle"]
    /\ tag = [p \in Procs |-> CHOOSE t \in Tags : TRUE]
    /\ todo = [p \in Procs |-> {}]
    /\ repo = [p \in Procs |-> CHOOSE r \in Repos : TRUE]
    /\ clone = [p \in Procs |-> main[repo[p]]]
    /\ runs = 0 /\ flips = 0
-----------------------------------------------------------------------------
(* What a bump makes of a tree *)

\* mutant of Majors: the choice is always fleet.json's
MajorsOfFleet(r, tree) ==
    IF "merge" \notin Managed(r) THEN tree.majors ELSE IF r \in MajorsOn THEN "on" ELSE "off"
\* mutant of Majors: fleet.json's choice is written as Python prints it
MajorsUnrendered(r, tree) ==
    IF "merge" \notin Managed(r) \/ (tree.pins["merge"] # Absent /\ tree.majors \in Bare)
    THEN tree.majors
    ELSE IF r \in MajorsOn THEN "True" ELSE "False"

\* upsert_auto_merge_workflow: the choice read in the caller that is there, else
\* fleet.json's, rendered as YAML.
Majors(r, tree) ==
    IF "merge" \notin Managed(r) \/ (tree.pins["merge"] # Absent /\ tree.majors \in Bare)
    THEN tree.majors
    ELSE IF r \in MajorsOn THEN "on" ELSE "off"

\* mutant of Bumped: an auto-merge caller is only created, never bumped
BumpedCreatingCaller(r, tree, t) ==
    [pins |-> [k \in Kinds |-> IF k \in Managed(r) /\ (k # "merge" \/ tree.pins[k] = Absent)
                               THEN t ELSE tree.pins[k]],
     majors |-> Majors(r, tree)]

\* plan: every managed file, created or bumped.
Bumped(r, tree, t) ==
    [pins |-> [k \in Kinds |-> IF k \in Managed(r) THEN t ELSE tree.pins[k]],
     majors |-> Majors(r, tree)]

\* A change of a workflow that sync_safe_paths leaves out is refused.
Refused(r, tree, t) ==
    /\ r \in Narrow
    /\ \/ \E k \in {"gate", "merge"} : Bumped(r, tree, t).pins[k] # tree.pins[k]
       \/ Majors(r, tree) # tree.majors

(* Merging: line by line, from what the branch was cut from.  (git also     *)
(* refuses changes of neighbouring lines; no merge is ever obliged here.)   *)
Clean(was, ours, theirs) == ours = was \/ theirs = was \/ ours = theirs
Merged(was, ours, theirs) == IF theirs = was THEN ours ELSE theirs

Mergeable(r, t) ==
    LET was == fork[<<r, t>>]
        theirs == Bumped(r, was, t)
    IN  /\ \A k \in Kinds : Clean(was.pins[k], main[r].pins[k], theirs.pins[k])
        /\ Clean(was.majors, main[r].majors, theirs.majors)
MergedTree(r, t) ==
    LET was == fork[<<r, t>>]
        theirs == Bumped(r, was, t)
    IN  [pins |-> [k \in Kinds |-> Merged(was.pins[k], main[r].pins[k], theirs.pins[k])],
         majors |-> Merged(was.majors, main[r].majors, theirs.majors)]
-----------------------------------------------------------------------------
(* A fan-out run *)

Goto(p, place) == pc' = [pc EXCEPT ![p] = place]
Slot(p) == <<repo[p], tag[p]>>

\* A release, or a dispatch of any tag for some of the repositories.
StartRun(p) ==
    /\ pc[p] = "idle"
    /\ runs < MaxRuns /\ runs' = runs + 1
    /\ \E t \in Tags, chosen \in SUBSET Repos :
          tag' = [tag EXCEPT ![p] = t] /\ todo' = [todo EXCEPT ![p] = chosen]
    /\ Goto(p, "next")
    /\ UNCHANGED <<main, fork, request, repo, clone, flips>>

\* gh repo clone --depth 1 (the order of fleet.json is left open).
Clone(p) ==
    /\ pc[p] = "next"
    /\ \E r \in todo[p] :
          /\ repo' = [repo EXCEPT ![p] = r]
          /\ todo' = [todo EXCEPT ![p] = todo[p] \ {r}]
          /\ clone' = [clone EXCEPT ![p] = main[r]]
    /\ Goto(p, "plan")
    /\ UNCHANGED <<main, fork, request, tag, runs, flips>>

\* sh() raises SystemExit: the repository is reported as FAILED, the next is tried.
Fail(p) == Goto(p, "next")

Plan(p) ==
    /\ pc[p] = "plan"
    /\ \/ Refused(repo[p], clone[p], tag[p]) /\ Fail(p)
       \/ Bumped(repo[p], clone[p], tag[p]) = clone[p] /\ Goto(p, "next")  \* already at the tag
       \/ /\ ~Refused(repo[p], clone[p], tag[p])
          /\ Bumped(repo[p], clone[p], tag[p]) # clone[p]
          /\ Goto(p, "push")
    /\ UNCHANGED <<main, fork, request, tag, todo, repo, clone, runs, flips>>

\* mutant of Push: with force
PushForced(p) ==
    /\ pc[p] = "push"
    /\ fork' = [fork EXCEPT ![Slot(p)] = clone[p]]
    /\ Goto(p, "create")
    /\ UNCHANGED <<main, request, tag, todo, repo, clone, runs, flips>>

\* git push, without force: a branch that is there holds another commit, cut
\* from another clone, and the push is rejected.
Push(p) ==
    /\ pc[p] = "push"
    /\ \/ /\ fork[Slot(p)] = NoBranch
          /\ fork' = [fork EXCEPT ![Slot(p)] = clone[p]]
          /\ Goto(p, "create") \/ Fail(p)                 \* or the answer is lost
       \/ fork[Slot(p)] # NoBranch /\ Fail(p) /\ UNCHANGED fork
    /\ UNCHANGED <<main, request, tag, todo, repo, clone, runs, flips>>

\* gh pr create, and gh pr merge --auto, whose failure is ignored: who merges
\* is not told apart here.
Create(p) ==
    /\ pc[p] = "create"
    /\ \/ /\ fork[Slot(p)] # NoBranch /\ request[Slot(p)] # "open"
          /\ request' = [request EXCEPT ![Slot(p)] = "open"]
       \/ (fork[Slot(p)] = NoBranch \/ request[Slot(p)] = "open") /\ UNCHANGED request
    /\ Goto(p, "next")
    /\ UNCHANGED <<main, fork, tag, todo, repo, clone, runs, flips>>

\* The network, the API or the App's installation fails the step.
StepFails(p) ==
    /\ pc[p] \in {"plan", "push", "create"}
    /\ Fail(p)
    /\ UNCHANGED <<main, fork, request, tag, todo, repo, clone, runs, flips>>

\* The run ends: every repository was tried, the job's 30 minutes are over, or
\* an exception that is no SystemExit ended the script.
End(p) ==
    /\ pc[p] \in Busy
    /\ Goto(p, "idle")
    /\ todo' = [todo EXCEPT ![p] = {}]
    /\ UNCHANGED <<main, fork, request, tag, repo, clone, runs, flips>>

(* The repositories *)

\* GitHub squashes a pull request without conflicts.
Merge(r, t) ==
    /\ request[<<r, t>>] = "open" /\ Mergeable(r, t)
    /\ main' = [main EXCEPT ![r] = MergedTree(r, t)]
    /\ request' = [request EXCEPT ![<<r, t>>] = "merged"]
    /\ UNCHANGED <<fork, run, runs, flips>>

Close(r, t) ==
    /\ request[<<r, t>>] = "open"
    /\ request' = [request EXCEPT ![<<r, t>>] = "closed"]
    /\ UNCHANGED <<main, fork, run, runs, flips>>

\* GitHub, on merging, or a person deletes a branch no pull request is open for.
DeleteBranch(r, t) ==
    /\ fork[<<r, t>>] # NoBranch /\ request[<<r, t>>] # "open"
    /\ fork' = [fork EXCEPT ![<<r, t>>] = NoBranch]
    /\ UNCHANGED <<main, request, run, runs, flips>>

\* "Change `auto_merge_majors` here": the repository's own choice, written as it likes.
FlipMajors(r) ==
    /\ main[r].majors # "none"
    /\ flips < MaxFlips /\ flips' = flips + 1
    /\ \E choice \in Choices \ {"none"} :
          main' = [main EXCEPT ![r] = [pins |-> main[r].pins, majors |-> choice]]
    /\ UNCHANGED <<fork, request, run, runs>>

Next ==
    \/ \E p \in Procs : StartRun(p) \/ Clone(p) \/ Plan(p) \/ Push(p) \/ Create(p)
                        \/ StepFails(p) \/ End(p)
    \/ \E r \in Repos : FlipMajors(r)
    \/ \E r \in Repos, t \in Tags : Merge(r, t) \/ Close(r, t) \/ DeleteBranch(r, t)

Spec == Init /\ [][Next]_vars
-----------------------------------------------------------------------------
\* "The CI pin and the pre-commit `rev` are only ever bumped together": whatever
\* releases and reruns have branches open, cut from whatever trees, what a merge
\* leaves passes verify_repo: all pins there, and all the same.
Verified(r, pins) == Agree(pins) /\ \A k \in Managed(r) : pins[k] # Absent
BumpedTogether ==
    [][\A r \in Repos : main'[r].pins # main[r].pins => Verified(r, main'[r].pins)]_vars

\* "keeping your `auto_merge_majors` choice": no bump changes the choice a
\* repository wrote as a bare true or false, also one made while the bump's pull
\* request was open.
MajorsKept ==
    [][\A r \in Repos :
          main[r].majors \in Bare /\ main'[r].majors # main[r].majors => flips' # flips]_vars

\* What is under review stays: no rerun replaces the branch of an open pull request.
ReviewedBranchStays ==
    [][\A x \in Slots : request[x] = "open" /\ request'[x] = "open" => fork'[x] = fork[x]]_vars

\* However many runs, releases and failures are on their way, a repository sees one
\* release under review replace another: Fleet implements FleetReleases.
Pinned == [r \in Repos |-> {main[r].pins[k] : k \in Managed(r)}]
Choice == [r \in Repos |-> main[r].majors]
Review == [r \in Repos |-> {t \in Tags : request[<<r, t>>] = "open"}]
Released == INSTANCE FleetReleases WITH pinned <- Pinned, choice <- Choice, review <- Review
BringsReleases == Released!Spec
=============================================================================
