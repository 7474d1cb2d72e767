---------------------------- MODULE FleetProofs ----------------------------
(* Proofs about Fleet, for any fleet, releases, concurrent runs and bounds: *)
(* types; every merged bump leaves pins that verify_repo accepts; no bump   *)
(* changes a repository's auto_merge_majors; and Fleet implements the       *)
(* abstract FleetReleases.                                                  *)
EXTENDS Fleet, TLAPS

\* A tree a repository can hold: its pins agree, a kind that is not managed is
\* absent, and the choice is there just when the auto-merge caller is.
Sound(r, tree) ==
    /\ Agree(tree.pins)
    /\ \A k \in Kinds \ Managed(r) : tree.pins[k] = Absent
    /\ tree.majors = "none" <=> tree.pins["merge"] = Absent

\* A tree somebody still works from: the default branch, with pins, has kept its
\* pins or has been bumped completely since.
Based(r, tree, pins) ==
    /\ Sound(r, tree)
    /\ pins = tree.pins \/ Verified(r, pins)

IInv ==
    /\ TypeOK
    /\ \A r \in Repos : Sound(r, main[r])
    /\ \A r \in Repos, t \in Tags : fork[<<r, t>>] # NoBranch => Based(r, fork[<<r, t>>], main[r].pins)
    /\ \A r \in Repos, t \in Tags : request[<<r, t>>] = "open" => fork[<<r, t>>] # NoBranch
    /\ \A p \in Procs : Based(repo[p], clone[p], main[repo[p]].pins)
-----------------------------------------------------------------------------
\* What a bump, and a merge of it, leave of a tree.
LEMMA ManagedKinds == \A r : Managed(r) \subseteq Kinds
  BY DEF Managed, Kinds

LEMMA BumpedTree ==
    ASSUME NEW r \in Repos, NEW was \in Trees, NEW t \in Tags
    PROVE  /\ Bumped(r, was, t) \in Trees
           /\ \A k \in Managed(r) : Bumped(r, was, t).pins[k] = t
           /\ \A k \in Kinds \ Managed(r) : Bumped(r, was, t).pins[k] = was.pins[k]
           /\ Bumped(r, was, t).majors = Majors(r, was)
  <1>1. Majors(r, was) \in Choices
    BY DEF Majors, Trees, Choices, Bare
  <1>2. QED
    BY <1>1, ManagedKinds DEF Bumped, Trees

\* A clean merge of a bump with a tree that has the pins it was cut from, or has
\* been bumped since, pins the bump's tag everywhere, or what was there.
LEMMA MergedPins ==
    ASSUME NEW r \in Repos, NEW t \in Tags, fork[<<r, t>>] \in Trees, main[r] \in Trees,
           Sound(r, main[r]), Based(r, fork[<<r, t>>], main[r].pins), Mergeable(r, t)
    PROVE  /\ Verified(r, MergedTree(r, t).pins)
           /\ \A k \in Kinds \ Managed(r) : MergedTree(r, t).pins[k] = Absent
  <1> DEFINE was == fork[<<r, t>>]
             theirs == Bumped(r, was, t)
             merged == MergedTree(r, t)
  <1> SUFFICES Verified(r, merged.pins) /\ \A k \in Kinds \ Managed(r) : merged.pins[k] = Absent
    OBVIOUS
  <1>1. /\ \A k \in Managed(r) : theirs.pins[k] = t
        /\ \A k \in Kinds \ Managed(r) : theirs.pins[k] = was.pins[k]
    BY BumpedTree
  <1>2. \A k \in Kinds : Clean(was.pins[k], main[r].pins[k], theirs.pins[k])
    BY DEF Mergeable
  <1>3. \A k \in Kinds : merged.pins[k] = Merged(was.pins[k], main[r].pins[k], theirs.pins[k])
    BY DEF MergedTree
  <1>4. \A k \in Kinds \ Managed(r) : merged.pins[k] = Absent
    BY <1>1, <1>3 DEF Merged, Sound
  <1> HIDE DEF merged, theirs
  <1>5. CASE main[r].pins = was.pins
    <2>1. \A k \in Managed(r) : merged.pins[k] = t
      BY <1>1, <1>3, <1>5, ManagedKinds DEF Merged
    <2>2. QED
      BY <2>1, <1>4, FleetAssumption, ManagedKinds DEF Verified, Agree
  <1>6. CASE Verified(r, main[r].pins)
    <2>1. PICK v \in Tags : \A k \in Managed(r) : main[r].pins[k] = v
      <3>1. "hooks" \in Managed(r) /\ "hooks" \in Kinds
        BY DEF Managed, Kinds
      <3>2. main[r].pins["hooks"] \in Tags
        BY <3>1, <1>6 DEF Verified, Trees
      <3>3. \A k \in Managed(r) : main[r].pins[k] = main[r].pins["hooks"]
        BY <3>1, <1>6, ManagedKinds DEF Verified, Agree
      <3>4. QED
        BY <3>2, <3>3
    <2>2. (\A k \in Managed(r) : merged.pins[k] = t) \/ (\A k \in Managed(r) : merged.pins[k] = v)
      <3>1. CASE \E k \in Managed(r) : was.pins[k] = t
        <4>1. \A k \in Managed(r) : was.pins[k] \in {t, Absent}
          BY <3>1, ManagedKinds, FleetAssumption DEF Sound, Based, Agree
        <4>2. \A k \in Managed(r) : merged.pins[k] = v
          BY <4>1, <2>1, <1>1, <1>2, <1>3, FleetAssumption, ManagedKinds DEF Clean, Merged
        <4>3. QED
          BY <4>2
      <3>2. CASE ~ \E k \in Managed(r) : was.pins[k] = t
        BY <3>2, <1>1, <1>3, ManagedKinds DEF Merged
      <3>3. QED
        BY <3>1, <3>2
    <2>3. QED
      BY <2>2, <1>4, FleetAssumption, ManagedKinds DEF Verified, Agree
  <1>7. QED
    BY <1>4, <1>5, <1>6 DEF Based

\* A clean merge of a bump keeps a choice that can be read, and leaves a readable
\* one or what was there, in an auto-merge caller and nowhere else.
LEMMA MergedMajors ==
    ASSUME NEW r \in Repos, NEW t \in Tags, fork[<<r, t>>] \in Trees, main[r] \in Trees,
           Sound(r, main[r]), Based(r, fork[<<r, t>>], main[r].pins), Mergeable(r, t)
    PROVE  /\ MergedTree(r, t).majors \in Choices
           /\ main[r].majors \in Bare => MergedTree(r, t).majors = main[r].majors
           /\ r \in OptedOut => MergedTree(r, t).majors = "none"
           /\ r \notin OptedOut => MergedTree(r, t).majors # "none"
           /\ MergedTree(r, t).majors \in Bare \cup {main[r].majors}
  <1> DEFINE was == fork[<<r, t>>]
             theirs == Bumped(r, was, t)
  <1>1. theirs.majors = Majors(r, was) /\ theirs \in Trees
    BY BumpedTree
  <1>2. Clean(was.majors, main[r].majors, theirs.majors)
    BY DEF Mergeable
  <1>3. MergedTree(r, t).majors = Merged(was.majors, main[r].majors, theirs.majors)
    BY DEF MergedTree
  <1>4. was.majors \in Choices /\ main[r].majors \in Choices /\ theirs.majors \in Choices
    BY <1>1 DEF Trees
  <1>5. theirs.majors = was.majors \/ (was.majors \notin Bare /\ theirs.majors \in Bare)
    BY <1>1 DEF Majors, Sound, Based, Bare
  <1>6. ASSUME r \in OptedOut PROVE main[r].majors = "none" /\ theirs.majors = was.majors
    BY <1>6, <1>1 DEF Majors, Sound, Managed, Kinds
  <1>7. ASSUME r \notin OptedOut PROVE theirs.majors \in Bare
    <2>1. "merge" \in Managed(r)
      BY <1>7 DEF Managed, Kinds
    <2>2. QED
      BY <2>1, <1>1 DEF Majors, Bare
  <1>8. ASSUME r \notin OptedOut, main[r].majors = "none" PROVE was.majors = "none"
    <2>1. "merge" \in Managed(r) /\ main[r].pins["merge"] = Absent
      BY <1>8 DEF Managed, Kinds, Sound
    <2>2. was.pins = main[r].pins
      BY <2>1 DEF Based, Verified
    <2>3. was.pins["merge"] = Absent
      BY <2>1, <2>2
    <2>4. QED
      BY <2>3 DEF Based, Sound
  <1> HIDE DEF theirs, was
  <1>9. MergedTree(r, t).majors \in Choices
    BY <1>3, <1>4 DEF Merged
  <1>10. main[r].majors \in Bare => MergedTree(r, t).majors = main[r].majors
    BY <1>2, <1>3, <1>5 DEF Clean, Merged
  <1>11. r \in OptedOut => MergedTree(r, t).majors = "none"
    BY <1>3, <1>6 DEF Merged
  <1>12. r \notin OptedOut => MergedTree(r, t).majors # "none"
    BY <1>3, <1>7, <1>8 DEF Merged, Bare
  <1>13. MergedTree(r, t).majors \in Bare \cup {main[r].majors}
    BY <1>3, <1>5 DEF Merged
  <1>14. QED
    BY <1>9, <1>10, <1>11, <1>12, <1>13

\* So a merge leaves a sound, completely bumped tree.
LEMMA MergedSound ==
    ASSUME NEW r \in Repos, NEW t \in Tags, fork[<<r, t>>] \in Trees, main[r] \in Trees,
           Sound(r, main[r]), Based(r, fork[<<r, t>>], main[r].pins), Mergeable(r, t)
    PROVE  /\ MergedTree(r, t) \in Trees
           /\ Sound(r, MergedTree(r, t))
           /\ Verified(r, MergedTree(r, t).pins)
  <1>1. /\ Verified(r, MergedTree(r, t).pins)
        /\ \A k \in Kinds \ Managed(r) : MergedTree(r, t).pins[k] = Absent
    BY MergedPins
  <1>2. /\ MergedTree(r, t).majors \in Choices
        /\ MergedTree(r, t).majors = "none" <=> r \in OptedOut
    BY MergedMajors
  <1>3. MergedTree(r, t) \in Trees
    <2>1. Bumped(r, fork[<<r, t>>], t) \in Trees
      BY BumpedTree
    <2>2. \A k \in Kinds : Merged(fork[<<r, t>>].pins[k], main[r].pins[k],
                                  Bumped(r, fork[<<r, t>>], t).pins[k]) \in Tags \cup {Absent}
      BY <2>1 DEF Merged, Trees
    <2>3. QED
      BY <2>2, <1>2 DEF MergedTree, Trees
  <1>4. MergedTree(r, t).pins["merge"] = Absent <=> r \in OptedOut
    BY <1>1 DEF Verified, Managed, Kinds
  <1>5. QED
    BY <1>1, <1>2, <1>3, <1>4 DEF Sound, Verified
-----------------------------------------------------------------------------
\* Repositories start sound, without branches; the clones are their trees.
LEMMA InitIInv == Init => IInv
<1> SUFFICES ASSUME Init PROVE IInv
    OBVIOUS
<1>1. (CHOOSE t \in Tags : TRUE) \in Tags /\ (CHOOSE r \in Repos : TRUE) \in Repos
    BY FleetAssumption
<1>2. main \in [Repos -> Trees] /\ \A r \in Repos : Sound(r, main[r])
    BY DEF Init, Onboarding, Sound
<1>3. \A p \in Procs : repo[p] \in Repos /\ clone[p] = main[repo[p]]
    BY <1>1 DEF Init
<1>4. TypeOK
    BY <1>1, <1>2 DEF Init, TypeOK, Busy
<1>5. \A x \in Slots : fork[x] = NoBranch /\ request[x] = "none"
    BY DEF Init
<1>6. \A p \in Procs : Based(repo[p], clone[p], main[repo[p]].pins)
    BY <1>2, <1>3 DEF Based
<1>7. QED
    BY <1>2, <1>4, <1>5, <1>6 DEF IInv, Slots

\* A step that leaves the default branches alone, and whose branches and clones
\* are based on trees as before, keeps the invariant.
LEMMA SameMain ==
    ASSUME IInv, TypeOK', main' = main,
           \A r \in Repos, t \in Tags : fork'[<<r, t>>] # fork[<<r, t>>] =>
               fork'[<<r, t>>] = NoBranch \/ Based(r, fork'[<<r, t>>], main[r].pins),
           \A r \in Repos, t \in Tags : request'[<<r, t>>] = "open" => fork'[<<r, t>>] # NoBranch,
           \A p \in Procs : Based(repo'[p], clone'[p], main[repo'[p]].pins)
    PROVE  IInv'
  <1>1. \A r \in Repos, t \in Tags : fork'[<<r, t>>] # NoBranch =>
           Based(r, fork'[<<r, t>>], main'[r].pins)
    BY DEF IInv
  <1>2. QED
    BY <1>1 DEF IInv

\* A step that changes one default branch, to a tree that has its pins or is
\* completely bumped, keeps the invariant.
LEMMA NewMain ==
    ASSUME IInv, TypeOK', NEW r \in Repos, NEW tree \in Trees, Sound(r, tree),
           tree.pins = main[r].pins \/ Verified(r, tree.pins),
           main' = [main EXCEPT ![r] = tree], fork' = fork, repo' = repo, clone' = clone,
           \A x \in Slots : request'[x] = "open" => request[x] = "open"
    PROVE  IInv'
  <1>1. main'[r] = tree /\ \A s \in Repos \ {r} : main'[s] = main[s]
    BY DEF IInv, TypeOK
  <1>2. \A s \in Repos : Sound(s, main'[s])
    BY <1>1 DEF IInv
  <1>3. \A s \in Repos : \A c : Based(s, c, main[s].pins) => Based(s, c, main'[s].pins)
    BY <1>1 DEF Based
  <1>4. \A s \in Repos, t \in Tags : fork[<<s, t>>] # NoBranch => Based(s, fork[<<s, t>>], main'[s].pins)
    BY <1>3 DEF IInv
  <1>5. \A p \in Procs : Based(repo[p], clone[p], main'[repo[p]].pins)
    BY <1>3 DEF IInv, TypeOK
  <1>6. \A s \in Repos, t \in Tags : request'[<<s, t>>] = "open" => fork[<<s, t>>] # NoBranch
    BY DEF IInv, Slots
  <1>7. QED
    BY <1>2, <1>4, <1>5, <1>6 DEF IInv
-----------------------------------------------------------------------------
\* Every step is well typed.
LEMMA NextType ==
    ASSUME IInv, [Next]_vars PROVE TypeOK'
<1> USE DEF IInv, TypeOK, Busy
<1>1. ASSUME NEW p \in Procs, StartRun(p) PROVE TypeOK'
    BY <1>1 DEF StartRun, Goto
<1>2. ASSUME NEW p \in Procs, Clone(p) PROVE TypeOK'
    BY <1>2 DEF Clone, Goto
<1>3. ASSUME NEW p \in Procs, Plan(p) PROVE TypeOK'
    BY <1>3 DEF Plan, Goto, Fail
<1>4. ASSUME NEW p \in Procs, Push(p) PROVE TypeOK'
    BY <1>4 DEF Push, Goto, Fail, Slot, Slots
<1>5. ASSUME NEW p \in Procs, Create(p) PROVE TypeOK'
    BY <1>5 DEF Create, Goto, Slot, Slots
<1>6. ASSUME NEW p \in Procs, StepFails(p) PROVE TypeOK'
    BY <1>6 DEF StepFails, Goto, Fail
<1>7. ASSUME NEW p \in Procs, End(p) PROVE TypeOK'
    BY <1>7 DEF End, Goto
<1>8. ASSUME NEW r \in Repos, FlipMajors(r) PROVE TypeOK'
  <2>1. \A c \in Choices : [pins |-> main[r].pins, majors |-> c] \in Trees
    BY DEF Trees
  <2>2. PICK c \in Choices :
           main' = [main EXCEPT ![r] = [pins |-> main[r].pins, majors |-> c]]
    BY <1>8 DEF FlipMajors
  <2>3. QED
    BY <1>8, <2>1, <2>2 DEF FlipMajors, run
<1>9. ASSUME NEW r \in Repos, NEW t \in Tags, Merge(r, t) PROVE TypeOK'
  <2>1. fork[<<r, t>>] # NoBranch /\ <<r, t>> \in Slots
    BY <1>9 DEF Merge, Slots
  <2>2. MergedTree(r, t) \in Trees
    BY <1>9, <2>1, MergedSound DEF Merge
  <2>3. QED
    BY <1>9, <2>2 DEF Merge, run
<1>10. ASSUME NEW r \in Repos, NEW t \in Tags, Close(r, t) PROVE TypeOK'
    BY <1>10 DEF Close, run
<1>11. ASSUME NEW r \in Repos, NEW t \in Tags, DeleteBranch(r, t) PROVE TypeOK'
    BY <1>11 DEF DeleteBranch, run
<1>12. CASE UNCHANGED vars
    BY <1>12 DEF vars, run
<1>13. QED
    BY <1>1, <1>2, <1>3, <1>4, <1>5, <1>6, <1>7, <1>8, <1>9, <1>10, <1>11, <1>12 DEF Next

\* Every step keeps the invariant.
LEMMA NextIInv == IInv /\ [Next]_vars => IInv'
<1> SUFFICES ASSUME IInv, [Next]_vars PROVE IInv'
    OBVIOUS
<1> TypeOK /\ TypeOK'
    BY NextType DEF IInv
<1>1. ASSUME NEW p \in Procs, StartRun(p) PROVE IInv'
    BY <1>1, SameMain DEF StartRun, IInv
<1>2. ASSUME NEW p \in Procs, Clone(p) PROVE IInv'
  <2>1. main' = main /\ fork' = fork /\ request' = request
    BY <1>2 DEF Clone
  <2>2. PICK r \in Repos : repo' = [repo EXCEPT ![p] = r] /\ clone' = [clone EXCEPT ![p] = main[r]]
    BY <1>2 DEF Clone, TypeOK
  <2>3. \A q \in Procs : \/ repo'[q] = r /\ clone'[q] = main[r]
                         \/ repo'[q] = repo[q] /\ clone'[q] = clone[q]
    BY <2>2 DEF TypeOK
  <2>4. \A q \in Procs : Based(repo'[q], clone'[q], main[repo'[q]].pins)
    BY <2>3 DEF IInv, Based
  <2>5. QED
    BY <2>1, <2>4, SameMain DEF IInv
<1>3. ASSUME NEW p \in Procs, Plan(p) PROVE IInv'
    BY <1>3, SameMain DEF Plan, IInv
<1>4. ASSUME NEW p \in Procs, Push(p) PROVE IInv'
  <2>1. main' = main /\ repo' = repo /\ clone' = clone /\ request' = request
    BY <1>4 DEF Push
  <2>2. \A x \in Slots : \/ fork'[x] = fork[x]
                         \/ fork[x] = NoBranch /\ x = Slot(p) /\ fork'[x] = clone[p]
    BY <1>4 DEF Push, TypeOK
  <2>3. clone[p] # NoBranch
    BY NoBranchAssumption DEF TypeOK
  <2>4. \A r \in Repos, t \in Tags : fork'[<<r, t>>] # fork[<<r, t>>] =>
           Based(r, fork'[<<r, t>>], main[r].pins)
    BY <2>2 DEF IInv, Slot, Slots
  <2>5. \A r \in Repos, t \in Tags : request'[<<r, t>>] = "open" => fork'[<<r, t>>] # NoBranch
    BY <2>1, <2>2, <2>3 DEF IInv, Slots
  <2>6. QED
    BY <2>1, <2>4, <2>5, SameMain DEF IInv
<1>5. ASSUME NEW p \in Procs, Create(p) PROVE IInv'
  <2>1. main' = main /\ repo' = repo /\ clone' = clone /\ fork' = fork
    BY <1>5 DEF Create
  <2>2. \A r \in Repos, t \in Tags : request'[<<r, t>>] = "open" => fork'[<<r, t>>] # NoBranch
    BY <1>5, <2>1 DEF Create, IInv, TypeOK, Slots
  <2>3. QED
    BY <2>1, <2>2, SameMain DEF IInv
<1>6. ASSUME NEW p \in Procs, StepFails(p) PROVE IInv'
    BY <1>6, SameMain DEF StepFails, IInv
<1>7. ASSUME NEW p \in Procs, End(p) PROVE IInv'
    BY <1>7, SameMain DEF End, IInv
<1>8. ASSUME NEW r \in Repos, FlipMajors(r) PROVE IInv'
  <2>1. PICK c \in Choices \ {"none"} :
           main' = [main EXCEPT ![r] = [pins |-> main[r].pins, majors |-> c]]
    BY <1>8 DEF FlipMajors
  <2> DEFINE tree == [pins |-> main[r].pins, majors |-> c]
  <2>2. tree \in Trees /\ tree.pins = main[r].pins
    BY DEF TypeOK, Trees
  <2>3. Sound(r, tree)
    BY <1>8, <2>2 DEF FlipMajors, IInv, Sound
  <2>4. /\ main' = [main EXCEPT ![r] = tree]
        /\ fork' = fork /\ repo' = repo /\ clone' = clone /\ request' = request
    BY <1>8, <2>1 DEF FlipMajors, run
  <2> HIDE DEF tree
  <2>5. QED
    BY <2>2, <2>3, <2>4, NewMain
<1>9. ASSUME NEW r \in Repos, NEW t \in Tags, Merge(r, t) PROVE IInv'
  <2>1. fork[<<r, t>>] # NoBranch /\ <<r, t>> \in Slots
    BY <1>9 DEF Merge, Slots, IInv
  <2>2. /\ MergedTree(r, t) \in Trees
        /\ Sound(r, MergedTree(r, t))
        /\ Verified(r, MergedTree(r, t).pins)
    BY <1>9, <2>1, MergedSound DEF Merge, IInv, TypeOK
  <2>3. /\ main' = [main EXCEPT ![r] = MergedTree(r, t)]
        /\ fork' = fork /\ repo' = repo /\ clone' = clone
    BY <1>9 DEF Merge, run
  <2>4. \A x \in Slots : request'[x] = "open" => request[x] = "open"
    BY <1>9 DEF Merge, TypeOK
  <2>5. QED
    BY <2>2, <2>3, <2>4, NewMain
<1>10. ASSUME NEW r \in Repos, NEW t \in Tags, Close(r, t) PROVE IInv'
  <2>1. main' = main /\ repo' = repo /\ clone' = clone /\ fork' = fork
    BY <1>10 DEF Close, run
  <2>2. \A x \in Slots : request'[x] = "open" => request[x] = "open"
    BY <1>10 DEF Close, TypeOK
  <2>3. QED
    BY <2>1, <2>2, SameMain DEF IInv, Slots
<1>11. ASSUME NEW r \in Repos, NEW t \in Tags, DeleteBranch(r, t) PROVE IInv'
  <2>1. main' = main /\ repo' = repo /\ clone' = clone /\ request' = request
    BY <1>11 DEF DeleteBranch, run
  <2>2. \A x \in Slots : \/ fork'[x] = fork[x]
                         \/ fork'[x] = NoBranch /\ request[x] # "open"
    BY <1>11 DEF DeleteBranch, TypeOK, Slots
  <2>3. QED
    BY <2>1, <2>2, SameMain DEF IInv, Slots
<1>12. CASE UNCHANGED vars
    BY <1>12 DEF vars, run, IInv
<1>13. QED
    BY <1>1, <1>2, <1>3, <1>4, <1>5, <1>6, <1>7, <1>8, <1>9, <1>10, <1>11, <1>12 DEF Next
-----------------------------------------------------------------------------
\* The inductive invariant: what runs and branches work from stays mergeable to
\* agreeing pins.
LEMMA IInvAlways == Spec => []IInv
  BY InitIInv, NextIInv, PTL DEF Spec

\* Types, for any fleet.
THEOREM FleetTypeCorrect == Spec => []TypeOK
<1>1. IInv => TypeOK
    BY DEF IInv
<1>2. QED
    BY <1>1, IInvAlways, PTL

\* A step changes a default branch's pins or choice only by a merge, or the choice
\* by a person.
LEMMA WhoChangesMain ==
    ASSUME IInv, Next, NEW r \in Repos, main'[r] # main[r]
    PROVE  \/ \E t \in Tags : Merge(r, t)
           \/ main'[r].pins = main[r].pins /\ flips' = flips + 1
<1>1. ASSUME NEW p \in Procs, StartRun(p) \/ Clone(p) \/ Plan(p) \/ Push(p) \/ Create(p)
                              \/ StepFails(p) \/ End(p)
      PROVE  FALSE
    BY <1>1 DEF StartRun, Clone, Plan, Push, Create, StepFails, End
<1>2. ASSUME NEW s \in Repos, FlipMajors(s)
      PROVE  main'[r].pins = main[r].pins /\ flips' = flips + 1
    BY <1>2 DEF FlipMajors, IInv, TypeOK
<1>3. ASSUME NEW s \in Repos, NEW t \in Tags, Merge(s, t) PROVE Merge(r, t)
    BY <1>3 DEF Merge, IInv, TypeOK
<1>4. ASSUME NEW s \in Repos, NEW t \in Tags, Close(s, t) \/ DeleteBranch(s, t) PROVE FALSE
    BY <1>4 DEF Close, DeleteBranch
<1>5. QED
    BY <1>1, <1>2, <1>3, <1>4 DEF Next

\* What a merge made of the tree it merged into.
LEMMA MergeLeaves ==
    ASSUME IInv, NEW r \in Repos, NEW t \in Tags, Merge(r, t)
    PROVE  /\ Verified(r, main'[r].pins)
           /\ main[r].majors \in Bare => main'[r].majors = main[r].majors
<1>1. fork[<<r, t>>] # NoBranch /\ fork[<<r, t>>] \in Trees
    BY DEF Merge, IInv, TypeOK, Slots
<1>2. main'[r] = MergedTree(r, t)
    BY DEF Merge, IInv, TypeOK
<1>3. QED
    BY <1>1, <1>2, MergedSound, MergedMajors DEF Merge, IInv, TypeOK, Based

\* Pins move together, whatever releases, reruns and failures come in whatever
\* order: what a merge leaves passes verify_repo.
THEOREM BumpedTogetherCorrect == Spec => BumpedTogether
<1>1. IInv /\ [Next]_vars =>
        [\A r \in Repos : main'[r].pins # main[r].pins => Verified(r, main'[r].pins)]_vars
  <2> SUFFICES ASSUME IInv, Next, NEW r \in Repos, main'[r].pins # main[r].pins
               PROVE  Verified(r, main'[r].pins)
    OBVIOUS
  <2>1. PICK t \in Tags : Merge(r, t)
    BY WhoChangesMain
  <2>2. QED
    BY <2>1, MergeLeaves
<1>2. QED
    BY <1>1, IInvAlways, PTL DEF Spec, BumpedTogether

\* An auto_merge_majors written as a bare true or false is the repository's own: only
\* an edit of a person changes it.
THEOREM MajorsKeptCorrect == Spec => MajorsKept
<1>1. IInv /\ [Next]_vars =>
        [\A r \in Repos :
            main[r].majors \in Bare /\ main'[r].majors # main[r].majors => flips' # flips]_vars
  <2> SUFFICES ASSUME IInv, Next, NEW r \in Repos,
                      main[r].majors \in Bare, main'[r].majors # main[r].majors
               PROVE  flips' # flips
    OBVIOUS
  <2>1. CASE \E t \in Tags : Merge(r, t)
    BY <2>1, MergeLeaves
  <2>2. CASE flips' = flips + 1
    BY <2>2 DEF IInv, TypeOK
  <2>3. QED
    BY <2>1, <2>2, WhoChangesMain
<1>2. QED
    BY <1>1, IInvAlways, PTL DEF Spec, MajorsKept

\* Whatever reruns and releases there are: the branch of an open pull request is
\* not replaced.
THEOREM ReviewedBranchStaysCorrect == Spec => ReviewedBranchStays
<1>1. IInv /\ [Next]_vars =>
        [\A x \in Slots : request[x] = "open" /\ request'[x] = "open" => fork'[x] = fork[x]]_vars
  <2> SUFFICES ASSUME IInv, Next, NEW x \in Slots, request[x] = "open", request'[x] = "open"
               PROVE  fork'[x] = fork[x]
    OBVIOUS
  <2>1. fork[x] # NoBranch
    BY DEF IInv, Slots
  <2>2. ASSUME NEW p \in Procs, Push(p) PROVE fork'[x] = fork[x]
    BY <2>1, <2>2 DEF Push, IInv, TypeOK
  <2>3. ASSUME NEW r \in Repos, NEW t \in Tags, DeleteBranch(r, t) PROVE fork'[x] = fork[x]
    BY <2>3 DEF DeleteBranch, IInv, TypeOK
  <2>4. ASSUME NEW p \in Procs, StartRun(p) \/ Clone(p) \/ Plan(p) \/ Create(p) \/ StepFails(p) \/ End(p)
        PROVE  fork'[x] = fork[x]
    BY <2>4 DEF StartRun, Clone, Plan, Create, StepFails, End
  <2>5. ASSUME NEW r \in Repos, NEW t \in Tags, Merge(r, t) \/ Close(r, t) PROVE fork'[x] = fork[x]
    BY <2>5 DEF Merge, Close
  <2>6. ASSUME NEW r \in Repos, FlipMajors(r) PROVE fork'[x] = fork[x]
    BY <2>6 DEF FlipMajors
  <2>7. QED
    BY <2>2, <2>3, <2>4, <2>5, <2>6 DEF Next
<1>2. QED
    BY <1>1, IInvAlways, PTL DEF Spec, ReviewedBranchStays
-----------------------------------------------------------------------------
(* The refinement of FleetReleases *)

\* A merged bump pins its own release in every managed file, or none of them: one
\* that only rewrote the auto_merge_majors line leaves the pins that are there.
LEMMA MergePinsItsTag ==
    ASSUME NEW r \in Repos, NEW t \in Tags, fork[<<r, t>>] \in Trees, main[r] \in Trees,
           Sound(r, main[r]), Based(r, fork[<<r, t>>], main[r].pins), Mergeable(r, t)
    PROVE  \/ \A k \in Managed(r) : MergedTree(r, t).pins[k] = t
           \/ \A k \in Managed(r) : /\ MergedTree(r, t).pins[k] = main[r].pins[k]
                                   /\ main[r].pins[k] # Absent
  <1> DEFINE was == fork[<<r, t>>]
             theirs == Bumped(r, was, t)
             merged == MergedTree(r, t)
  <1> SUFFICES \/ \A k \in Managed(r) : merged.pins[k] = t
               \/ \A k \in Managed(r) : /\ merged.pins[k] = main[r].pins[k]
                                       /\ main[r].pins[k] # Absent
    OBVIOUS
  <1>1. /\ \A k \in Managed(r) : theirs.pins[k] = t
        /\ \A k \in Kinds \ Managed(r) : theirs.pins[k] = was.pins[k]
    BY BumpedTree
  <1>2. \A k \in Kinds : Clean(was.pins[k], main[r].pins[k], theirs.pins[k])
    BY DEF Mergeable
  <1>3. \A k \in Kinds : merged.pins[k] = Merged(was.pins[k], main[r].pins[k], theirs.pins[k])
    BY DEF MergedTree
  <1> HIDE DEF merged, theirs
  <1>4. CASE main[r].pins = was.pins
    BY <1>1, <1>3, <1>4, ManagedKinds DEF Merged
  <1>5. CASE Verified(r, main[r].pins)
    <2>1. CASE \A k \in Managed(r) : was.pins[k] # t
      BY <2>1, <1>1, <1>3, ManagedKinds DEF Merged
    <2>2. CASE \A k \in Managed(r) : was.pins[k] = t
      <3>1. \A k \in Managed(r) : merged.pins[k] = main[r].pins[k]
        BY <2>2, <1>1, <1>3, ManagedKinds DEF Merged
      <3>2. QED
        BY <3>1, <1>5 DEF Verified
    <2>3. CASE (\E k \in Managed(r) : was.pins[k] = t) /\ (\E k \in Managed(r) : was.pins[k] # t)
      <3>1. \A k \in Managed(r) : was.pins[k] \in {t, Absent}
        BY <2>3, ManagedKinds, FleetAssumption DEF Sound, Based, Agree
      <3>2. PICK k \in Managed(r) : was.pins[k] = Absent
        BY <2>3, <3>1
      <3>3. main[r].pins[k] # Absent
        BY <1>5 DEF Verified
      <3>4. main[r].pins[k] = t
        BY <3>2, <3>3, <1>1, <1>2, ManagedKinds, FleetAssumption DEF Clean
      <3>5. \A l \in Managed(r) : main[r].pins[l] = t
        BY <3>3, <3>4, <1>5, ManagedKinds DEF Verified, Agree
      <3>6. QED
        BY <3>5, <1>1, <1>3, ManagedKinds DEF Merged
    <2>4. QED
      BY <2>1, <2>2, <2>3
  <1>6. QED
    BY <1>4, <1>5 DEF Based

\* What the repositories see of a step: a request opened, ended or merged, an edit.
LEMMA SeesPinned ==
    ASSUME NEW r \in Repos, NEW t \in Tags, main \in [Repos -> Trees], main' \in [Repos -> Trees],
           \A s \in Repos \ {r} : main'[s] = main[s],
           \A k \in Managed(r) : main'[r].pins[k] = t
    PROVE  Pinned' = [Pinned EXCEPT ![r] = {t}]
<1>1. "hooks" \in Managed(r)
    BY DEF Managed, Kinds
<1>2. {main'[r].pins[k] : k \in Managed(r)} = {t}
    BY <1>1
<1>3. \A s \in Repos : {main'[s].pins[k] : k \in Managed(s)} =
                       IF s = r THEN {t} ELSE {main[s].pins[k] : k \in Managed(s)}
    BY <1>2
<1>4. QED
    BY <1>3 DEF Pinned

LEMMA SeesSamePins ==
    ASSUME NEW r \in Repos, \A s \in Repos \ {r} : main'[s] = main[s],
           \A k \in Managed(r) : main'[r].pins[k] = main[r].pins[k]
    PROVE  Pinned' = Pinned
<1>1. {main'[r].pins[k] : k \in Managed(r)} = {main[r].pins[k] : k \in Managed(r)}
    OBVIOUS
<1>2. \A s \in Repos : {main'[s].pins[k] : k \in Managed(s)} = {main[s].pins[k] : k \in Managed(s)}
    BY <1>1
<1>3. QED
    BY <1>2 DEF Pinned

LEMMA SeesChoice ==
    ASSUME NEW r \in Repos, \A s \in Repos \ {r} : main'[s] = main[s]
    PROVE  Choice' = [Choice EXCEPT ![r] = main'[r].majors]
<1>1. \A s \in Repos : main'[s].majors = IF s = r THEN main'[r].majors ELSE main[s].majors
    OBVIOUS
<1>2. QED
    BY <1>1 DEF Choice

LEMMA SeesNoReview ==
    ASSUME NEW r \in Repos, NEW t \in Tags, request[<<r, t>>] = "open", request'[<<r, t>>] # "open",
           \A x \in Slots : x # <<r, t>> => request'[x] = request[x]
    PROVE  t \in Review[r] /\ Review' = [Review EXCEPT ![r] = Review[r] \ {t}]
<1>1. \A s \in Repos, u \in Tags : s # r \/ u # t => request'[<<s, u>>] = request[<<s, u>>]
    BY DEF Slots
<1>2. \A s \in Repos : {u \in Tags : request'[<<s, u>>] = "open"} =
                       IF s = r THEN {u \in Tags : request[<<r, u>>] = "open"} \ {t}
                       ELSE {u \in Tags : request[<<s, u>>] = "open"}
    BY <1>1
<1>3. QED
    BY <1>2 DEF Review

LEMMA SeesReview ==
    ASSUME NEW r \in Repos, NEW t \in Tags, request[<<r, t>>] # "open", request'[<<r, t>>] = "open",
           \A x \in Slots : x # <<r, t>> => request'[x] = request[x]
    PROVE  t \notin Review[r] /\ Review' = [Review EXCEPT ![r] = Review[r] \cup {t}]
<1>1. \A s \in Repos, u \in Tags : s # r \/ u # t => request'[<<s, u>>] = request[<<s, u>>]
    BY DEF Slots
<1>2. \A s \in Repos : {u \in Tags : request'[<<s, u>>] = "open"} =
                       IF s = r THEN {u \in Tags : request[<<r, u>>] = "open"} \cup {t}
                       ELSE {u \in Tags : request[<<s, u>>] = "open"}
    BY <1>1
<1>3. QED
    BY <1>2 DEF Review

LEMMA CreateIsProposal ==
    ASSUME TypeOK, NEW p \in Procs, Create(p)
    PROVE  Released!Next \/ UNCHANGED Released!vars
<1>1. main' = main /\ Pinned' = Pinned /\ Choice' = Choice
    BY DEF Create, Pinned, Choice
<1>2. CASE request' = request
    BY <1>1, <1>2 DEF Released!vars, Review
<1>3. CASE request[Slot(p)] # "open" /\ request' = [request EXCEPT ![Slot(p)] = "open"]
  <2>1. repo[p] \in Repos /\ tag[p] \in Tags /\ Slot(p) \in Slots
    BY DEF TypeOK, Slot, Slots
  <2>2. /\ request[<<repo[p], tag[p]>>] # "open" /\ request'[<<repo[p], tag[p]>>] = "open"
        /\ \A x \in Slots : x # <<repo[p], tag[p]>> => request'[x] = request[x]
    BY <1>3, <2>1 DEF Slot, TypeOK
  <2>3. Released!Propose(repo[p], tag[p])
    BY <1>1, <2>1, <2>2, SeesReview DEF Released!Propose
  <2>4. QED
    BY <2>1, <2>3 DEF Released!Next
<1>4. QED
    BY <1>2, <1>3 DEF Create

LEMMA CloseIsWithdrawal ==
    ASSUME TypeOK, NEW r \in Repos, NEW t \in Tags, Close(r, t)
    PROVE  Released!Next
<1>1. main' = main /\ Pinned' = Pinned /\ Choice' = Choice
    BY DEF Close, Pinned, Choice
<1>2. /\ request[<<r, t>>] = "open" /\ request'[<<r, t>>] # "open"
      /\ \A x \in Slots : x # <<r, t>> => request'[x] = request[x]
    BY DEF Close, TypeOK, Slots
<1>3. Released!Withdraw(r, t)
    BY <1>1, <1>2, SeesNoReview DEF Released!Withdraw
<1>4. QED
    BY <1>3 DEF Released!Next

LEMMA MergeIsAcceptance ==
    ASSUME IInv, TypeOK', NEW r \in Repos, NEW t \in Tags, Merge(r, t)
    PROVE  Released!Next
<1>1. fork[<<r, t>>] # NoBranch /\ fork[<<r, t>>] \in Trees
    BY DEF Merge, IInv, TypeOK, Slots
<1>2. main'[r] = MergedTree(r, t) /\ \A s \in Repos \ {r} : main'[s] = main[s]
    BY DEF Merge, IInv, TypeOK
<1>3. /\ request[<<r, t>>] = "open" /\ request'[<<r, t>>] # "open"
      /\ \A x \in Slots : x # <<r, t>> => request'[x] = request[x]
    BY DEF Merge, IInv, TypeOK, Slots
<1>4. \/ \A k \in Managed(r) : main'[r].pins[k] = t
      \/ \A k \in Managed(r) : main'[r].pins[k] = main[r].pins[k] /\ main[r].pins[k] # Absent
    BY <1>1, <1>2, MergePinsItsTag DEF Merge, IInv, TypeOK
<1>5. \/ Pinned' = [Pinned EXCEPT ![r] = {t}]
      \/ Absent \notin Pinned[r] /\ Pinned' = Pinned
  <2>1. CASE \A k \in Managed(r) : main'[r].pins[k] = t
    BY <1>2, <2>1, SeesPinned DEF IInv, TypeOK
  <2>2. CASE \A k \in Managed(r) : main'[r].pins[k] = main[r].pins[k] /\ main[r].pins[k] # Absent
    <3>1. Absent \notin Pinned[r]
      BY <2>2 DEF Pinned
    <3>2. QED
      BY <1>2, <2>2, <3>1, SeesSamePins
  <2>3. QED
    BY <1>4, <2>1, <2>2
<1>6. t \in Review[r] /\ Review' = [Review EXCEPT ![r] = Review[r] \ {t}]
    BY <1>3, SeesNoReview
<1>7. Choice' = [Choice EXCEPT ![r] = main'[r].majors] /\ Choice[r] = main[r].majors
    BY <1>2, SeesChoice DEF Choice
<1>8. /\ main[r].majors \in Bare => main'[r].majors = main[r].majors
      /\ r \in OptedOut => main'[r].majors = "none"
      /\ r \notin OptedOut => main'[r].majors # "none"
      /\ main'[r].majors \in Bare \cup {main[r].majors}
    BY <1>1, <1>2, MergedMajors DEF Merge, IInv, TypeOK
<1>9. main'[r].majors \in Released!Left(r)
    BY <1>7, <1>8 DEF Released!Left, Released!Bare, Bare
<1>10. Released!Accept(r, t)
    BY <1>5, <1>6, <1>7, <1>9 DEF Released!Accept
<1>11. QED
    BY <1>10 DEF Released!Next

LEMMA FlipIsChoice ==
    ASSUME TypeOK, NEW r \in Repos, FlipMajors(r)
    PROVE  Released!Next
<1>1. PICK c \in Choices \ {"none"} :
         main' = [main EXCEPT ![r] = [pins |-> main[r].pins, majors |-> c]]
    BY DEF FlipMajors
<1>2. /\ main'[r] = [pins |-> main[r].pins, majors |-> c]
      /\ \A s \in Repos \ {r} : main'[s] = main[s]
      /\ request' = request /\ main[r].majors # "none"
    BY <1>1 DEF FlipMajors, TypeOK
<1>3. Pinned' = Pinned /\ Review' = Review
    BY <1>2, SeesSamePins DEF Review
<1>4. Choice' = [Choice EXCEPT ![r] = main'[r].majors] /\ Choice[r] = main[r].majors
    BY <1>2, SeesChoice DEF Choice
<1>5. main'[r].majors \in Released!Choices \ {"none"}
    BY <1>2 DEF Choices, Bare, Released!Choices, Released!Bare
<1>6. Released!Choose(r)
    BY <1>2, <1>3, <1>4, <1>5 DEF Released!Choose
<1>7. QED
    BY <1>6 DEF Released!Next

LEMMA StartsReleased == Init => Released!Init
<1> SUFFICES ASSUME Init PROVE Released!Init
    OBVIOUS
<1>1. \A r \in Repos : main[r] \in Trees /\ Sound(r, main[r])
    BY DEF Init, Onboarding, Sound
<1> DEFINE Starts == {{Absent}} \cup {{t} : t \in Tags} \cup {{t, Absent} : t \in Tags}
<1>2. ASSUME NEW r \in Repos PROVE {main[r].pins[k] : k \in Managed(r)} \in Starts
  <2> DEFINE P == {main[r].pins[k] : k \in Managed(r)}
  <2>1. main[r].pins["hooks"] \in P
    BY DEF Managed, Kinds
  <2>2. CASE \A k \in Managed(r) : main[r].pins[k] = Absent
    <3>1. P = {Absent}
      BY <2>1, <2>2
    <3>2. QED
      BY <3>1
  <2>3. CASE \E k \in Managed(r) : main[r].pins[k] # Absent
    <3>1. PICK k \in Managed(r) : main[r].pins[k] # Absent
      BY <2>3
    <3>2. main[r].pins[k] \in Tags
      BY <1>1, <3>1, ManagedKinds DEF Trees
    <3>3. \A l \in Managed(r) : main[r].pins[l] \in {main[r].pins[k], Absent}
      BY <1>1, <3>1, ManagedKinds DEF Sound, Agree
    <3>4. P \subseteq {main[r].pins[k], Absent} /\ main[r].pins[k] \in P
      BY <3>1, <3>3
    <3>5. P = {main[r].pins[k]} \/ P = {main[r].pins[k], Absent}
      BY <3>4
    <3>6. QED
      BY <3>2, <3>5
  <2>4. QED
    BY <2>2, <2>3
<1>3. Pinned \in [Repos -> Starts]
    BY <1>2 DEF Pinned
<1>4. Choice \in [Repos -> Released!Choices]
    BY <1>1 DEF Choice, Trees, Choices, Bare, Released!Choices, Released!Bare
<1>5. \A r \in Repos, t \in Tags : request[<<r, t>>] # "open"
    BY DEF Init, Slots
<1>6. Review = [r \in Repos |-> {}]
    BY <1>5 DEF Review
<1>7. QED
    BY <1>3, <1>4, <1>6 DEF Released!Init

\* For any fleet and any number of concurrent, failing and repeated runs: a repository
\* moves only by the request of a release, wholly to that very release, and an
\* auto_merge_majors the bump can read stays until a person changes it.
THEOREM FleetBringsReleases == Spec => BringsReleases
<1>1. IInv /\ [Next]_vars => [Released!Next]_(Released!vars)
  <2> SUFFICES ASSUME IInv, [Next]_vars
               PROVE  Released!Next \/ UNCHANGED Released!vars
    OBVIOUS
  <2>1. TypeOK /\ TypeOK'
    BY NextType DEF IInv
  <2>2. ASSUME main' = main, request' = request PROVE UNCHANGED Released!vars
    BY <2>2 DEF Released!vars, Pinned, Choice, Review
  <2>3. ASSUME NEW p \in Procs, StartRun(p) \/ Clone(p) \/ Plan(p) \/ Push(p) \/ StepFails(p) \/ End(p)
        PROVE  UNCHANGED Released!vars
    BY <2>2, <2>3 DEF StartRun, Clone, Plan, Push, StepFails, End
  <2>4. ASSUME NEW r \in Repos, NEW t \in Tags, DeleteBranch(r, t) PROVE UNCHANGED Released!vars
    BY <2>2, <2>4 DEF DeleteBranch
  <2>5. CASE UNCHANGED vars
    BY <2>2, <2>5 DEF vars
  <2>6. QED
    BY <2>1, <2>3, <2>4, <2>5, CreateIsProposal, CloseIsWithdrawal, MergeIsAcceptance,
       FlipIsChoice DEF Next
<1>2. QED
    BY <1>1, StartsReleased, IInvAlways, PTL DEF Spec, BringsReleases, Released!Spec
=============================================================================
