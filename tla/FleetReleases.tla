--------------------------- MODULE FleetReleases ---------------------------
(* What propagate.py promises a fleet: a repository moves only to a release *)
(* that was put under review, by taking that very proposal in, and then all *)
(* its managed files pin it; an auto_merge_majors written as a bare true or *)
(* false is the repository's own.                                           *)
CONSTANTS Repos, OptedOut, Tags, Absent

VARIABLES pinned,       \* what a repository's managed files pin: a release, Absent
          choice,       \* the auto_merge_majors line of its caller
          review        \* the releases proposed to it

vars == <<pinned, choice, review>>

Bare == {"on", "off"}
Choices == {"none", "unread"} \cup Bare

Init ==
    /\ pinned \in [Repos -> {{Absent}} \cup {{t} : t \in Tags} \cup {{t, Absent} : t \in Tags}]
    /\ choice \in [Repos -> Choices]
    /\ review = [r \in Repos |-> {}]

Propose(r, t) ==
    /\ t \notin review[r]
    /\ review' = [review EXCEPT ![r] = review[r] \cup {t}]
    /\ UNCHANGED <<pinned, choice>>

Withdraw(r, t) ==
    /\ t \in review[r]
    /\ review' = [review EXCEPT ![r] = review[r] \ {t}]
    /\ UNCHANGED <<pinned, choice>>

\* The choices a proposal may leave: the first one brings fleet.json's, and so may
\* one that rewrites a line it could not read.
Left(r) ==
    IF choice[r] \in Bare THEN {choice[r]}
    ELSE IF r \in OptedOut THEN {"none"}
    ELSE (Bare \cup {choice[r]}) \ {"none"}

\* A proposal that only rewrites the line leaves the pins a later release brought.
Accept(r, t) ==
    /\ t \in review[r]
    /\ review' = [review EXCEPT ![r] = review[r] \ {t}]
    /\ \/ pinned' = [pinned EXCEPT ![r] = {t}]
       \/ Absent \notin pinned[r] /\ UNCHANGED pinned
    /\ \E c \in Left(r) : choice' = [choice EXCEPT ![r] = c]

\* A person edits it.
Choose(r) ==
    /\ choice[r] # "none"
    /\ \E c \in Choices \ {"none"} : choice' = [choice EXCEPT ![r] = c]
    /\ UNCHANGED <<pinned, review>>

Next == \E r \in Repos : Choose(r) \/ \E t \in Tags : Propose(r, t) \/ Withdraw(r, t) \/ Accept(r, t)

Spec == Init /\ [][Next]_vars
=============================================================================
