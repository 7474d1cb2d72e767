---------------------------- MODULE ChangedFiles ----------------------------
(* changed.py: from an event to the list of changed files that scopes the   *)
(* scan, or ALL.  The list of a pull request is read page by page from the  *)
(* API while the pull request may be pushed to; it travels through a file   *)
(* (write_list, read_list) to the job that scans.                           *)
EXTENDS Naturals, FiniteSets, Sequences

CONSTANTS
    Histories,      \* the changes looked at: sequences of names, as the API orders them
    Pushes,         \* pairs: a list, and what a push makes of it; any pairs at all
    PerPage,        \* files of a page (100)
    MaxPages,       \* pages read at most (30); the API lists no more files than these hold
    Odd,            \* names git quotes (not ASCII)
    Padded,         \* names that begin or end with a blank
    Deletions       \* names that, in a change, are deleted

InSeq(list) == {list[i] : i \in DOMAIN list}
Mangled == "mangled"    \* a path that names no file

ASSUME ChangedFilesAssumption ==
    /\ PerPage \in Nat \ {0} /\ MaxPages \in Nat \ {0}
    /\ \A list \in Histories : list \in Seq(InSeq(list)) /\ Mangled \notin InSeq(list)
    /\ \A push \in Pushes : push[2] \in Seq(InSeq(push[2]))

VARIABLES
    event,          \* what GitHub says of the run
    env,            \* THYN_SEC_CHANGED_FILES: "unset", "ALL", "list", "missing"
    diff,           \* what git can do: "history", "shallow"
    change,         \* the files of the event's commits
    listed,         \* what the pull request lists while the list is read; else the change
    pc, page,
    files,          \* the names collected
    scope,          \* "none", "ALL" or "list"
    slipped         \* history: names a push took from the pages still to be read

derivation == <<event, env, diff, change, listed, pc, page, files, scope, slipped>>

\* The fields of the payload and of the environment that are read.  "number"
\* stands for a positive pull request number, a token and a repository: without
\* any of them the API is not asked.  "pushed" is the ref that was pushed (a tag
\* may have the default branch's name), "tells" the fields that say so.
Refs == [type : {"branch", "tag"}, name : {"default", "other"}]
NoRef == [type |-> "none", name |-> "none"]
RefFields == {"GITHUB_REF", "ref", "GITHUB_REF_NAME", "GITHUB_REF_TYPE"}
Events ==
    [kind : {"pull_request", "merge_group"}, number : {"known", "unknown"},
     base : {"sha", "missing", "other"}, pushed : {NoRef}, tells : {{}}, default : {"named"},
     before : {"sha"}]
    \cup
    [kind : {"push"}, number : {"unknown"}, base : {"sha"}, pushed : Refs,
     tells : SUBSET RefFields, default : {"named", "unnamed"}, before : {"sha", "zero", "other"}]
    \cup
    [kind : {"schedule", "broken", "none"}, number : {"unknown"}, base : {"missing"},
     pushed : {NoRef}, tells : {{}}, default : {"unnamed"}, before : {"zero"}]

PushedLists == {push[2] : push \in Pushes}
PushedNames == UNION {InSeq(list) : list \in PushedLists}
Names == InSeq(change) \cup PushedNames

\* What the derivation keeps: the pages asked for stay below the limit.
DeriveTypeOK ==
    /\ event \in Events /\ env \in {"unset", "ALL", "list", "missing"}
    /\ diff \in {"history", "shallow"}
    /\ change \in Histories /\ listed \in {change} \cup PushedLists
    /\ pc \in {"env", "event", "page", "diff", "write", "read", "done"}
    /\ page \in 0 .. MaxPages - 1
    /\ files \subseteq Names \cup {Mangled} /\ slipped \subseteq Names
    /\ scope \in {"none", "ALL", "list"}

DeriveInit ==
    /\ event \in Events /\ env \in {"unset", "ALL", "list", "missing"}
    /\ diff \in {"history", "shallow"}
    /\ change \in Histories /\ listed = change
    /\ pc = "env" /\ page = 0 /\ files = {} /\ scope = "none" /\ slipped = {}

Widen == scope' = "ALL" /\ pc' = "write" /\ UNCHANGED files
Same == UNCHANGED <<event, env, diff, change, listed>>
LeavesPages == listed' = change /\ UNCHANGED <<event, env, diff, change>>
\* _lines: a line is stripped, whatever the name was.
Stripped(n) == IF n \in Padded THEN Mangled ELSE n
-----------------------------------------------------------------------------
\* from_env: the caller's list, verbatim, comes before any event.
FromEnv ==
    /\ pc = "env"
    /\ \/ env = "unset" /\ pc' = "event" /\ UNCHANGED <<files, scope>>
       \/ env \in {"ALL", "missing"} /\ Widen
       \/ /\ env = "list"
          /\ files' = {Stripped(n) : n \in InSeq(change)} /\ scope' = "list" /\ pc' = "write"
    /\ UNCHANGED <<page, slipped>> /\ Same

\* _pushed_default_branch: the full ref, of the environment or the payload; where
\* neither is there, the short name, unless its type is known to be a tag's.
DefaultRef == [type |-> "branch", name |-> "default"]
PushedDefaultByEnvironment ==
    /\ event.default = "named"
    /\ \/ "GITHUB_REF" \in event.tells /\ event.pushed = DefaultRef
       \/ /\ "GITHUB_REF" \notin event.tells
          /\ "GITHUB_REF_NAME" \in event.tells /\ event.pushed.name = "default"
          /\ ~("GITHUB_REF_TYPE" \in event.tells /\ event.pushed.type = "tag")
FullRefTold == event.tells \cap {"GITHUB_REF", "ref"} # {}
PushedDefault ==
    /\ event.default = "named"
    /\ \/ FullRefTold /\ event.pushed = DefaultRef
       \/ /\ ~FullRefTold
          /\ "GITHUB_REF_NAME" \in event.tells /\ event.pushed.name = "default"
          /\ ~("GITHUB_REF_TYPE" \in event.tells /\ event.pushed.type = "tag")

\* from_github_event and _pull_scope: which source answers first.
FromEvent ==
    /\ pc = "event"
    /\ \/ event.kind \in {"schedule", "broken", "none"} /\ Widen
       \/ event.kind = "push" /\ PushedDefault /\ Widen
       \/ event.kind = "push" /\ ~PushedDefault /\ event.before = "zero" /\ Widen
       \/ /\ event.kind = "push" /\ ~PushedDefault /\ event.before # "zero"
          /\ pc' = "diff" /\ UNCHANGED <<files, scope>>
       \/ /\ event.kind \in {"pull_request", "merge_group"}
          /\ pc' = IF event.number = "known" THEN "page" ELSE "diff"
          /\ UNCHANGED <<files, scope>>
    /\ UNCHANGED <<page, slipped>> /\ Same

\* The pull request is pushed to, any number of times, before and while its list
\* is read: files are added, taken out, and so moved to other pages.
Unread(list) == {list[i] : i \in {k \in DOMAIN list : k > page * PerPage}}
Push ==
    /\ pc = "page"
    /\ \E push \in Pushes : push[1] = listed /\ listed' = push[2]
    /\ slipped' = slipped \cup (Unread(listed) \ (files \cup Unread(listed')))
    /\ UNCHANGED <<event, env, diff, change, pc, page, files, scope>>

\* _api_pr_files: one page; the API never lists more than PerPage * MaxPages.
Batch == {i \in DOMAIN listed : i > page * PerPage /\ i <= (page + 1) * PerPage
                                /\ i <= PerPage * MaxPages}
LastPage == Cardinality(Batch) < PerPage
NextPage == page + 1
TooManyOffByOne == NextPage > MaxPages
TooMany == NextPage >= MaxPages
ReadPage ==
    /\ pc = "page"
    /\ \/ /\ LastPage
          /\ files' = files \cup {listed[i] : i \in Batch}
          /\ scope' = "list" /\ pc' = "write" /\ UNCHANGED <<page, slipped>> /\ LeavesPages
       \/ /\ ~LastPage /\ ~TooMany
          /\ files' = files \cup {listed[i] : i \in Batch}
          /\ page' = NextPage /\ UNCHANGED <<scope, pc, slipped>> /\ Same
       \/ /\ ~LastPage /\ TooMany         \* more than the API lists: ask git
          /\ files' = {} /\ slipped' = {} /\ pc' = "diff"
          /\ UNCHANGED <<scope, page>> /\ LeavesPages

\* A page that fails, or is no list, discards what was read before.
FailPageKeepingFiles ==
    /\ pc = "page"
    /\ scope' = "list" /\ pc' = "write" /\ UNCHANGED <<files, page, slipped>>
    /\ LeavesPages
FailPage ==
    /\ pc = "page"
    /\ files' = {} /\ slipped' = {} /\ pc' = "diff"
    /\ UNCHANGED <<page, scope>> /\ LeavesPages

\* _git_diff base...head: only full SHAs, only with the history; no deleted
\* files; a name that is not ASCII is quoted.
ShaPair == IF event.kind = "push" THEN event.before = "sha" ELSE event.base = "sha"
Quoted(n) == IF n \in Odd THEN Mangled ELSE n
GitDiff ==
    /\ pc = "diff"
    /\ \/ /\ ShaPair /\ diff = "history"
          /\ files' = {Quoted(n) : n \in InSeq(change) \ Deletions}
          /\ scope' = "list" /\ pc' = "write"
       \/ ~(ShaPair /\ diff = "history") /\ Widen
    /\ UNCHANGED <<page, slipped>> /\ Same

\* write_list: one name a line.  read_list: lines are stripped.
WriteList ==
    /\ pc = "write" /\ pc' = "read"
    /\ UNCHANGED <<page, files, scope, slipped>> /\ Same
ReadList ==
    /\ pc = "read" /\ pc' = "done"
    /\ files' = {Stripped(n) : n \in files}
    /\ UNCHANGED <<page, scope, slipped>> /\ Same

Work == FromEnv \/ FromEvent \/ ReadPage \/ FailPage \/ GitDiff \/ WriteList \/ ReadList
DeriveNext == Work \/ Push

DeriveSpec == DeriveInit /\ [][DeriveNext]_derivation
-----------------------------------------------------------------------------
\* opengrep_targets: of the names, those that are files.
ListedFiles == files \ (Deletions \cup {Mangled})

\* Fail closed: whatever the payload lacks, whichever page fails, however many
\* files there are and however often the pull request is pushed to meanwhile, the
\* scan reads every file of the change that exists, or everything.  Only a name git
\* quotes, or one with blanks at an end, may be lost to a path that names no file,
\* and a file that a push takes from the pages still to be read, off the list or
\* onto a page already read, may slip through.
Lost(n) == n \in Odd \cup Padded /\ Mangled \in files
CoversTheChange ==
    pc = "done" =>
        \/ scope = "ALL"
        \/ \A n \in InSeq(change) \ Deletions : n \in ListedFiles \/ Lost(n) \/ n \in slipped
=============================================================================
