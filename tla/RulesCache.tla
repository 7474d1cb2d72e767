---------------------------- MODULE RulesCache ----------------------------
(* fetch.rules_path and the scan that follows it (hooks.opengrep_configs,   *)
(* hooks.opengrep).  The rules bundle is a directory, so publishing it takes *)
(* several steps that other processes and a crash can fall between: remove  *)
(* what is there (entry by entry, then the directory), rename the extracted *)
(* bundle into place, write the `.complete` marker.                         *)
EXTENDS Naturals, FiniteSets

CONSTANTS Procs,        \* the thyn-sec processes sharing the cache
          Offline,      \* those run with THYN_SEC_OFFLINE=1
          Packs,        \* the rule packs of the bundle
          Marker,       \* the file `.complete`
          Dirs, NoDir,  \* directories (inodes); none
          Attempts,     \* download_verified's attempts (3 in the code)
          MaxStarts,    \* bound on how many runs are started in all
          Sharing       \* "alone": one process at a time; "together": any number

ASSUME RulesCacheAssumption ==
    /\ Offline \subseteq Procs
    /\ Marker \notin Packs /\ Packs # {}
    /\ NoDir \notin Dirs
    /\ Attempts \in Nat \ {0} /\ MaxStarts \in Nat
    /\ Sharing \in {"alone", "together"}

VARIABLES target,       \* the directory at rules/<bundle>-<commit12>, or NoDir
          content,      \* the entries of every directory
          staging,      \* the directory a process extracted the bundle into
          removing,     \* the directory a process' rmtree has opened
          listing,      \* the entries that rmtree has still to unlink
          pc, tries,
          loaded,       \* the packs a scan was given
          starts

vars == <<target, content, staging, removing, listing, pc, tries, loaded, starts>>

Files == Packs \cup {Marker}
Places == {"idle", "lookup", "download", "exists", "list", "unlink",
           "replace", "mark", "ready", "done", "refused", "broken"}

\* The directories hold packs of the bundle, and every process is at a step it
\* can be at with no more fetches than the attempts.
TypeOK ==
    /\ target \in Dirs \cup {NoDir}
    /\ content \in [Dirs -> SUBSET Files]
    /\ staging \in [Procs -> Dirs \cup {NoDir}]
    /\ removing \in [Procs -> Dirs \cup {NoDir}]
    /\ listing \in [Procs -> SUBSET Files]
    /\ pc \in [Procs -> Places]
    /\ tries \in [Procs -> 0 .. Attempts]
    /\ loaded \in [Procs -> SUBSET Packs]
    /\ starts \in Nat

Init ==
    /\ target = NoDir
    /\ content = [d \in Dirs |-> {}]
    /\ staging = [p \in Procs |-> NoDir]
    /\ removing = [p \in Procs |-> NoDir]
    /\ listing = [p \in Procs |-> {}]
    /\ pc = [p \in Procs |-> "idle"]
    /\ tries = [p \in Procs |-> 0]
    /\ loaded = [p \in Procs |-> {}]
    /\ starts = 0

Goto(p, place) == pc' = [pc EXCEPT ![p] = place]
There == target # NoDir
Marked == There /\ Marker \in content[target]

Begin(p) ==
    /\ pc[p] = "idle"
    /\ starts < MaxStarts
    /\ Sharing = "alone" => \A q \in Procs : pc[q] = "idle"
    /\ starts' = starts + 1
    /\ Goto(p, "lookup")
    /\ UNCHANGED <<target, content, staging, removing, listing, tries, loaded>>

\* The marker, not the directory, says that the bundle is there.
LookupDirectory(p) ==
    /\ pc[p] = "lookup"
    /\ Goto(p, IF There THEN "ready" ELSE IF p \in Offline THEN "refused" ELSE "download")
    /\ tries' = [tries EXCEPT ![p] = 0]
    /\ UNCHANGED <<target, content, staging, removing, listing, loaded, starts>>
Lookup(p) ==
    /\ pc[p] = "lookup"
    /\ Goto(p, IF Marked THEN "ready" ELSE IF p \in Offline THEN "refused" ELSE "download")
    /\ tries' = [tries EXCEPT ![p] = 0]
    /\ UNCHANGED <<target, content, staging, removing, listing, loaded, starts>>

NetworkErrorOffByOne(p) ==
    /\ pc[p] = "download"
    /\ tries' = [tries EXCEPT ![p] = tries[p] + 1]
    /\ Goto(p, IF tries[p] < Attempts THEN "download" ELSE "refused")
    /\ UNCHANGED <<target, content, staging, removing, listing, loaded, starts>>
NetworkErrorStartingOver(p) ==
    /\ pc[p] = "download"
    /\ Goto(p, "lookup")
    /\ UNCHANGED <<target, content, staging, removing, listing, tries, loaded, starts>>
NetworkError(p) ==
    /\ pc[p] = "download"
    /\ tries' = [tries EXCEPT ![p] = tries[p] + 1]
    /\ Goto(p, IF tries[p] + 1 < Attempts THEN "download" ELSE "refused")
    /\ UNCHANGED <<target, content, staging, removing, listing, loaded, starts>>

\* The digest is not the lock's: no retry.
WrongDigest(p) ==
    /\ pc[p] = "download"
    /\ Goto(p, "refused")
    /\ UNCHANGED <<target, content, staging, removing, listing, tries, loaded, starts>>

Unused(d) == d # target /\ \A q \in Procs : staging[q] # d /\ removing[q] # d

\* The tarball is verified and extracted into a fresh directory; nobody else
\* looks there, so the steps in between are not told apart.
ExtractSkipping(p) ==
    /\ pc[p] = "download"
    /\ \E d \in Dirs, read \in SUBSET Packs :
          /\ Unused(d)
          /\ content' = [content EXCEPT ![d] = read]
          /\ staging' = [staging EXCEPT ![p] = d]
    /\ Goto(p, "exists")
    /\ UNCHANGED <<target, removing, listing, tries, loaded, starts>>
Extract(p) ==
    /\ pc[p] = "download"
    /\ \E d \in Dirs :
          /\ Unused(d)
          /\ content' = [content EXCEPT ![d] = Packs]
          /\ staging' = [staging EXCEPT ![p] = d]
    /\ Goto(p, "exists")
    /\ UNCHANGED <<target, removing, listing, tries, loaded, starts>>

\* target.exists()
ExistsNever(p) ==
    /\ pc[p] = "exists"
    /\ Goto(p, "replace")
    /\ UNCHANGED <<target, content, staging, removing, listing, tries, loaded, starts>>
Exists(p) ==
    /\ pc[p] = "exists"
    /\ Goto(p, IF There THEN "list" ELSE "replace")
    /\ UNCHANGED <<target, content, staging, removing, listing, tries, loaded, starts>>

\* shutil.rmtree opens the directory and lists it, ...
List(p) ==
    /\ pc[p] = "list"
    /\ \/ /\ There
          /\ removing' = [removing EXCEPT ![p] = target]
          /\ listing' = [listing EXCEPT ![p] = content[target]]
          /\ Goto(p, "unlink")
       \/ ~There /\ Goto(p, "broken") /\ UNCHANGED <<removing, listing>>
    /\ UNCHANGED <<target, content, staging, tries, loaded, starts>>

\* ... unlinks what it listed, in any order, through the open directory
\* (an entry gone meanwhile is an error up to Python 3.12, ignored after), ...
Unlink(p) ==
    /\ pc[p] = "unlink"
    /\ \E e \in listing[p] :
          /\ listing' = [listing EXCEPT ![p] = listing[p] \ {e}]
          /\ content' = [content EXCEPT ![removing[p]] = content[removing[p]] \ {e}]
          /\ \/ UNCHANGED pc
             \/ e \notin content[removing[p]] /\ Goto(p, "broken")
    /\ UNCHANGED <<target, staging, removing, tries, loaded, starts>>

\* ... and removes the directory, by its path.
Rmdir(p) ==
    /\ pc[p] = "unlink" /\ listing[p] = {}
    /\ \/ There /\ content[target] = {} /\ target' = NoDir /\ Goto(p, "replace")
       \/ There /\ content[target] # {} /\ Goto(p, "broken") /\ UNCHANGED target
       \/ ~There /\ (Goto(p, "broken") \/ Goto(p, "replace")) /\ UNCHANGED target
    /\ removing' = [removing EXCEPT ![p] = NoDir]
    /\ UNCHANGED <<content, staging, listing, tries, loaded, starts>>

\* rename(2) replaces nothing or an empty directory.
Replaceable == There => content[target] = {}
Replace(p) ==
    /\ pc[p] = "replace"
    /\ \/ /\ Replaceable
          /\ target' = staging[p]
          /\ staging' = [staging EXCEPT ![p] = NoDir]
          /\ Goto(p, "mark")
       \/ ~Replaceable /\ Goto(p, "broken") /\ UNCHANGED <<target, staging>>
    /\ UNCHANGED <<content, removing, listing, tries, loaded, starts>>

\* marker.write_text, by path: into whatever directory is there now.
Mark(p) ==
    /\ pc[p] = "mark"
    /\ \/ /\ There
          /\ content' = [content EXCEPT ![target] = content[target] \cup {Marker}]
          /\ Goto(p, "ready")
       \/ ~There /\ Goto(p, "broken") /\ UNCHANGED content
    /\ UNCHANGED <<target, staging, removing, listing, tries, loaded, starts>>

\* A pack that is no directory is skipped with a warning; no pack at all is
\* a ScanError.
Present == IF There THEN content[target] \cap Packs ELSE {}
Scan(p) ==
    /\ pc[p] = "ready"
    /\ loaded' = [loaded EXCEPT ![p] = Present]
    /\ Goto(p, IF Present = {} THEN "broken" ELSE "done")
    /\ UNCHANGED <<target, content, staging, removing, listing, tries, starts>>

\* The process ends, is killed, or meets an error of the disk.
Exit(p) ==
    /\ pc[p] # "idle"
    /\ Goto(p, "idle")
    /\ staging' = [staging EXCEPT ![p] = NoDir]
    /\ removing' = [removing EXCEPT ![p] = NoDir]
    /\ listing' = [listing EXCEPT ![p] = {}]
    /\ loaded' = [loaded EXCEPT ![p] = {}]
    /\ UNCHANGED <<target, content, tries, starts>>

Work(p) ==
    \/ Lookup(p)
    \/ NetworkError(p)
    \/ WrongDigest(p)
    \/ Extract(p)
    \/ Exists(p)
    \/ List(p)
    \/ Unlink(p)
    \/ Rmdir(p)
    \/ Replace(p)
    \/ Mark(p)
    \/ Scan(p)

Next == \E p \in Procs : Begin(p) \/ Work(p) \/ Exit(p)

Spec == Init /\ [][Next]_vars
FairSpec == Spec /\ \A p \in Procs : WF_vars(Work(p))
-----------------------------------------------------------------------------
\* The marker is the only thing a later run looks at: where it is, every pack
\* of the bundle is, after any crash.
CompleteMeansWhole == Marked => Packs \subseteq content[target]

\* The same once every process is gone: no order of processes leaves a bundle
\* that all later runs take for complete and that is not.
RestingCacheIsWhole == (\A p \in Procs : pc[p] = "idle") => CompleteMeansWhole

\* No scan runs with some of the packs: the missing ones would be skipped with
\* a warning and the gate would judge fewer findings.
ScansTheWholeBundle == \A p \in Procs : pc[p] = "done" => loaded[p] = Packs

\* No crash leaves a cache that a later run trips over: what a killed run left
\* is removed, and a run fails for the network, the digest or
\* THYN_SEC_OFFLINE only, never for the state it found the cache in.
NoRunBreaksOnTheCache == \A p \in Procs : pc[p] # "broken"

Ended == {"done", "refused", "broken"}

\* Every run ends, whatever other processes do.
Answered == \A p \in Procs : pc[p] = "lookup" ~> pc[p] \in Ended \cup {"idle"}

\* With one process at a time, rules_path implements the abstract cache.
Stored == IF Marked THEN "whole" ELSE "absent"
Told == [p \in Procs |->
           IF pc[p] = "idle" THEN "none"
           ELSE IF pc[p] \in {"refused", "broken"} THEN "refused"
           ELSE IF pc[p] \in {"ready", "done"} THEN "usable" ELSE "asked"]
Promise == INSTANCE VerifiedCache WITH Clients <- Procs, entry <- Stored, answer <- Told
KeepsPromise == Promise!Spec
=============================================================================
