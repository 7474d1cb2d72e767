----------------------------- MODULE ToolCache -----------------------------
(* fetch.tool_path: several thyn-sec processes (hooks of repositories that  *)
(* share ~/.cache/thyn-sec, a prefetch, CI steps) want the same pinned      *)
(* scanner binary at once.  A process works in a temporary directory of its *)
(* own and publishes with one rename; it may be killed, or meet an error of *)
(* the disk, between any two steps.                                         *)
EXTENDS Naturals, FiniteSets

CONSTANTS Procs,        \* the processes
          Offline,      \* those run with THYN_SEC_OFFLINE=1
          Attempts,     \* download_verified's attempts (3 in the code)
          MaxStarts     \* bound on how many runs are started in all

ASSUME ToolCacheAssumption ==
    Offline \subseteq Procs /\ Attempts \in Nat \ {0} /\ MaxStarts \in Nat

VARIABLES target,       \* <cache>/<tool>/<version>/<tool>
          tmp,          \* the file a process is preparing in its own directory
          pc,           \* where each process is in tool_path
          tries,        \* download attempts it has begun
          used,         \* what the binary it ran was
          starts        \* runs begun so far

vars == <<target, tmp, pc, tries, used, starts>>

\* "asset" is the download whose digest is the lock's, "other" is any other
\* download, "partial" an extraction under way, "binary" the extracted member
\* before chmod.
Files == {"absent", "asset", "other", "partial", "binary", "executable"}
Places == {"idle", "lookup", "download", "verify", "extract", "copying", "chmod",
           "replace", "ready", "done", "refused"}

\* Every process is at a step it can be at, with no more fetches than the
\* attempts, and the cached file is one a download can leave.
TypeOK ==
    /\ target \in Files
    /\ tmp \in [Procs -> Files]
    /\ pc \in [Procs -> Places]
    /\ tries \in [Procs -> 0 .. Attempts]
    /\ used \in [Procs -> Files]
    /\ starts \in Nat

Init ==
    /\ target = "absent"
    /\ tmp = [p \in Procs |-> "absent"]
    /\ pc = [p \in Procs |-> "idle"]
    /\ tries = [p \in Procs |-> 0]
    /\ used = [p \in Procs |-> "absent"]
    /\ starts = 0

Begin(p) ==
    /\ pc[p] = "idle"
    /\ starts < MaxStarts
    /\ starts' = starts + 1
    /\ pc' = [pc EXCEPT ![p] = "lookup"]
    /\ UNCHANGED <<target, tmp, tries, used>>

Lookup(p) ==
    /\ pc[p] = "lookup"
    /\ pc' = [pc EXCEPT ![p] = IF target # "absent" THEN "ready"
                               ELSE IF p \in Offline THEN "refused" ELSE "download"]
    /\ tries' = [tries EXCEPT ![p] = 0]
    /\ UNCHANGED <<target, tmp, used, starts>>

\* One attempt: the body arrives whole (as the lock knows it, or not).
Receive(p) ==
    /\ pc[p] = "download"
    /\ \E body \in {"asset", "other"} : tmp' = [tmp EXCEPT ![p] = body]
    /\ pc' = [pc EXCEPT ![p] = "verify"]
    /\ UNCHANGED <<target, tries, used, starts>>

\* One attempt ends in URLError, OSError or a timeout.
NetworkErrorOffByOne(p) ==
    /\ pc[p] = "download"
    /\ tries' = [tries EXCEPT ![p] = tries[p] + 1]
    /\ pc' = [pc EXCEPT ![p] = IF tries[p] < Attempts THEN "download" ELSE "refused"]
    /\ UNCHANGED <<target, tmp, used, starts>>
NetworkErrorStartingOver(p) ==
    /\ pc[p] = "download"
    /\ pc' = [pc EXCEPT ![p] = "lookup"]
    /\ UNCHANGED <<target, tmp, tries, used, starts>>
NetworkError(p) ==
    /\ pc[p] = "download"
    /\ tries' = [tries EXCEPT ![p] = tries[p] + 1]
    /\ pc' = [pc EXCEPT ![p] = IF tries[p] + 1 < Attempts THEN "download" ELSE "refused"]
    /\ UNCHANGED <<target, tmp, used, starts>>

\* A digest that is not the lock's ends the run at once, without a retry.
VerifyUnchecked(p) ==
    /\ pc[p] = "verify"
    /\ pc' = [pc EXCEPT ![p] = "extract"]
    /\ UNCHANGED <<target, tmp, tries, used, starts>>
Verify(p) ==
    /\ pc[p] = "verify"
    /\ pc' = [pc EXCEPT ![p] = IF tmp[p] = "asset" THEN "extract" ELSE "refused"]
    /\ UNCHANGED <<target, tmp, tries, used, starts>>

Member(file) == IF file \in {"asset", "partial"} THEN "binary" ELSE file
Partial(file) == IF file = "asset" THEN "partial" ELSE file

\* A tar.gz asset has its member copied out; any other asset is the binary.
ExtractMember(p) ==
    /\ pc[p] = "extract"
    /\ \/ tmp' = [tmp EXCEPT ![p] = Partial(tmp[p])] /\ pc' = [pc EXCEPT ![p] = "copying"]
       \/ tmp' = [tmp EXCEPT ![p] = Member(tmp[p])] /\ pc' = [pc EXCEPT ![p] = "chmod"]
       \/ pc' = [pc EXCEPT ![p] = "refused"] /\ UNCHANGED tmp    \* no such member
    /\ UNCHANGED <<target, tries, used, starts>>

FinishCopy(p) ==
    /\ pc[p] = "copying"
    /\ tmp' = [tmp EXCEPT ![p] = Member(tmp[p])]
    /\ pc' = [pc EXCEPT ![p] = "chmod"]
    /\ UNCHANGED <<target, tries, used, starts>>

Chmod(p) ==
    /\ pc[p] = "chmod"
    /\ tmp' = [tmp EXCEPT ![p] = IF tmp[p] = "binary" THEN "executable" ELSE tmp[p]]
    /\ pc' = [pc EXCEPT ![p] = "replace"]
    /\ UNCHANGED <<target, tries, used, starts>>

\* os.replace: whatever another process published meanwhile is replaced.
Replace(p) ==
    /\ pc[p] = "replace"
    /\ target' = tmp[p]
    /\ tmp' = [tmp EXCEPT ![p] = "absent"]
    /\ pc' = [pc EXCEPT ![p] = "ready"]
    /\ UNCHANGED <<tries, used, starts>>

\* The caller runs the path it was given.
Execute(p) ==
    /\ pc[p] = "ready"
    /\ used' = [used EXCEPT ![p] = target]
    /\ pc' = [pc EXCEPT ![p] = "done"]
    /\ UNCHANGED <<target, tmp, tries, starts>>

Ended == {"done", "refused"}

\* The process ends, is killed, or meets an error of the disk; its temporary
\* directory is removed, or left behind where nobody looks.
ExitUnlinking(p) ==
    /\ pc[p] # "idle"
    /\ pc' = [pc EXCEPT ![p] = "idle"]
    /\ tmp' = [tmp EXCEPT ![p] = "absent"]
    /\ used' = [used EXCEPT ![p] = "absent"]
    /\ target' = IF pc[p] = "replace" THEN "absent" ELSE target
    /\ UNCHANGED <<tries, starts>>
Exit(p) ==
    /\ pc[p] # "idle"
    /\ pc' = [pc EXCEPT ![p] = "idle"]
    /\ tmp' = [tmp EXCEPT ![p] = "absent"]
    /\ used' = [used EXCEPT ![p] = "absent"]
    /\ UNCHANGED <<target, tries, starts>>

Work(p) ==
    \/ Lookup(p)
    \/ Receive(p)
    \/ NetworkError(p)
    \/ Verify(p)
    \/ ExtractMember(p)
    \/ FinishCopy(p)
    \/ Chmod(p)
    \/ Replace(p)
    \/ Execute(p)

Next == \E p \in Procs : Begin(p) \/ Work(p) \/ Exit(p)

Spec == Init /\ [][Next]_vars

\* A running process keeps running: every attempt ends (urlopen has a timeout).
FairSpec == Spec /\ \A p \in Procs : WF_vars(Work(p))
-----------------------------------------------------------------------------
\* Whatever processes are killed, and in whatever order they publish, the path
\* in the cache is absent or the verified, executable binary: tool_path trusts
\* its mere existence (`target.is_file()`) and never verifies it again.
CachedToolIsVerified ==
    /\ target \in {"absent", "executable"}
    /\ \A p \in Procs : pc[p] = "done" => used[p] = "executable"

\* Every run ends: download_verified's retries are bounded, and no order of
\* processes keeps one waiting for another.
Answered == \A p \in Procs : pc[p] = "lookup" ~> pc[p] \in Ended \cup {"idle"}

\* tool_path implements the abstract cache, for processes that work at once.
Stored == IF target = "absent" THEN "absent" ELSE "whole"
Told == [p \in Procs |->
           IF pc[p] = "idle" THEN "none"
           ELSE IF pc[p] = "refused" THEN "refused"
           ELSE IF pc[p] \in {"ready", "done"} THEN "usable" ELSE "asked"]
Promise == INSTANCE VerifiedCache WITH Clients <- Procs, entry <- Stored, answer <- Told
KeepsPromise == Promise!Spec
=============================================================================
