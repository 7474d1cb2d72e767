-------------------------- MODULE ToolCacheProofs --------------------------
(* For any number of processes, attempts and runs: the tool cache never     *)
(* holds, nor hands out, anything but the verified binary, and implements   *)
(* the abstract cache; and no run goes on for ever.                         *)
EXTENDS ToolCache, TLAPS

\* What a process has prepared, and tried, at each place of tool_path.
Prepared(p) ==
    /\ pc[p] = "download" => tries[p] < Attempts
    /\ pc[p] = "extract" => tmp[p] = "asset"
    /\ pc[p] = "copying" => tmp[p] = "partial"
    /\ pc[p] = "chmod" => tmp[p] = "binary"
    /\ pc[p] = "replace" => tmp[p] = "executable"

\* A process that was given the path finds the binary there: nobody removes it.
Given(p) ==
    /\ pc[p] \in {"ready", "done"} => target = "executable"
    /\ pc[p] = "done" => used[p] = "executable"

Inv ==
    /\ TypeOK
    /\ target \in {"absent", "executable"}
    /\ \A p \in Procs : Prepared(p)
    /\ \A p \in Procs : Given(p)

\* Nothing is prepared or given before the first run.
LEMMA InitInv == Init => Inv
  BY ToolCacheAssumption DEF Init, Inv, TypeOK, Prepared, Given, Files, Places

\* Every step of every process keeps the invariant.
LEMMA NextInv == Inv /\ [Next]_vars => Inv'
<1> SUFFICES ASSUME Inv, [Next]_vars PROVE Inv'
    OBVIOUS
<1> USE ToolCacheAssumption DEF Inv, TypeOK, Prepared, Given, Files, Places
<1>1. ASSUME NEW p \in Procs, Begin(p) PROVE Inv'
    BY <1>1 DEF Begin
<1>2. ASSUME NEW p \in Procs, Lookup(p) PROVE Inv'
    BY <1>2 DEF Lookup
<1>3. ASSUME NEW p \in Procs, Receive(p) PROVE Inv'
    BY <1>3 DEF Receive
<1>4. ASSUME NEW p \in Procs, NetworkError(p) PROVE Inv'
    BY <1>4 DEF NetworkError
<1>5. ASSUME NEW p \in Procs, Verify(p) PROVE Inv'
    BY <1>5 DEF Verify
<1>6. ASSUME NEW p \in Procs, ExtractMember(p) PROVE Inv'
    BY <1>6 DEF ExtractMember, Partial, Member
<1>7. ASSUME NEW p \in Procs, FinishCopy(p) PROVE Inv'
    BY <1>7 DEF FinishCopy, Member
<1>8. ASSUME NEW p \in Procs, Chmod(p) PROVE Inv'
    BY <1>8 DEF Chmod
<1>9. ASSUME NEW p \in Procs, Replace(p) PROVE Inv'
    BY <1>9 DEF Replace
<1>10. ASSUME NEW p \in Procs, Execute(p) PROVE Inv'
    BY <1>10 DEF Execute
<1>11. ASSUME NEW p \in Procs, Exit(p) PROVE Inv'
    BY <1>11 DEF Exit
<1>12. CASE UNCHANGED vars
    BY <1>12 DEF vars
<1>13. QED
    BY <1>1, <1>2, <1>3, <1>4, <1>5, <1>6, <1>7, <1>8, <1>9, <1>10, <1>11, <1>12
    DEF Next, Work

\* The inductive invariant of tool_path.
LEMMA InvAlways == Spec => []Inv
  BY InitInv, NextInv, PTL DEF Spec

\* Types, whatever processes do and wherever they are killed.
THEOREM ToolTypeCorrect == Spec => []TypeOK
<1>1. Inv => TypeOK
    BY DEF Inv
<1>2. QED
    BY <1>1, InvAlways, PTL

\* The path tool_path trusts by its existence alone is absent or the verified,
\* executable binary, and that is what every run executes.
THEOREM ToolVerified == Spec => []CachedToolIsVerified
<1>1. Inv => CachedToolIsVerified
    BY DEF Inv, Given, CachedToolIsVerified
<1>2. QED
    BY <1>1, InvAlways, PTL

-----------------------------------------------------------------------------
(* The end of a run *)

\* How many steps a run still has, at most.
StepsLeft(p) ==
    IF pc[p] = "lookup" THEN 9 + Attempts
    ELSE IF pc[p] = "download" THEN 8 + (Attempts - tries[p])
    ELSE IF pc[p] = "verify" THEN 6
    ELSE IF pc[p] = "extract" THEN 5
    ELSE IF pc[p] = "copying" THEN 4
    ELSE IF pc[p] = "chmod" THEN 3
    ELSE IF pc[p] = "replace" THEN 2
    ELSE IF pc[p] = "ready" THEN 1 ELSE 0

\* Whatever the others publish meanwhile, a run gets closer to its end with every step
\* of its own and is never thrown back: download_verified starts over a bounded
\* number of times and nobody waits for anybody.
RunsAdvance ==
    [][\A p \in Procs :
          /\ StepsLeft(p) \in Nat
          /\ Work(p) => StepsLeft(p)' < StepsLeft(p)
          /\ pc[p] # "idle" => StepsLeft(p)' <= StepsLeft(p)]_vars

LEMMA WorkAdvances ==
    ASSUME TypeOK, NEW p \in Procs, Work(p)
    PROVE  StepsLeft(p)' \in Nat /\ StepsLeft(p)' < StepsLeft(p)
<1>1. Attempts \in Nat \ {0} /\ tries[p] \in 0 .. Attempts /\ Attempts - tries[p] \in Nat
    BY ToolCacheAssumption DEF TypeOK
<1>2. CASE Lookup(p)
  <2>1. tries'[p] = 0 /\ pc[p] = "lookup" /\ pc'[p] \in {"ready", "refused", "download"}
      BY <1>2 DEF Lookup, TypeOK
  <2>2. StepsLeft(p) = 9 + Attempts /\ StepsLeft(p)' \in {8 + (Attempts - 0), 1, 0}
      BY <2>1 DEF StepsLeft
  <2>3. QED
      BY <1>1, <2>2
<1>3. CASE NetworkError(p)
  <2>1. pc[p] = "download"
      BY <1>3 DEF NetworkError
  <2>2. \/ pc'[p] = "download" /\ tries'[p] = tries[p] + 1 /\ tries[p] + 1 < Attempts
        \/ pc'[p] = "refused"
      BY <1>3 DEF NetworkError, TypeOK
  <2>3. StepsLeft(p) = 8 + (Attempts - tries[p])
      BY <2>1 DEF StepsLeft
  <2>4. \/ StepsLeft(p)' = 8 + (Attempts - (tries[p] + 1)) /\ tries[p] + 1 < Attempts
        \/ StepsLeft(p)' = 0
      BY <2>2 DEF StepsLeft
  <2>5. QED
      BY <1>1, <2>3, <2>4
<1>4. CASE Receive(p)
  <2>1. pc[p] = "download" /\ pc'[p] = "verify"
      BY <1>4 DEF Receive, TypeOK
  <2>2. StepsLeft(p) = 8 + (Attempts - tries[p]) /\ StepsLeft(p)' = 6
      BY <2>1 DEF StepsLeft
  <2>3. QED
      BY <1>1, <2>2
<1>5. CASE \/ Verify(p) \/ ExtractMember(p) \/ FinishCopy(p) \/ Chmod(p) \/ Replace(p) \/ Execute(p)
  <2>1. \/ pc[p] = "verify" /\ pc'[p] \in {"extract", "refused"}
        \/ pc[p] = "extract" /\ pc'[p] \in {"copying", "chmod", "refused"}
        \/ pc[p] = "copying" /\ pc'[p] = "chmod"
        \/ pc[p] = "chmod" /\ pc'[p] = "replace"
        \/ pc[p] = "replace" /\ pc'[p] = "ready"
        \/ pc[p] = "ready" /\ pc'[p] = "done"
      BY <1>5 DEF Verify, ExtractMember, FinishCopy, Chmod, Replace, Execute, TypeOK
  <2>2. QED
      BY <2>1 DEF StepsLeft
<1>6. QED
    BY <1>2, <1>3, <1>4, <1>5 DEF Work

\* For any number of processes at once, killed anywhere: every run that is not killed
\* comes to an end.
THEOREM ToolRunsAdvance == Spec => RunsAdvance
<1>1. TypeOK /\ [Next]_vars =>
         [\A p \in Procs :
             /\ StepsLeft(p) \in Nat
             /\ Work(p) => StepsLeft(p)' < StepsLeft(p)
             /\ pc[p] # "idle" => StepsLeft(p)' <= StepsLeft(p)]_vars
  <2> SUFFICES ASSUME TypeOK, Next, NEW p \in Procs
               PROVE  /\ StepsLeft(p) \in Nat
                      /\ Work(p) => StepsLeft(p)' < StepsLeft(p)
                      /\ pc[p] # "idle" => StepsLeft(p)' <= StepsLeft(p)
      OBVIOUS
  <2>1. StepsLeft(p) \in Nat
    <3>1. Attempts - tries[p] \in Nat /\ Attempts \in Nat
        BY ToolCacheAssumption DEF TypeOK
    <3>2. QED
        BY <3>1 DEF StepsLeft
  <2>2. Work(p) => StepsLeft(p)' \in Nat /\ StepsLeft(p)' < StepsLeft(p)
      BY WorkAdvances
  <2>3. ASSUME pc[p] # "idle" PROVE StepsLeft(p)' <= StepsLeft(p)
    <3>1. PICK q \in Procs : Begin(q) \/ Work(q) \/ Exit(q)
        BY DEF Next
    <3>2. CASE Work(p)
        BY <2>1, <2>2, <3>2
    <3>3. CASE Exit(p)
      <4>1. pc'[p] = "idle"
          BY <3>3 DEF Exit, TypeOK
      <4>2. StepsLeft(p)' = 0
          BY <4>1 DEF StepsLeft
      <4>3. QED
          BY <2>1, <4>2
    <3>4. CASE q # p
      <4>1. pc'[p] = pc[p] /\ tries'[p] = tries[p]
          BY <3>1, <3>4
          DEF TypeOK, Begin, Work, Exit, Lookup, Receive, NetworkError, Verify, ExtractMember,
              FinishCopy, Chmod, Replace, Execute
      <4>2. StepsLeft(p)' = StepsLeft(p)
          BY <4>1 DEF StepsLeft
      <4>3. QED
          BY <2>1, <4>2
    <3>5. ~Begin(p)
        BY <2>3 DEF Begin
    <3>6. QED
        BY <3>1, <3>2, <3>3, <3>4, <3>5
  <2>4. QED
      BY <2>1, <2>2, <2>3
<1>2. QED
    BY <1>1, ToolTypeCorrect, PTL DEF Spec, RunsAdvance
-----------------------------------------------------------------------------
(* The refinement *)

\* The abstract cache starts where tool_path starts.
LEMMA InitPromise == Init => Promise!Init
  BY DEF Init, Promise!Init, Stored, Told

\* Every step of tool_path is a step of the abstract cache or changes nothing there.
LEMMA StepPromise == Inv /\ [Next]_vars => [Promise!Next]_<<Stored, Told>>
<1> SUFFICES ASSUME Inv, [Next]_vars PROVE [Promise!Next]_<<Stored, Told>>
    OBVIOUS
<1> DEFINE Quiet == Stored' = Stored /\ Told' = Told
<1> USE DEF Inv, TypeOK, Files, Places
<1>1. ASSUME NEW p \in Procs, Begin(p) PROVE Promise!Ask(p)
    BY <1>1 DEF Begin, Promise!Ask, Told, Stored
<1>2. ASSUME NEW p \in Procs, Lookup(p) PROVE Promise!Give(p) \/ Promise!Refuse(p) \/ Quiet
  <2>1. CASE target # "absent"
      BY <1>2, <2>1 DEF Lookup, Promise!Give, Told, Stored
  <2>2. CASE target = "absent" /\ p \in Offline
      BY <1>2, <2>2 DEF Lookup, Promise!Refuse, Told, Stored
  <2>3. CASE target = "absent" /\ p \notin Offline
      BY <1>2, <2>3 DEF Lookup, Told, Stored
  <2>4. QED
      BY <2>1, <2>2, <2>3
<1>3. ASSUME NEW p \in Procs, Receive(p) PROVE Quiet
    BY <1>3 DEF Receive, Told, Stored
<1>4. ASSUME NEW p \in Procs, NetworkError(p) PROVE Promise!Refuse(p) \/ Quiet
  <2>1. CASE tries[p] + 1 < Attempts
      BY <1>4, <2>1 DEF NetworkError, Told, Stored
  <2>2. CASE ~(tries[p] + 1 < Attempts)
      BY <1>4, <2>2 DEF NetworkError, Promise!Refuse, Told, Stored
  <2>3. QED
      BY <2>1, <2>2
<1>5. ASSUME NEW p \in Procs, Verify(p) PROVE Promise!Refuse(p) \/ Quiet
  <2>1. CASE tmp[p] = "asset"
      BY <1>5, <2>1 DEF Verify, Told, Stored
  <2>2. CASE tmp[p] # "asset"
      BY <1>5, <2>2 DEF Verify, Promise!Refuse, Told, Stored
  <2>3. QED
      BY <2>1, <2>2
<1>6. ASSUME NEW p \in Procs, ExtractMember(p) PROVE Promise!Refuse(p) \/ Quiet
  <2>1. CASE pc' = [pc EXCEPT ![p] = "copying"]
      BY <1>6, <2>1 DEF ExtractMember, Told, Stored
  <2>2. CASE pc' = [pc EXCEPT ![p] = "chmod"]
      BY <1>6, <2>2 DEF ExtractMember, Told, Stored
  <2>3. CASE pc' = [pc EXCEPT ![p] = "refused"]
      BY <1>6, <2>3 DEF ExtractMember, Promise!Refuse, Told, Stored
  <2>4. QED
      BY <1>6, <2>1, <2>2, <2>3 DEF ExtractMember
<1>7. ASSUME NEW p \in Procs, FinishCopy(p) PROVE Quiet
    BY <1>7 DEF FinishCopy, Told, Stored
<1>8. ASSUME NEW p \in Procs, Chmod(p) PROVE Quiet
    BY <1>8 DEF Chmod, Told, Stored
<1>9. ASSUME NEW p \in Procs, Replace(p) PROVE Promise!Give(p)
  <2>1. target' = "executable"
      BY <1>9 DEF Replace, Prepared
  <2>2. QED
      BY <1>9, <2>1 DEF Replace, Promise!Give, Told, Stored
<1>10. ASSUME NEW p \in Procs, Execute(p) PROVE Quiet
    BY <1>10 DEF Execute, Told, Stored
<1>11. ASSUME NEW p \in Procs, Exit(p) PROVE Promise!Leave(p)
    BY <1>11 DEF Exit, Promise!Leave, Told, Stored
<1>12. CASE UNCHANGED vars
    BY <1>12 DEF vars, Told, Stored
<1>13. QED
    BY <1>1, <1>2, <1>3, <1>4, <1>5, <1>6, <1>7, <1>8, <1>9, <1>10, <1>11, <1>12
    DEF Next, Work, Promise!Next

\* tool_path keeps the promise of the abstract cache with any number of
\* processes at work, killed anywhere.
THEOREM ToolImplementsPromise == Spec => KeepsPromise
  BY InvAlways, InitPromise, StepPromise, PTL DEF Spec, KeepsPromise, Promise!Spec, Promise!vars
=============================================================================
