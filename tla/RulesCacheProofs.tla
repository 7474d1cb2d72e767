------------------------- MODULE RulesCacheProofs -------------------------
(* For any bundle, number of runs and crashes.  With one process at a time: *)
(* the marker means a whole bundle, every scan gets it, no run trips over   *)
(* what another left, and rules_path implements the abstract cache.  With   *)
(* any number at once: a bundle that is there serves them all, and every    *)
(* step of a run brings it closer to its end.                               *)
EXTENDS RulesCache, TLAPS, FiniteSetTheorems

\* What holds at each place of rules_path when nobody else is running.
Staged(p) == staging[p] \in Dirs /\ staging[p] # target /\ content[staging[p]] = Packs
At(p) ==
    /\ pc[p] = "download" => tries[p] < Attempts
    /\ pc[p] \in {"download", "exists", "list", "unlink", "replace", "mark"} => ~Marked
    /\ pc[p] \in {"exists", "list", "unlink", "replace"} => Staged(p)
    /\ pc[p] = "list" => There
    /\ pc[p] = "unlink" => There /\ removing[p] = target /\ listing[p] = content[target]
    /\ pc[p] = "replace" => target = NoDir
    /\ pc[p] = "mark" => There /\ content[target] = Packs
    /\ pc[p] \in {"ready", "done"} => Marked
    /\ pc[p] = "done" => loaded[p] = Packs
    /\ pc[p] # "broken"

Alone == \A p, q \in Procs : p # q => pc[p] = "idle" \/ pc[q] = "idle"

Inv ==
    /\ TypeOK
    /\ Alone
    /\ CompleteMeansWhole
    /\ \A p \in Procs : At(p)

\* The empty cache, nobody running.
LEMMA InitInv == Init => Inv
<1> SUFFICES ASSUME Init PROVE Inv
    OBVIOUS
<1>1. TypeOK
    BY RulesCacheAssumption DEF Init, TypeOK, Files, Places
<1>2. Alone /\ CompleteMeansWhole
    BY DEF Init, Alone, CompleteMeansWhole, Marked, There
<1>3. \A p \in Procs : At(p)
    BY DEF Init, At
<1>4. QED
    BY <1>1, <1>2, <1>3 DEF Inv

\* While one process runs, whatever it does, every other stays idle.
LEMMA OthersIdle ==
    ASSUME Inv, NEW p \in Procs, pc[p] # "idle", NEW place \in Places, Goto(p, place)
    PROVE  Alone' /\ \A q \in Procs \ {p} : pc'[q] = "idle"
  BY DEF Inv, TypeOK, Alone, Goto

\* An idle process asks nothing of the cache.
LEMMA IdleAt == \A q \in Procs : pc'[q] = "idle" => At(q)'
  BY DEF At

\* What its lookup leaves behind for the process that does it.
LEMMA LookupAt ==
    ASSUME Inv, NEW p \in Procs, Lookup(p)
    PROVE  TypeOK' /\ CompleteMeansWhole' /\ At(p)' /\ \E place \in Places : Goto(p, place)
<1> USE RulesCacheAssumption DEF Inv, Lookup, Goto
<1>1. TypeOK'
    BY DEF TypeOK, Files, Places, There
<1>2. CompleteMeansWhole' /\ At(p)'
    BY DEF TypeOK, At, Staged, CompleteMeansWhole, Marked, There, Files, Unused, Replaceable
<1>3. \E place \in Places : Goto(p, place)
    BY DEF TypeOK, Places, At
<1>4. QED
    BY <1>1, <1>2, <1>3

\* What a failed attempt leaves behind for the process that does it.
LEMMA NetworkErrorAt ==
    ASSUME Inv, NEW p \in Procs, NetworkError(p)
    PROVE  TypeOK' /\ CompleteMeansWhole' /\ At(p)' /\ \E place \in Places : Goto(p, place)
<1> USE RulesCacheAssumption DEF Inv, NetworkError, Goto
<1>1. TypeOK'
    BY DEF TypeOK, Files, Places, At
<1>2. CompleteMeansWhole' /\ At(p)'
    BY DEF TypeOK, At, Staged, CompleteMeansWhole, Marked, There, Files, Unused, Replaceable
<1>3. \E place \in Places : Goto(p, place)
    BY DEF TypeOK, Places, At
<1>4. QED
    BY <1>1, <1>2, <1>3

\* What a wrong digest leaves behind for the process that does it.
LEMMA WrongDigestAt ==
    ASSUME Inv, NEW p \in Procs, WrongDigest(p)
    PROVE  TypeOK' /\ CompleteMeansWhole' /\ At(p)' /\ \E place \in Places : Goto(p, place)
<1> USE RulesCacheAssumption DEF Inv, WrongDigest, Goto
<1>1. TypeOK'
    BY DEF TypeOK, Files, Places, There
<1>2. CompleteMeansWhole' /\ At(p)'
    BY DEF TypeOK, At, Staged, CompleteMeansWhole, Marked, There, Files, Unused, Replaceable
<1>3. \E place \in Places : Goto(p, place)
    BY DEF TypeOK, Places, At
<1>4. QED
    BY <1>1, <1>2, <1>3

\* What an extraction leaves behind for the process that does it.
LEMMA ExtractAt ==
    ASSUME Inv, NEW p \in Procs, Extract(p)
    PROVE  TypeOK' /\ CompleteMeansWhole' /\ At(p)' /\ \E place \in Places : Goto(p, place)
<1> USE RulesCacheAssumption DEF Inv, Extract, Goto
<1>1. TypeOK'
    BY DEF TypeOK, Files, Places, There
<1>2. CompleteMeansWhole' /\ At(p)'
    BY DEF TypeOK, At, Staged, CompleteMeansWhole, Marked, There, Files, Unused, Replaceable
<1>3. \E place \in Places : Goto(p, place)
    BY DEF TypeOK, Places, At
<1>4. QED
    BY <1>1, <1>2, <1>3

\* What its test of the directory leaves behind for the process that does it.
LEMMA ExistsAt ==
    ASSUME Inv, NEW p \in Procs, Exists(p)
    PROVE  TypeOK' /\ CompleteMeansWhole' /\ At(p)' /\ \E place \in Places : Goto(p, place)
<1> USE RulesCacheAssumption DEF Inv, Exists, Goto
<1>1. TypeOK'
    BY DEF TypeOK, Files, Places, There
<1>2. CompleteMeansWhole' /\ At(p)'
    BY DEF TypeOK, At, Staged, CompleteMeansWhole, Marked, There, Files, Unused, Replaceable
<1>3. \E place \in Places : Goto(p, place)
    BY DEF TypeOK, Places, At
<1>4. QED
    BY <1>1, <1>2, <1>3

\* What a listing leaves behind for the process that does it.
LEMMA ListAt ==
    ASSUME Inv, NEW p \in Procs, List(p)
    PROVE  TypeOK' /\ CompleteMeansWhole' /\ At(p)' /\ \E place \in Places : Goto(p, place)
<1> USE RulesCacheAssumption DEF Inv, List, Goto
<1>1. TypeOK'
    BY DEF TypeOK, Files, Places, There
<1>2. CompleteMeansWhole' /\ At(p)'
    BY DEF TypeOK, At, Staged, CompleteMeansWhole, Marked, There, Files, Unused, Replaceable
<1>3. \E place \in Places : Goto(p, place)
    BY DEF TypeOK, Places, At
<1>4. QED
    BY <1>1, <1>2, <1>3

\* What an unlink leaves behind for the process that does it.
LEMMA UnlinkAt ==
    ASSUME Inv, NEW p \in Procs, Unlink(p)
    PROVE  TypeOK' /\ CompleteMeansWhole' /\ At(p)' /\ \E place \in Places : Goto(p, place)
<1> USE RulesCacheAssumption DEF Inv, Unlink, Goto
<1>1. TypeOK'
    BY DEF TypeOK, Files, Places, There, At
<1>2. CompleteMeansWhole' /\ At(p)'
    BY DEF TypeOK, At, Staged, CompleteMeansWhole, Marked, There, Files, Unused, Replaceable
<1>3. \E place \in Places : Goto(p, place)
    BY DEF TypeOK, Places, At
<1>4. QED
    BY <1>1, <1>2, <1>3

\* What the removal of the directory leaves behind for the process that does it.
LEMMA RmdirAt ==
    ASSUME Inv, NEW p \in Procs, Rmdir(p)
    PROVE  TypeOK' /\ CompleteMeansWhole' /\ At(p)' /\ \E place \in Places : Goto(p, place)
<1> USE RulesCacheAssumption DEF Inv, Rmdir, Goto
<1>1. TypeOK'
    BY DEF TypeOK, Files, Places, There
<1>2. CompleteMeansWhole' /\ At(p)'
    BY DEF TypeOK, At, Staged, CompleteMeansWhole, Marked, There, Files, Unused, Replaceable
<1>3. \E place \in Places : Goto(p, place)
    BY DEF TypeOK, Places, At
<1>4. QED
    BY <1>1, <1>2, <1>3

\* What the rename leaves behind for the process that does it.
LEMMA ReplaceAt ==
    ASSUME Inv, NEW p \in Procs, Replace(p)
    PROVE  TypeOK' /\ CompleteMeansWhole' /\ At(p)' /\ \E place \in Places : Goto(p, place)
<1> USE RulesCacheAssumption DEF Inv, Replace, Goto
<1>1. TypeOK'
    BY DEF TypeOK, Files, Places, There
<1>2. CompleteMeansWhole' /\ At(p)'
    BY DEF TypeOK, At, Staged, CompleteMeansWhole, Marked, There, Files, Unused, Replaceable
<1>3. \E place \in Places : Goto(p, place)
    BY DEF TypeOK, Places, At
<1>4. QED
    BY <1>1, <1>2, <1>3

\* What the marker leaves behind for the process that does it.
LEMMA MarkAt ==
    ASSUME Inv, NEW p \in Procs, Mark(p)
    PROVE  TypeOK' /\ CompleteMeansWhole' /\ At(p)' /\ \E place \in Places : Goto(p, place)
<1> USE RulesCacheAssumption DEF Inv, Mark, Goto
<1>1. TypeOK'
    BY DEF TypeOK, Files, Places, There
<1>2. CompleteMeansWhole' /\ At(p)'
    BY DEF TypeOK, At, Staged, CompleteMeansWhole, Marked, There, Files, Unused, Replaceable
<1>3. \E place \in Places : Goto(p, place)
    BY DEF TypeOK, Places, At
<1>4. QED
    BY <1>1, <1>2, <1>3

\* What the scan leaves behind for the process that does it.
LEMMA ScanAt ==
    ASSUME Inv, NEW p \in Procs, Scan(p)
    PROVE  TypeOK' /\ CompleteMeansWhole' /\ At(p)' /\ \E place \in Places : Goto(p, place)
<1> USE RulesCacheAssumption DEF Inv, Scan, Goto
<1>1. TypeOK'
    BY DEF TypeOK, Files, Places, There, Present
<1>2. CompleteMeansWhole' /\ At(p)'
    BY DEF TypeOK, At, Staged, CompleteMeansWhole, Marked, There, Files, Unused, Replaceable, Present
<1>3. \E place \in Places : Goto(p, place)
    BY DEF TypeOK, Places, At
<1>4. QED
    BY <1>1, <1>2, <1>3

\* What its end leaves behind for the process that does it.
LEMMA ExitAt ==
    ASSUME Inv, NEW p \in Procs, Exit(p)
    PROVE  TypeOK' /\ CompleteMeansWhole' /\ At(p)' /\ \E place \in Places : Goto(p, place)
<1> USE RulesCacheAssumption DEF Inv, Exit, Goto
<1>1. TypeOK'
    BY DEF TypeOK, Files, Places, There
<1>2. CompleteMeansWhole' /\ At(p)'
    BY DEF TypeOK, At, Staged, CompleteMeansWhole, Marked, There, Files, Unused, Replaceable
<1>3. \E place \in Places : Goto(p, place)
    BY DEF TypeOK, Places, At
<1>4. QED
    BY <1>1, <1>2, <1>3

\* A run begins only when nobody runs.
LEMMA BeginInv == ASSUME Sharing = "alone", Inv, NEW p \in Procs, Begin(p) PROVE Inv'
<1> USE RulesCacheAssumption DEF Inv, Begin, Goto
<1>1. TypeOK'
    BY DEF TypeOK, Places
<1>2. Alone' /\ \A q \in Procs \ {p} : pc'[q] = "idle"
    BY DEF TypeOK, Alone
<1>3. CompleteMeansWhole'
    BY DEF CompleteMeansWhole, Marked, There
<1>4. At(p)'
    BY DEF TypeOK, At
<1>5. QED
    BY <1>1, <1>2, <1>3, <1>4, IdleAt

\* A step that leaves things right for the process that takes it leaves them
\* right for all: the others are idle.
LEMMA OneStep ==
    ASSUME Inv, NEW p \in Procs, pc[p] # "idle",
           TypeOK' /\ CompleteMeansWhole' /\ At(p)' /\ \E place \in Places : Goto(p, place)
    PROVE  Inv'
<1>1. Alone' /\ \A q \in Procs \ {p} : pc'[q] = "idle"
    BY OthersIdle
<1>2. QED
    BY <1>1, IdleAt DEF Inv

\* Every step keeps the invariant.
LEMMA NextInv == ASSUME Sharing = "alone" PROVE Inv /\ [Next]_vars => Inv'
<1> SUFFICES ASSUME Inv, [Next]_vars PROVE Inv'
    OBVIOUS
<1>1. ASSUME NEW p \in Procs, Begin(p) PROVE Inv'
    BY <1>1, BeginInv
<1>2. ASSUME NEW p \in Procs, Lookup(p) PROVE Inv'
  <2>1. pc[p] # "idle"
      BY <1>2 DEF Lookup
  <2>2. QED
      BY <1>2, <2>1, LookupAt, OneStep
<1>3. ASSUME NEW p \in Procs, NetworkError(p) PROVE Inv'
  <2>1. pc[p] # "idle"
      BY <1>3 DEF NetworkError
  <2>2. QED
      BY <1>3, <2>1, NetworkErrorAt, OneStep
<1>4. ASSUME NEW p \in Procs, WrongDigest(p) PROVE Inv'
  <2>1. pc[p] # "idle"
      BY <1>4 DEF WrongDigest
  <2>2. QED
      BY <1>4, <2>1, WrongDigestAt, OneStep
<1>5. ASSUME NEW p \in Procs, Extract(p) PROVE Inv'
  <2>1. pc[p] # "idle"
      BY <1>5 DEF Extract
  <2>2. QED
      BY <1>5, <2>1, ExtractAt, OneStep
<1>6. ASSUME NEW p \in Procs, Exists(p) PROVE Inv'
  <2>1. pc[p] # "idle"
      BY <1>6 DEF Exists
  <2>2. QED
      BY <1>6, <2>1, ExistsAt, OneStep
<1>7. ASSUME NEW p \in Procs, List(p) PROVE Inv'
  <2>1. pc[p] # "idle"
      BY <1>7 DEF List
  <2>2. QED
      BY <1>7, <2>1, ListAt, OneStep
<1>8. ASSUME NEW p \in Procs, Unlink(p) PROVE Inv'
  <2>1. pc[p] # "idle"
      BY <1>8 DEF Unlink
  <2>2. QED
      BY <1>8, <2>1, UnlinkAt, OneStep
<1>9. ASSUME NEW p \in Procs, Rmdir(p) PROVE Inv'
  <2>1. pc[p] # "idle"
      BY <1>9 DEF Rmdir
  <2>2. QED
      BY <1>9, <2>1, RmdirAt, OneStep
<1>10. ASSUME NEW p \in Procs, Replace(p) PROVE Inv'
  <2>1. pc[p] # "idle"
      BY <1>10 DEF Replace
  <2>2. QED
      BY <1>10, <2>1, ReplaceAt, OneStep
<1>11. ASSUME NEW p \in Procs, Mark(p) PROVE Inv'
  <2>1. pc[p] # "idle"
      BY <1>11 DEF Mark
  <2>2. QED
      BY <1>11, <2>1, MarkAt, OneStep
<1>12. ASSUME NEW p \in Procs, Scan(p) PROVE Inv'
  <2>1. pc[p] # "idle"
      BY <1>12 DEF Scan
  <2>2. QED
      BY <1>12, <2>1, ScanAt, OneStep
<1>13. ASSUME NEW p \in Procs, Exit(p) PROVE Inv'
  <2>1. pc[p] # "idle"
      BY <1>13 DEF Exit
  <2>2. QED
      BY <1>13, <2>1, ExitAt, OneStep
<1>14. CASE UNCHANGED vars
    BY <1>14 DEF vars, Inv, TypeOK, Alone, CompleteMeansWhole, At, Staged, Marked, There
<1>15. QED
    BY <1>1, <1>2, <1>3, <1>4, <1>5, <1>6, <1>7, <1>8, <1>9, <1>10, <1>11, <1>12, <1>13, <1>14 DEF Next, Work

\* The inductive invariant of rules_path with one process at a time.
LEMMA InvAlways == ASSUME Sharing = "alone" PROVE Spec => []Inv
  BY InitInv, NextInv, PTL DEF Spec

\* Types, for any number of processes at once: a fetch is retried while attempts are left.
THEOREM RulesTypeCorrect == Spec => []TypeOK
<1> DEFINE TInv == /\ TypeOK
                   /\ \A p \in Procs : pc[p] = "download" => tries[p] < Attempts
                   /\ \A p \in Procs : pc[p] = "unlink" => removing[p] \in Dirs
<1> USE RulesCacheAssumption DEF TypeOK, Files, Places, Goto
<1>1. Init => TInv
    BY DEF Init
<1>2. TInv /\ [Next]_vars => TInv'
  <2> SUFFICES ASSUME TInv, [Next]_vars PROVE TInv'
      OBVIOUS
  <2>1. ASSUME NEW p \in Procs, Begin(p) \/ Exit(p) PROVE TInv'
      BY <2>1 DEF Begin, Exit
  <2>2. ASSUME NEW p \in Procs, Lookup(p) \/ Exists(p) \/ WrongDigest(p) PROVE TInv'
      BY <2>2 DEF Lookup, Exists, WrongDigest
  <2>3. ASSUME NEW p \in Procs, NetworkError(p) PROVE TInv'
    <3>1. tries[p] + 1 \in 0 .. Attempts
        BY <2>3 DEF NetworkError
    <3>2. tries' \in [Procs -> 0 .. Attempts]
        BY <2>3, <3>1 DEF NetworkError
    <3>3. CASE tries[p] + 1 < Attempts
        BY <2>3, <3>2, <3>3 DEF NetworkError
    <3>4. CASE ~(tries[p] + 1 < Attempts)
        BY <2>3, <3>2, <3>4 DEF NetworkError
    <3>5. QED
        BY <3>3, <3>4
  <2>4. ASSUME NEW p \in Procs, Extract(p) PROVE TInv'
      BY <2>4 DEF Extract
  <2>5. ASSUME NEW p \in Procs, List(p) PROVE TInv'
      BY <2>5 DEF List, There
  <2>6. ASSUME NEW p \in Procs, Unlink(p) PROVE TInv'
    <3>1. PICK e \in listing[p] :
             /\ listing' = [listing EXCEPT ![p] = listing[p] \ {e}]
             /\ content' = [content EXCEPT ![removing[p]] = content[removing[p]] \ {e}]
        BY <2>6 DEF Unlink
    <3>2. content' \in [Dirs -> SUBSET Files]
        BY <2>6, <3>1 DEF Unlink
    <3>3. QED
        BY <2>6, <3>1, <3>2 DEF Unlink
  <2>7. ASSUME NEW p \in Procs, Rmdir(p) \/ Replace(p) PROVE TInv'
      BY <2>7 DEF Rmdir, Replace
  <2>8. ASSUME NEW p \in Procs, Mark(p) PROVE TInv'
      BY <2>8 DEF Mark, There
  <2>9. ASSUME NEW p \in Procs, Scan(p) PROVE TInv'
      BY <2>9 DEF Scan, Present, There
  <2>10. CASE UNCHANGED vars
      BY <2>10 DEF vars
  <2>11. QED
      BY <2>1, <2>2, <2>3, <2>4, <2>5, <2>6, <2>7, <2>8, <2>9, <2>10 DEF Next, Work
<1>3. QED
    BY <1>1, <1>2, PTL DEF Spec

\* Whoever was killed wherever, the marker means a whole bundle.
THEOREM CompleteMeansWholeCorrect == ASSUME Sharing = "alone" PROVE Spec => []CompleteMeansWhole
<1>1. Inv => CompleteMeansWhole
    BY DEF Inv
<1>2. QED
    BY <1>1, InvAlways, PTL

\* Every scan runs with all packs of the bundle.
THEOREM RulesCorrect == ASSUME Sharing = "alone" PROVE Spec => []ScansTheWholeBundle
<1>1. Inv => ScansTheWholeBundle
    BY DEF Inv, At, ScansTheWholeBundle
<1>2. QED
    BY <1>1, InvAlways, PTL

\* No run fails for what another, killed anywhere, left in the cache.
THEOREM NoRunBreaksOnTheCacheCorrect == ASSUME Sharing = "alone" PROVE Spec => []NoRunBreaksOnTheCache
<1>1. Inv => NoRunBreaksOnTheCache
    BY DEF Inv, At, NoRunBreaksOnTheCache
<1>2. QED
    BY <1>1, InvAlways, PTL

-----------------------------------------------------------------------------
(* Any number of processes at once, on a cache that is already there          *)

\* The bundle is in the cache, whole, and no run is on its way to replace it.
Fetching == {"download", "exists", "list", "unlink", "replace", "mark"}
Warm == Marked /\ CompleteMeansWhole /\ \A p \in Procs : pc[p] \notin Fetching

\* "After that scans run offline": a bundle that is there stays there, whatever runs,
\* offline or not, come at once and are killed wherever, and every run that comes
\* to an answer is given all its packs.
WarmCacheServes ==
    [][Warm => /\ Warm'
               /\ \A p \in Procs : pc'[p] # pc[p] =>
                     /\ pc'[p] \notin {"refused", "broken"}
                     /\ pc'[p] = "done" => loaded'[p] = Packs]_vars

\* For any number of processes, at once or one by one: a warm cache serves them all.
THEOREM WarmCacheServesCorrect == Spec => WarmCacheServes
<1> DEFINE Serves == /\ Warm'
                     /\ \A p \in Procs : pc'[p] # pc[p] =>
                           /\ pc'[p] \notin {"refused", "broken"}
                           /\ pc'[p] = "done" => loaded'[p] = Packs
<1>1. TypeOK /\ [Next]_vars => [Warm => Serves]_vars
  <2> SUFFICES ASSUME TypeOK, Next, Warm PROVE Serves
      OBVIOUS
  <2>1. PICK p \in Procs : Begin(p) \/ Work(p) \/ Exit(p)
      BY DEF Next
  <2>2. pc[p] \notin Fetching /\ Marked /\ Packs \subseteq content[target]
      BY DEF Warm, CompleteMeansWhole
  <2>3. Begin(p) \/ Exit(p) \/ Lookup(p) \/ Scan(p)
      BY <2>1, <2>2 DEF Work, Fetching, NetworkError, WrongDigest, Extract, Exists, List, Unlink,
                        Rmdir, Replace, Mark
  <2>4. UNCHANGED <<target, content>>
      BY <2>3 DEF Begin, Exit, Lookup, Scan
  <2>5. Present = Packs /\ Packs # {}
      BY <2>2, RulesCacheAssumption DEF Present, Marked, There
  <2>6. pc' = [pc EXCEPT ![p] = pc'[p]] /\ pc'[p] \in {"idle", "lookup", "ready", "done"}
      BY <2>2, <2>3, <2>5 DEF TypeOK, Begin, Exit, Lookup, Scan, Goto
  <2>7. pc'[p] = "done" => loaded'[p] = Packs
    <3>1. CASE Scan(p)
        BY <3>1, <2>5 DEF TypeOK, Scan
    <3>2. CASE Begin(p) \/ Exit(p) \/ Lookup(p)
        BY <3>2, <2>2 DEF TypeOK, Begin, Exit, Lookup, Goto
    <3>3. QED
        BY <2>3, <3>1, <3>2
  <2>8. Warm'
      BY <2>2, <2>4, <2>6 DEF Warm, CompleteMeansWhole, Marked, There, Fetching, TypeOK
  <2>9. QED
      BY <2>6, <2>7, <2>8 DEF TypeOK
<1>2. QED
    BY <1>1, RulesTypeCorrect, PTL DEF Spec, WarmCacheServes
-----------------------------------------------------------------------------
(* The end of a run *)

\* How many steps a run still has, at most: the attempts that are left, the entries
\* its rmtree has still to unlink, the places after that.
StepsLeft(p) ==
    IF pc[p] = "lookup" THEN Cardinality(Files) + 8 + Attempts
    ELSE IF pc[p] = "download" THEN Cardinality(Files) + 7 + (Attempts - tries[p])
    ELSE IF pc[p] = "exists" THEN Cardinality(Files) + 6
    ELSE IF pc[p] = "list" THEN Cardinality(Files) + 5
    ELSE IF pc[p] = "unlink" THEN 4 + Cardinality(listing[p])
    ELSE IF pc[p] = "replace" THEN 3
    ELSE IF pc[p] = "mark" THEN 2
    ELSE IF pc[p] = "ready" THEN 1 ELSE 0

\* Whatever the others do to the directory meanwhile, a run gets closer to its end
\* with every step of its own and is never thrown back: rmtree lists once, the
\* retries are bounded, and nobody waits for anybody.
RunsAdvance ==
    [][\A p \in Procs :
          /\ StepsLeft(p) \in Nat
          /\ Work(p) => StepsLeft(p)' < StepsLeft(p)
          /\ pc[p] # "idle" => StepsLeft(p)' <= StepsLeft(p)]_vars

LEMMA Listings ==
    ASSUME IsFiniteSet(Packs), TypeOK
    PROVE  /\ Cardinality(Files) \in Nat
           /\ \A p \in Procs : /\ IsFiniteSet(listing[p])
                               /\ Cardinality(listing[p]) \in 0 .. Cardinality(Files)
           /\ \A d \in Dirs : Cardinality(content[d]) \in 0 .. Cardinality(Files)
<1>1. IsFiniteSet(Files)
    BY FS_AddElement DEF Files
<1>2. Cardinality(Files) \in Nat
    BY <1>1, FS_CardinalityType
<1>3. ASSUME NEW S \in SUBSET Files
      PROVE  IsFiniteSet(S) /\ Cardinality(S) \in 0 .. Cardinality(Files)
  <2>1. IsFiniteSet(S) /\ Cardinality(S) <= Cardinality(Files)
      BY <1>1, FS_Subset
  <2>2. Cardinality(S) \in Nat
      BY <2>1, FS_CardinalityType
  <2>3. QED
      BY <1>2, <2>1, <2>2
<1>4. QED
    BY <1>2, <1>3 DEF TypeOK

\* A step of a run, other than one that starts or ends it.
LEMMA WorkAdvances ==
    ASSUME IsFiniteSet(Packs), TypeOK, NEW p \in Procs, Work(p)
    PROVE  StepsLeft(p)' \in Nat /\ StepsLeft(p)' < StepsLeft(p)
<1> DEFINE W == Cardinality(Files)
           left == Cardinality(listing[p])
<1>1. /\ W \in Nat /\ left \in 0 .. W /\ Attempts \in Nat \ {0} /\ tries[p] \in 0 .. Attempts
      /\ \A d \in Dirs : Cardinality(content[d]) \in 0 .. W
    BY Listings, RulesCacheAssumption DEF TypeOK
<1>2. Attempts - tries[p] \in Nat
    BY <1>1
<1>3. ASSUME Unlink(p) PROVE StepsLeft(p)' \in Nat /\ StepsLeft(p)' < StepsLeft(p)
  <2>1. PICK e \in listing[p] : listing'[p] = listing[p] \ {e}
      BY <1>3 DEF Unlink, TypeOK
  <2>2. Cardinality(listing'[p]) = left - 1 /\ left - 1 \in Nat
    <3>1. IsFiniteSet(listing[p])
        BY Listings
    <3>2. Cardinality(listing[p] \ {e}) = left - 1
        BY <3>1, <2>1, FS_RemoveElement
    <3>3. IsFiniteSet(listing[p] \ {e})
        BY <3>1, FS_RemoveElement
    <3>4. Cardinality(listing[p] \ {e}) \in Nat
        BY <3>3, FS_CardinalityType
    <3>5. QED
        BY <2>1, <3>2, <3>4
  <2>3. pc[p] = "unlink" /\ pc'[p] \in {"unlink", "broken"}
      BY <1>3 DEF Unlink, Goto, TypeOK
  <2> HIDE DEF left
  <2>4. StepsLeft(p) = 4 + left
      BY <2>3 DEF StepsLeft, left
  <2>5. StepsLeft(p)' = 4 + Cardinality(listing'[p]) \/ StepsLeft(p)' = 0
      BY <2>3 DEF StepsLeft
  <2>6. QED
      BY <1>1, <2>2, <2>4, <2>5
<1>4. ASSUME List(p) PROVE StepsLeft(p)' \in Nat /\ StepsLeft(p)' < StepsLeft(p)
  <2>1. pc[p] = "list" /\ StepsLeft(p) = W + 5
      BY <1>4 DEF List, StepsLeft
  <2>2. CASE pc'[p] = "unlink"
    <3>1. target \in Dirs /\ listing'[p] = content[target]
        BY <1>4, <2>2 DEF List, TypeOK, There, Goto
    <3>2. StepsLeft(p)' = 4 + Cardinality(content[target])
        BY <2>2, <3>1 DEF StepsLeft
    <3> HIDE DEF W
    <3>3. Cardinality(content[target]) \in 0 .. W /\ W \in Nat
        BY <1>1, <3>1
    <3>4. QED
        BY <2>1, <3>2, <3>3
  <2>3. CASE pc'[p] = "broken"
    <3>1. StepsLeft(p)' = 0
        BY <2>3 DEF StepsLeft
    <3> HIDE DEF W
    <3>2. QED
        BY <1>1, <2>1, <3>1
  <2>4. QED
      BY <1>4, <2>2, <2>3 DEF List, Goto, TypeOK
<1>5. ASSUME NetworkError(p) PROVE StepsLeft(p)' \in Nat /\ StepsLeft(p)' < StepsLeft(p)
  <2>1. StepsLeft(p) = W + 7 + (Attempts - tries[p])
      BY <1>5 DEF NetworkError, StepsLeft
  <2>2. /\ pc'[p] = "download" /\ tries'[p] = tries[p] + 1 /\ tries[p] + 1 < Attempts
        \/ pc'[p] = "refused"
      BY <1>5 DEF NetworkError, Goto, TypeOK
  <2>3. \/ StepsLeft(p)' = W + 7 + (Attempts - (tries[p] + 1)) /\ tries[p] + 1 < Attempts
        \/ StepsLeft(p)' = 0
      BY <2>2 DEF StepsLeft
  <2> HIDE DEF W
  <2>4. QED
      BY <1>1, <2>1, <2>3
<1>6. ASSUME Lookup(p) PROVE StepsLeft(p)' \in Nat /\ StepsLeft(p)' < StepsLeft(p)
  <2>1. StepsLeft(p) = W + 8 + Attempts
      BY <1>6 DEF Lookup, StepsLeft
  <2>2. tries'[p] = 0 /\ pc'[p] \in {"ready", "refused", "download"}
      BY <1>6 DEF Lookup, Goto, TypeOK
  <2>3. StepsLeft(p)' \in {W + 7 + (Attempts - 0), 1, 0}
      BY <2>2 DEF StepsLeft
  <2> HIDE DEF W
  <2>4. QED
      BY <1>1, <2>1, <2>3
<1>7. ASSUME WrongDigest(p) \/ Extract(p) PROVE StepsLeft(p)' \in Nat /\ StepsLeft(p)' < StepsLeft(p)
  <2>1. StepsLeft(p) = W + 7 + (Attempts - tries[p])
      BY <1>7 DEF WrongDigest, Extract, StepsLeft
  <2>2. pc'[p] \in {"refused", "exists"}
      BY <1>7 DEF WrongDigest, Extract, Goto, TypeOK
  <2>3. StepsLeft(p)' \in {W + 6, 0}
      BY <2>2 DEF StepsLeft
  <2> HIDE DEF W
  <2>4. QED
      BY <1>1, <1>2, <2>1, <2>3
<1>8. ASSUME Exists(p) PROVE StepsLeft(p)' \in Nat /\ StepsLeft(p)' < StepsLeft(p)
  <2>1. StepsLeft(p) = W + 6 /\ pc'[p] \in {"list", "replace"}
      BY <1>8 DEF Exists, StepsLeft, Goto, TypeOK
  <2>2. StepsLeft(p)' \in {W + 5, 3}
      BY <2>1 DEF StepsLeft
  <2> HIDE DEF W
  <2>3. QED
      BY <1>1, <2>1, <2>2
<1>9. ASSUME Rmdir(p) PROVE StepsLeft(p)' \in Nat /\ StepsLeft(p)' < StepsLeft(p)
  <2>1. StepsLeft(p) = 4 + left /\ pc'[p] \in {"broken", "replace"}
      BY <1>9 DEF Rmdir, StepsLeft, Goto, TypeOK
  <2>2. StepsLeft(p)' \in {3, 0}
      BY <2>1 DEF StepsLeft
  <2> HIDE DEF W, left
  <2>3. QED
      BY <1>1, <2>1, <2>2
<1>10. ASSUME Replace(p) \/ Mark(p) \/ Scan(p) PROVE StepsLeft(p)' \in Nat /\ StepsLeft(p)' < StepsLeft(p)
  <2>1. \/ pc[p] = "replace" /\ pc'[p] \in {"mark", "broken"}
        \/ pc[p] = "mark" /\ pc'[p] \in {"ready", "broken"}
        \/ pc[p] = "ready" /\ pc'[p] \in {"done", "broken"}
      BY <1>10 DEF Replace, Mark, Scan, Goto, TypeOK
  <2>2. QED
      BY <2>1 DEF StepsLeft
<1>11. QED
    BY <1>3, <1>4, <1>5, <1>6, <1>7, <1>8, <1>9, <1>10 DEF Work

\* For any number of processes at once, killed anywhere, and any finite bundle:
\* every run that is not killed comes to an end.
THEOREM RunsAdvanceCorrect == ASSUME IsFiniteSet(Packs) PROVE Spec => RunsAdvance
<1>1. TypeOK /\ [Next]_vars =>
         [\A p \in Procs :
             /\ StepsLeft(p) \in Nat
             /\ Work(p) => StepsLeft(p)' < StepsLeft(p)
             /\ pc[p] # "idle" => StepsLeft(p)' <= StepsLeft(p)]_vars
  <2> SUFFICES ASSUME TypeOK, Next, NEW p \in Procs
               PROVE  /\ StepsLeft(p) \in Nat
                      /\ Work(p) => StepsLeft(p)' < StepsLeft(p)
                      /\ pc[p] # "idle" => StepsLeft(p)' <= StepsLeft(p)
      OBVIOUS
  <2>1. StepsLeft(p) \in Nat
    <3>1. /\ Cardinality(Files) \in Nat /\ Cardinality(listing[p]) \in Nat
          /\ Attempts - tries[p] \in Nat /\ Attempts \in Nat
        BY Listings, RulesCacheAssumption DEF TypeOK
    <3>2. QED
        BY <3>1 DEF StepsLeft
  <2>2. Work(p) => StepsLeft(p)' < StepsLeft(p)
      BY WorkAdvances
  <2>3. ASSUME pc[p] # "idle" PROVE StepsLeft(p)' <= StepsLeft(p)
    <3>1. PICK q \in Procs : Begin(q) \/ Work(q) \/ Exit(q)
        BY DEF Next
    <3>2. CASE Work(p)
      <4>1. StepsLeft(p)' \in Nat /\ StepsLeft(p)' < StepsLeft(p)
          BY <3>2, WorkAdvances
      <4>2. QED
          BY <2>1, <4>1
    <3>3. CASE Exit(p)
      <4>1. pc'[p] = "idle"
          BY <3>3 DEF Exit, Goto, TypeOK
      <4>2. StepsLeft(p)' = 0
          BY <4>1 DEF StepsLeft
      <4>3. QED
          BY <2>1, <4>2
    <3>4. CASE q # p
      <4>1. pc'[p] = pc[p] /\ tries'[p] = tries[p] /\ listing'[p] = listing[p]
          BY <3>1, <3>4
          DEF TypeOK, Begin, Work, Exit, Lookup, NetworkError, WrongDigest, Extract, Exists, List,
              Unlink, Rmdir, Replace, Mark, Scan, Goto
      <4>2. StepsLeft(p)' = StepsLeft(p)
          BY <4>1 DEF StepsLeft
      <4>3. QED
          BY <2>1, <4>2
    <3>5. ~Begin(p)
        BY <2>3 DEF Begin
    <3>6. QED
        BY <3>1, <3>2, <3>3, <3>4, <3>5
  <2>4. QED
      BY <2>1, <2>2, <2>3
<1>2. QED
    BY <1>1, RulesTypeCorrect, PTL DEF Spec, RunsAdvance
-----------------------------------------------------------------------------
(* The refinement *)

\* The abstract cache starts where rules_path starts.
LEMMA InitPromise == Init => Promise!Init
  BY DEF Init, Promise!Init, Stored, Told, Marked, There

\* Every step of rules_path is a step of the abstract cache or changes nothing there.
LEMMA StepPromise == Inv /\ [Next]_vars => [Promise!Next]_<<Stored, Told>>
<1> SUFFICES ASSUME Inv, [Next]_vars PROVE [Promise!Next]_<<Stored, Told>>
    OBVIOUS
<1> DEFINE Quiet == Stored' = Stored /\ Told' = Told
<1> USE RulesCacheAssumption DEF Inv, TypeOK, Places, At, Stored, Told, Marked, There, Goto
<1>1. ASSUME NEW p \in Procs, Begin(p) PROVE Promise!Ask(p)
    BY <1>1 DEF Begin, Promise!Ask
<1>2. ASSUME NEW p \in Procs, Lookup(p) PROVE Promise!Give(p) \/ Promise!Refuse(p) \/ Quiet
  <2>1. CASE Marked
      BY <1>2, <2>1 DEF Lookup, Promise!Give
  <2>2. CASE ~Marked /\ p \in Offline
      BY <1>2, <2>2 DEF Lookup, Promise!Refuse
  <2>3. CASE ~Marked /\ p \notin Offline
      BY <1>2, <2>3 DEF Lookup
  <2>4. QED
      BY <2>1, <2>2, <2>3
<1>3. ASSUME NEW p \in Procs, NetworkError(p) PROVE Promise!Refuse(p) \/ Quiet
  <2>1. CASE tries[p] + 1 < Attempts
      BY <1>3, <2>1 DEF NetworkError
  <2>2. CASE ~(tries[p] + 1 < Attempts)
      BY <1>3, <2>2 DEF NetworkError, Promise!Refuse
  <2>3. QED
      BY <2>1, <2>2
<1>4. ASSUME NEW p \in Procs, WrongDigest(p) PROVE Promise!Refuse(p)
    BY <1>4 DEF WrongDigest, Promise!Refuse
<1>5. ASSUME NEW p \in Procs, Extract(p) PROVE Quiet
  <2>1. Stored' = Stored
      BY <1>5 DEF Extract, Unused
  <2>2. Told' = Told
      BY <1>5 DEF Extract
  <2>3. QED
      BY <2>1, <2>2
<1>6. ASSUME NEW p \in Procs, Exists(p) PROVE Quiet
    BY <1>6 DEF Exists
<1>7. ASSUME NEW p \in Procs, List(p) PROVE Quiet
    BY <1>7 DEF List
<1>8. ASSUME NEW p \in Procs, Unlink(p) PROVE Quiet
  <2>1. Stored' = Stored
      BY <1>8, UnlinkAt DEF Unlink
  <2>2. Told' = Told
      BY <1>8 DEF Unlink
  <2>3. QED
      BY <2>1, <2>2
<1>9. ASSUME NEW p \in Procs, Rmdir(p) PROVE Quiet
    BY <1>9 DEF Rmdir
<1>10. ASSUME NEW p \in Procs, Replace(p) PROVE Quiet
  <2>1. ~Marked'
      BY <1>10, ReplaceAt DEF Replace
  <2>2. Told' = Told
      BY <1>10 DEF Replace, Replaceable
  <2>3. QED
      BY <1>10, <2>1, <2>2 DEF Replace
<1>11. ASSUME NEW p \in Procs, Mark(p) PROVE Promise!Give(p)
  <2>1. Marked' /\ pc[p] = "mark" /\ pc' = [pc EXCEPT ![p] = "ready"]
      BY <1>11 DEF Mark, Files
  <2>2. QED
      BY <2>1 DEF Promise!Give
<1>12. ASSUME NEW p \in Procs, Scan(p) PROVE Quiet
    BY <1>12, ScanAt DEF Scan
<1>13. ASSUME NEW p \in Procs, Exit(p) PROVE Promise!Leave(p)
    BY <1>13 DEF Exit, Promise!Leave
<1>14. CASE UNCHANGED vars
    BY <1>14 DEF vars
<1>15. QED
    BY <1>1, <1>2, <1>3, <1>4, <1>5, <1>6, <1>7, <1>8, <1>9, <1>10, <1>11, <1>12, <1>13, <1>14
    DEF Next, Work, Promise!Next

\* One process at a time, rules_path keeps the promise of the abstract cache.
THEOREM RulesImplementPromise == ASSUME Sharing = "alone" PROVE Spec => KeepsPromise
  BY InvAlways, InitPromise, StepPromise, PTL DEF Spec, KeepsPromise, Promise!Spec, Promise!vars
=============================================================================
