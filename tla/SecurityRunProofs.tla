------------------------- MODULE SecurityRunProofs --------------------------
(* The scope and the job.  First ChangedFiles: for any page size and limit, *)
(* any lists and any pushes in between, the scope covers the change.        *)
EXTENDS SecurityRun, CiRunProofs, OverlaysProofs, TLAPS, FiniteSetTheorems

-----------------------------------------------------------------------------
(* Pages *)

\* Pages up to the limit end before the limit of files.
LEMMA PageBound ==
    ASSUME NEW p \in Nat, p + 1 <= MaxPages
    PROVE  /\ p * PerPage \in Nat /\ (p + 1) * PerPage = p * PerPage + PerPage
           /\ (p + 1) * PerPage <= PerPage * MaxPages
<1>1. PerPage \in Nat \ {0} /\ MaxPages \in Nat
    BY ChangedFilesAssumption
<1>2. PICK d \in Nat : MaxPages = p + 1 + d
  <2>1. MaxPages - (p + 1) \in Nat
      BY <1>1
  <2>2. MaxPages = p + 1 + (MaxPages - (p + 1))
      BY <1>1
  <2>3. QED BY <2>1, <2>2
<1>3. /\ p * PerPage \in Nat /\ d * PerPage \in Nat
      /\ (p + 1) * PerPage = p * PerPage + PerPage
      /\ PerPage * MaxPages = (p + 1) * PerPage + d * PerPage
    BY <1>1, <1>2
<1>4. QED BY <1>1, <1>3

\* A page that is not full is the last one.
LEMMA ShortPage ==
    ASSUME listed \in Seq(InSeq(listed)), page \in 0 .. MaxPages - 1, LastPage,
           NEW j \in DOMAIN listed, j > page * PerPage
    PROVE  j \in Batch
<1>1. /\ PerPage \in Nat \ {0} /\ MaxPages \in Nat /\ page \in Nat /\ page + 1 <= MaxPages
      /\ Len(listed) \in Nat /\ DOMAIN listed = 1 .. Len(listed)
    BY ChangedFilesAssumption
<1> DEFINE from == page * PerPage
           to == (page + 1) * PerPage
<1>2. from \in Nat /\ to = from + PerPage /\ to <= PerPage * MaxPages
    BY <1>1, PageBound
<1>3. Batch = {i \in DOMAIN listed : i > from /\ i <= to /\ i <= PerPage * MaxPages}
    BY DEF Batch
<1> HIDE DEF from, to
<1>4. PerPage * MaxPages \in Nat
    BY <1>1
<1>5. ASSUME to <= Len(listed) PROVE FALSE
  <2>1. Batch = from + 1 .. to
    <3>1. \A i \in from + 1 .. to : i \in Batch
        BY <1>1, <1>2, <1>3, <1>4, <1>5
    <3>2. \A i \in Batch : i \in from + 1 .. to
        BY <1>1, <1>2, <1>3, <1>4
    <3>3. QED BY <3>1, <3>2
  <2>2. Cardinality(from + 1 .. to) = to - (from + 1) + 1
      BY <1>1, <1>2, FS_Interval
  <2>3. Cardinality(Batch) = PerPage
      BY <1>1, <1>2, <2>1, <2>2
  <2>4. QED BY <1>1, <2>3 DEF LastPage
<1>6. j <= to
    BY <1>1, <1>2, <1>5
<1>7. QED BY <1>1, <1>2, <1>3, <1>4, <1>6 DEF from
-----------------------------------------------------------------------------
(* The derivation *)

\* Every file that exists is in the list, unless the list has lost its name.
Scoped ==
    \/ scope = "ALL"
    \/ /\ scope = "list"
       /\ \A n \in InSeq(change) \ Deletions :
             \/ n \in files \/ n \in slipped
             \/ n \in Odd \cup Padded /\ Mangled \in files
\* What was read, what is still to be read, and what slipped through in between.
Paging == \A n \in InSeq(change) : n \in files \/ n \in Unread(listed) \/ n \in slipped
DefaultPush == event.kind = "push" /\ env = "unset" /\ PushedDefault
DInv ==
    /\ DeriveTypeOK
    /\ pc \in {"env", "event"} => files = {} /\ page = 0 /\ listed = change
    /\ pc \in {"env", "event", "page", "diff"} => scope = "none"
    /\ pc = "page" => Paging
    /\ pc \in {"write", "read", "done"} => Scoped
    /\ DefaultPush => pc \in {"env", "event"} \/ (scope = "ALL" /\ pc \in {"write", "read", "done"})

LEMMA ListsAreSequences ==
    ASSUME DeriveTypeOK
    PROVE  /\ change \in Seq(InSeq(change)) /\ listed \in Seq(InSeq(listed))
           /\ Mangled \notin InSeq(change) /\ InSeq(listed) \subseteq Names
<1>1. change \in Seq(InSeq(change)) /\ Mangled \notin InSeq(change)
    BY ChangedFilesAssumption DEF DeriveTypeOK
<1>2. CASE listed = change
    BY <1>1, <1>2 DEF Names
<1>3. CASE listed \in PushedLists
  <2>1. PICK push \in Pushes : listed = push[2]
      BY <1>3 DEF PushedLists
  <2>2. push[2] \in Seq(InSeq(push[2]))
      BY ChangedFilesAssumption
  <2>3. InSeq(listed) \subseteq PushedNames
      BY <1>3 DEF PushedNames
  <2>4. QED BY <1>1, <2>1, <2>2, <2>3 DEF Names, InSeq
<1>4. QED BY <1>2, <1>3 DEF DeriveTypeOK

LEMMA DeriveStarts == DeriveInit => DInv
<1> SUFFICES ASSUME DeriveInit PROVE DInv
    OBVIOUS
<1>1. 0 \in 0 .. MaxPages - 1
    BY ChangedFilesAssumption
<1>2. QED BY <1>1 DEF DeriveInit, DInv, DeriveTypeOK

LEMMA FromEnvKeeps == ASSUME DInv, FromEnv PROVE DInv'
<1>1. /\ event' = event /\ env' = env /\ diff' = diff /\ change' = change /\ listed' = listed
      /\ page' = page /\ slipped' = slipped /\ pc = "env" /\ DefaultPush' = DefaultPush /\ Names' = Names
    BY DEF FromEnv, Same, DefaultPush, PushedDefault, FullRefTold, Names, InSeq
<1>2. CASE env = "unset" /\ pc' = "event" /\ UNCHANGED <<files, scope>>
    BY <1>1, <1>2 DEF DInv, DeriveTypeOK
<1>3. CASE Widen
    BY <1>1, <1>3 DEF Widen, DInv, DeriveTypeOK, Scoped
<1>4. CASE /\ env = "list" /\ files' = {Stripped(n) : n \in InSeq(change)}
           /\ scope' = "list" /\ pc' = "write"
  <2>1. \A n \in InSeq(change) : n \in files' \/ (n \in Padded /\ Mangled \in files')
      BY <1>4 DEF Stripped
  <2>2. files' \subseteq Names \cup {Mangled}
      BY <1>4 DEF Stripped, Names
  <2>3. ~DefaultPush
      BY <1>4 DEF DefaultPush
  <2>4. QED BY <1>1, <1>4, <2>1, <2>2, <2>3 DEF DInv, DeriveTypeOK, Scoped
<1>5. QED BY <1>2, <1>3, <1>4 DEF FromEnv

LEMMA FromEventKeeps == ASSUME DInv, FromEvent PROVE DInv'
<1>1. /\ event' = event /\ env' = env /\ diff' = diff /\ change' = change /\ listed' = listed
      /\ page' = page /\ slipped' = slipped /\ pc = "event" /\ DefaultPush' = DefaultPush /\ Names' = Names
    BY DEF FromEvent, Same, DefaultPush, PushedDefault, FullRefTold, Names, InSeq
<1>2. CASE Widen
    BY <1>1, <1>2 DEF Widen, DInv, DeriveTypeOK, Scoped
<1>3. CASE /\ ~(event.kind = "push" /\ PushedDefault)
           /\ pc' \in {"page", "diff"} /\ UNCHANGED <<files, scope>>
  <2>1. Paging
    <3>1. page = 0 /\ PerPage \in Nat
        BY <1>1, ChangedFilesAssumption DEF DInv
    <3>2. listed = change
        BY <1>1 DEF DInv
    <3>3. SUFFICES ASSUME NEW n \in InSeq(change) PROVE n \in Unread(listed)
        BY DEF Paging
    <3>4. PICK i \in DOMAIN change : change[i] = n
        BY DEF InSeq
    <3>5. i \in Nat \ {0}
        BY <3>4, ListsAreSequences DEF DInv
    <3>6. QED BY <3>1, <3>2, <3>4, <3>5 DEF Unread
  <2>2. Paging'
      BY <1>1, <1>3, <2>1 DEF Paging, Unread
  <2>3. QED BY <1>1, <1>3, <2>2 DEF DInv, DeriveTypeOK, DefaultPush
<1>4. Widen \/ (/\ ~(event.kind = "push" /\ PushedDefault)
                /\ pc' \in {"page", "diff"} /\ UNCHANGED <<files, scope>>)
    BY DEF FromEvent
<1>5. QED BY <1>2, <1>3, <1>4

LEMMA PushKeeps == ASSUME DInv, Push PROVE DInv'
<1>1. /\ event' = event /\ env' = env /\ diff' = diff /\ change' = change /\ pc' = pc
      /\ page' = page /\ files' = files /\ scope' = scope /\ pc = "page"
      /\ DefaultPush' = DefaultPush
    BY DEF Push, DefaultPush, PushedDefault, FullRefTold
<1>2. /\ listed' \in PushedLists
      /\ slipped' = slipped \cup (Unread(listed) \ (files \cup Unread(listed')))
    BY DEF Push, PushedLists
<1>3. Unread(listed)' = Unread(listed')
    BY <1>1 DEF Unread
<1>4. Paging'
    BY <1>1, <1>2, <1>3 DEF DInv, Paging
<1>5. DeriveTypeOK'
  <2>1. Unread(listed) \subseteq Names
      BY ListsAreSequences DEF DInv, Unread, InSeq
  <2>2. Names' = Names
      BY <1>1 DEF Names, InSeq
  <2>3. QED BY <1>1, <1>2, <2>1, <2>2 DEF DInv, DeriveTypeOK
<1>6. QED BY <1>1, <1>4, <1>5 DEF DInv

LEMMA FailPageKeeps == ASSUME DInv, FailPage PROVE DInv'
<1>1. /\ event' = event /\ env' = env /\ diff' = diff /\ change' = change /\ listed' = change
      /\ page' = page /\ scope' = scope /\ files' = {} /\ slipped' = {} /\ pc = "page" /\ pc' = "diff"
      /\ DefaultPush' = DefaultPush
    BY DEF FailPage, LeavesPages, DefaultPush, PushedDefault, FullRefTold
<1>2. QED BY <1>1 DEF DInv, DeriveTypeOK, Names, InSeq

LEMMA ReadPageKeeps == ASSUME DInv, ReadPage PROVE DInv'
<1>1. /\ event' = event /\ env' = env /\ diff' = diff /\ change' = change
      /\ listed' \in {listed, change}
      /\ pc = "page" /\ DefaultPush' = DefaultPush /\ ~DefaultPush /\ Names' = Names
    BY DEF ReadPage, Same, LeavesPages, DInv, DefaultPush, PushedDefault, FullRefTold, Names, InSeq
<1>2. /\ listed \in Seq(InSeq(listed)) /\ page \in 0 .. MaxPages - 1 /\ scope = "none" /\ Paging
      /\ PerPage \in Nat \ {0} /\ MaxPages \in Nat \ {0}
    BY <1>1, ListsAreSequences, ChangedFilesAssumption DEF DInv, DeriveTypeOK
<1>3. Batch \subseteq DOMAIN listed /\ {listed[i] : i \in Batch} \subseteq Names
    BY ListsAreSequences DEF DInv, Batch, InSeq
<1>4. CASE /\ LastPage /\ files' = files \cup {listed[i] : i \in Batch}
           /\ scope' = "list" /\ pc' = "write" /\ UNCHANGED <<page, slipped>>
  <2>1. ASSUME NEW n \in InSeq(change) PROVE n \in files' \/ n \in slipped
    <3>1. CASE n \in files \/ n \in slipped
        BY <1>4, <3>1
    <3>2. CASE n \in Unread(listed)
      <4>1. PICK j \in DOMAIN listed : j > page * PerPage /\ listed[j] = n
          BY <3>2 DEF Unread
      <4>2. j \in Batch
          BY <1>2, <1>4, <4>1, ShortPage
      <4>3. QED BY <1>4, <4>1, <4>2
    <3>3. QED BY <1>2, <3>1, <3>2 DEF Paging
  <2>2. Scoped'
      BY <1>1, <1>4, <2>1 DEF Scoped
  <2>3. DeriveTypeOK'
      BY <1>1, <1>3, <1>4 DEF DInv, DeriveTypeOK
  <2>4. QED BY <1>1, <1>4, <2>2, <2>3 DEF DInv
<1>5. CASE /\ ~LastPage /\ ~TooMany /\ files' = files \cup {listed[i] : i \in Batch}
           /\ page' = NextPage /\ UNCHANGED <<scope, pc, slipped>> /\ listed' = listed
  <2>1. page \in Nat /\ page' = page + 1 /\ page' \in 0 .. MaxPages - 1 /\ page + 1 <= MaxPages
      BY <1>2, <1>5 DEF TooMany, NextPage
  <2>2. /\ page * PerPage \in Nat /\ page' * PerPage = page * PerPage + PerPage
        /\ page' * PerPage <= PerPage * MaxPages /\ PerPage * MaxPages \in Nat
      BY <1>2, <2>1, PageBound
  <2>3. ASSUME NEW n \in Unread(listed) PROVE n \in files' \/ n \in Unread(listed)'
    <3>1. PICK j \in DOMAIN listed : j > page * PerPage /\ listed[j] = n
        BY <2>3 DEF Unread
    <3>2. j \in Nat
        BY <1>2
    <3>3. CASE j > page' * PerPage
        BY <1>5, <3>1, <3>3 DEF Unread
    <3>4. CASE ~(j > page' * PerPage)
      <4>1. j <= (page + 1) * PerPage /\ j <= PerPage * MaxPages
          BY <1>2, <2>1, <2>2, <3>2, <3>4
      <4>2. j \in Batch
          BY <3>1, <4>1 DEF Batch
      <4>3. QED BY <1>5, <3>1, <4>2
    <3>5. QED BY <3>3, <3>4
  <2>4. Paging'
      BY <1>1, <1>2, <1>5, <2>3 DEF Paging
  <2>5. DeriveTypeOK'
      BY <1>1, <1>3, <1>5, <2>1 DEF DInv, DeriveTypeOK
  <2>6. QED BY <1>1, <1>2, <1>5, <2>4, <2>5 DEF DInv
<1>6. CASE /\ ~LastPage /\ TooMany /\ files' = {} /\ slipped' = {} /\ pc' = "diff"
           /\ UNCHANGED <<scope, page>>
    BY <1>1, <1>6 DEF DInv, DeriveTypeOK
<1>7. QED BY <1>4, <1>5, <1>6 DEF ReadPage, Same

LEMMA GitDiffKeeps == ASSUME DInv, GitDiff PROVE DInv'
<1>1. /\ event' = event /\ env' = env /\ diff' = diff /\ change' = change /\ listed' = listed
      /\ page' = page /\ slipped' = slipped /\ pc = "diff" /\ DefaultPush' = DefaultPush
      /\ ~DefaultPush /\ Names' = Names
    BY DEF GitDiff, Same, DInv, DefaultPush, PushedDefault, FullRefTold, Names, InSeq
<1>2. CASE Widen
    BY <1>1, <1>2 DEF Widen, DInv, DeriveTypeOK, Scoped
<1>3. CASE /\ files' = {Quoted(n) : n \in InSeq(change) \ Deletions}
           /\ scope' = "list" /\ pc' = "write"
  <2>1. \A n \in InSeq(change) \ Deletions : n \in files' \/ (n \in Odd /\ Mangled \in files')
      BY <1>3 DEF Quoted
  <2>2. files' \subseteq Names \cup {Mangled}
      BY <1>3 DEF Quoted, Names
  <2>3. QED BY <1>1, <1>3, <2>1, <2>2 DEF DInv, DeriveTypeOK, Scoped
<1>4. QED BY <1>2, <1>3 DEF GitDiff

LEMMA ListFileKeeps == ASSUME DInv, WriteList \/ ReadList PROVE DInv'
<1>1. /\ event' = event /\ env' = env /\ diff' = diff /\ change' = change /\ listed' = listed
      /\ page' = page /\ slipped' = slipped /\ scope' = scope /\ DefaultPush' = DefaultPush
      /\ pc \in {"write", "read"} /\ pc' \in {"read", "done"} /\ Names' = Names
    BY DEF WriteList, ReadList, Same, DefaultPush, PushedDefault, FullRefTold, Names, InSeq
<1>2. Scoped /\ DeriveTypeOK
    BY <1>1 DEF DInv
<1>3. CASE files' = files
    BY <1>1, <1>2, <1>3 DEF DInv, Scoped, DeriveTypeOK
<1>4. CASE files' = {Stripped(n) : n \in files}
  <2>1. \A n \in files : n \in files' \/ (n \in Padded /\ Mangled \in files')
      BY <1>4 DEF Stripped
  <2>2. Mangled \in files => Mangled \in files'
      BY <2>1
  <2>3. files' \subseteq files \cup {Mangled}
      BY <1>4 DEF Stripped
  <2>4. Scoped'
      BY <1>1, <1>2, <2>1, <2>2 DEF Scoped
  <2>5. DeriveTypeOK'
      BY <1>1, <1>2, <2>3 DEF DeriveTypeOK
  <2>6. QED BY <1>1, <2>4, <2>5 DEF DInv
<1>5. QED BY <1>3, <1>4 DEF WriteList, ReadList

LEMMA DeriveKeeps == ASSUME DInv, [DeriveNext]_derivation PROVE DInv'
<1>1. CASE UNCHANGED derivation
  <2>1. /\ UNCHANGED <<event, env, diff, change, listed, pc, page, files, scope, slipped>>
        /\ Names' = Names /\ Unread(listed)' = Unread(listed) /\ DefaultPush' = DefaultPush
      BY <1>1 DEF derivation, Names, InSeq, Unread, DefaultPush, PushedDefault, FullRefTold
  <2>2. QED BY <2>1 DEF DInv, DeriveTypeOK, Scoped, Paging
<1>2. CASE DeriveNext
    BY <1>2, FromEnvKeeps, FromEventKeeps, PushKeeps, FailPageKeeps, ReadPageKeeps, GitDiffKeeps,
       ListFileKeeps DEF DeriveNext, Work
<1>3. QED BY <1>1, <1>2

LEMMA Derived == DeriveSpec => []DInv
  BY DeriveStarts, DeriveKeeps, PTL DEF DeriveSpec

\* The derivation stays within its payloads, pages and names.
THEOREM DeriveTypeCorrect == DeriveSpec => []DeriveTypeOK
<1>1. DInv => DeriveTypeOK
    BY DEF DInv
<1>2. QED BY <1>1, Derived, PTL

\* For any page size and limit, lists of any length, any page that fails and any
\* pushes meanwhile: the scope covers the change but for what it says itself that it
\* may lose (changed.py fails closed).
THEOREM CoversTheChangeCorrect == DeriveSpec => []CoversTheChange
<1>1. DInv => CoversTheChange
    BY ListsAreSequences DEF DInv, Scoped, CoversTheChange, Lost, ListedFiles
<1>2. QED BY <1>1, Derived, PTL

\* A push only adds files: it moves a file to a later place, if at all.
OnlyAdds ==
    \A push \in Pushes : \A i \in DOMAIN push[1] : \E j \in DOMAIN push[2] :
        j >= i /\ push[2][j] = push[1][i]
NothingSlips == slipped = {}

\* A file slips through only when a push takes one out: while pushes only add files,
\* at whatever place of the list and however many, no file is missed.
THEOREM AddingLosesNothing ==
    ASSUME OnlyAdds
    PROVE  DeriveSpec => []NothingSlips
<1>1. DeriveInit => NothingSlips
    BY DEF DeriveInit, NothingSlips
<1>2. DInv /\ NothingSlips /\ [DeriveNext]_derivation => NothingSlips'
  <2>1. SUFFICES ASSUME DInv, NothingSlips, [DeriveNext]_derivation PROVE NothingSlips'
      OBVIOUS
  <2>2. CASE Push
    <3>1. PICK push \in Pushes : push[1] = listed /\ listed' = push[2]
        BY <2>2 DEF Push
    <3>2. listed \in Seq(InSeq(listed)) /\ push[2] \in Seq(InSeq(push[2]))
        BY <2>1, ListsAreSequences, ChangedFilesAssumption DEF DInv
    <3>3. page * PerPage \in Nat
      <4>1. page \in Nat /\ PerPage \in Nat
          BY <2>1, ChangedFilesAssumption DEF DInv, DeriveTypeOK
      <4>2. QED BY <4>1
    <3>4. ASSUME NEW n \in Unread(listed) PROVE n \in Unread(listed')
      <4>1. PICK i \in DOMAIN listed : i > page * PerPage /\ listed[i] = n
          BY <3>4 DEF Unread
      <4>2. PICK j \in DOMAIN push[2] : j >= i /\ push[2][j] = n
          BY <3>1, <4>1 DEF OnlyAdds
      <4>3. i \in Nat /\ j \in Nat
          BY <3>2
      <4>4. j > page * PerPage
          BY <3>3, <4>1, <4>2, <4>3
      <4>5. QED BY <3>1, <4>2, <4>4 DEF Unread
    <3>5. QED BY <2>1, <2>2, <3>4 DEF Push, NothingSlips
  <2>3. CASE Work
      BY <2>1, <2>3 DEF Work, FromEnv, FromEvent, ReadPage, FailPage, GitDiff, WriteList, ReadList,
                        Widen, NothingSlips
  <2>4. CASE UNCHANGED derivation
      BY <2>1, <2>4 DEF derivation, NothingSlips
  <2>5. QED BY <2>1, <2>2, <2>3, <2>4 DEF DeriveNext
<1>3. QED BY <1>1, <1>2, Derived, PTL DEF DeriveSpec
-----------------------------------------------------------------------------
(* The job: what the scan is given is what was derived *)

LEMMA FilesAreKnown == ASSUME DeriveTypeOK PROVE files \subseteq Files /\ InSeq(change) \subseteq Files
<1>1. PushedNames \subseteq Files
    BY SecurityRunAssumption DEF PushedNames, PushedLists
<1>2. QED BY <1>1, SecurityRunAssumption DEF DeriveTypeOK, Names

\* A step of the job is a step of each of its parts, or leaves it alone.
LEMMA StepOfEach ==
    ASSUME DInv, [Next]_runVars
    PROVE  [DeriveNext]_derivation /\ [CiNext]_ciVars /\ [OverlayNext]_overlayVars
<1>1. CASE DeriveChangedFiles
    BY <1>1 DEF DeriveChangedFiles
<1>2. CASE ResolveOverlay
    BY <1>2 DEF ResolveOverlay
<1>3. CASE UploadOpengrep
    BY <1>3 DEF UploadOpengrep
<1>4. CASE ScanAndGate
  <2>1. UNCHANGED <<derivation, overlayVars>>
      BY <1>4 DEF ScanAndGate
  <2>2. CASE pc = "done" /\ StartCi(scope, files)
    <3>1. scope \in {"ALL", "list"} /\ files \in SUBSET Files
        BY <2>2, FilesAreKnown DEF DInv, Scoped
    <3>2. QED BY <2>1, <2>2, <3>1 DEF CiNext
  <2>3. CASE StartHook(InSeq(change))
    <3>1. InSeq(change) \in SUBSET Files
        BY FilesAreKnown DEF DInv
    <3>2. QED BY <2>1, <2>3, <3>1 DEF CiNext
  <2>4. CASE CiStep
      BY <2>1, <2>4 DEF CiNext
  <2>5. QED BY <1>4, <2>2, <2>3, <2>4 DEF ScanAndGate
<1>5. CASE UNCHANGED runVars
    BY <1>5 DEF runVars
<1>6. QED BY <1>1, <1>2, <1>3, <1>4, <1>5 DEF Next

\* The scan is about the derived scope, a hook about the files of the change;
\* what was uploaded is the report the outputs name.
Linked ==
    /\ at # "idle" /\ args.command = "ci" => pc = "done" /\ scoping = ForcedScope(scope) /\ named = files
    /\ at # "idle" /\ args.command = "hook" =>
          scoping = "ALL" \/ (named = InSeq(change) /\ args.tools \subseteq {"gitleaks", "opengrep"})
    /\ alerts # << >> => /\ at = "ended" /\ outputs = "written" /\ judged["opengrep"] # "none"
                         /\ alerts = NamedSarif

\* The steps of the scanners, but the first.
LEMMA CiStepsLeave ==
    ASSUME CiStep PROVE at \notin {"idle", "ended"} /\ at' # "idle" /\ UNCHANGED <<args, scan>>
<1>1. CASE \E t \in Tools : Skip(t)
    BY <1>1 DEF Skip, After, Tools, world
<1>2. CASE \E t \in Tools : MeasureOne(t)
    BY <1>2 DEF MeasureOne
<1>3. CASE ScanGitleaks \/ ScanOsv \/ ScanTrivy
    BY <1>3 DEF ScanGitleaks, ScanOsv, ScanTrivy, ScanTree, After, world
<1>4. CASE ScanOpengrep \/ DemoteReport \/ ParseReport \/ CopyReport \/ DropFromCopy
    BY <1>4 DEF ScanOpengrep, DemoteReport, ParseReport, CopyReport, DropFromCopy, world
<1>5. CASE Fail \/ Crash \/ Interrupt \/ Conclude \/ Measured \/ WriteOutputs
    BY <1>5 DEF Fail, Crash, Interrupt, Conclude, Measured, WriteOutputs, End, Tools, world
<1>6. QED BY <1>1, <1>2, <1>3, <1>4, <1>5 DEF CiStep

LEMMA LinkedKeeps == ASSUME DInv, Linked, [Next]_runVars PROVE Linked'
<1>1. CASE DeriveChangedFiles
  <2>1. /\ at' = at /\ args' = args /\ scoping' = scoping /\ named' = named /\ outputs' = outputs
        /\ judged' = judged /\ alerts' = alerts /\ sarif' = sarif /\ copy' = copy
        /\ args.command = "ci"
      BY <1>1 DEF DeriveChangedFiles, ciVars, world, scan, results, reports, ending
  <2>2. pc # "done"
      BY <1>1 DEF DeriveChangedFiles, DeriveNext, Work, FromEnv, FromEvent, ReadPage, FailPage,
                  GitDiff, WriteList, ReadList, Push
  <2>3. QED BY <2>1, <2>2 DEF Linked, NamedSarif
<1>2. CASE ResolveOverlay \/ UNCHANGED runVars
    BY <1>2 DEF ResolveOverlay, runVars, derivation, ciVars, world, scan, results, reports, ending,
                Linked, NamedSarif, ForcedScope
<1>3. CASE UploadOpengrep
    BY <1>3 DEF UploadOpengrep, derivation, ciVars, world, scan, results, reports, ending,
                Linked, NamedSarif, ForcedScope
<1>4. CASE ScanAndGate
  <2>1. alerts' = alerts /\ pc' = pc /\ scope' = scope /\ files' = files /\ change' = change
      BY <1>4 DEF ScanAndGate, derivation
  <2>2. CASE CiStep
    <3>1. /\ at \notin {"idle", "ended"} /\ args' = args /\ scoping' = scoping /\ named' = named
        BY <2>2, CiStepsLeave DEF scan
    <3>2. QED BY <2>1, <3>1 DEF Linked, ForcedScope
  <2>3. CASE pc = "done" /\ StartCi(scope, files)
      BY <2>1, <2>3 DEF StartCi, Start, world, Linked, ForcedScope
  <2>4. CASE StartHook(InSeq(change))
    <3>1. /\ args.command = "hook" /\ args' = args /\ at = "idle"
          /\ scoping' = "ALL" \/ (named' = InSeq(change) /\ args.tools \subseteq {"gitleaks", "opengrep"})
      <4>1. args.measure # "yes" \/ ForcedScope("ALL") = "ALL"
          BY DEF ForcedScope
      <4>2. QED BY <2>4, <4>1 DEF StartHook, Start, world, ForcedScope
    <3>2. QED BY <2>1, <3>1 DEF Linked, InSeq
  <2>5. QED BY <1>4, <2>2, <2>3, <2>4 DEF ScanAndGate
<1>5. QED BY <1>1, <1>2, <1>3, <1>4 DEF Next

LEMMA RunInvariant == Spec => [](DInv /\ IInv /\ Handed /\ Linked)
<1>1. Init => DInv /\ IInv /\ Handed /\ Linked
  <2>1. SUFFICES ASSUME Init PROVE DInv /\ IInv /\ Handed /\ Linked
      OBVIOUS
  <2>2. Linked
      BY <2>1 DEF Init, CiInit, Fresh, Linked
  <2>3. QED BY <2>1, <2>2, DeriveStarts, Starts, HandedStarts DEF Init
<1>2. DInv /\ IInv /\ Handed /\ Linked /\ [Next]_runVars => (DInv /\ IInv /\ Handed /\ Linked)'
    BY StepOfEach, DeriveKeeps, Preserved, StutterKeeps, HandedKeeps, HandedStutters, LinkedKeeps
<1>3. QED BY <1>1, <1>2, PTL DEF Spec

\* The job implements each of its parts: what is proved of the derivation, of the
\* scan and of the overlays for every run of theirs holds in the job.
THEOREM EachPart == Spec => DeriveSpec /\ CiSpec /\ OverlaySpec
<1>1. Init => DeriveInit /\ CiInit /\ OverlayInit
    BY DEF Init
<1>2. DInv /\ [Next]_runVars => [DeriveNext]_derivation /\ [CiNext]_ciVars /\ [OverlayNext]_overlayVars
    BY StepOfEach
<1>3. QED BY <1>1, <1>2, RunInvariant, PTL DEF Spec, DeriveSpec, CiSpec, OverlaySpec
-----------------------------------------------------------------------------
(* The job: its verdict and its upload are about the change *)

\* A severe finding in a reported file is the scanner's to find.
LEMMA ScannersReach ==
    ASSUME DInv, Types, Linked, at # "idle", args.measure = "no",
           NEW t \in args.tools, NEW f \in tree[t], f \in Reported, Reads(t, f[1])
    PROVE  t \in Tools /\ Runs(t) /\ f \in Hits(t)
<1>1. t \in Tools /\ args.command \in {"ci", "hook"}
    BY DEF Types, Args
<1>2. CASE scoping = "ALL"
    BY <1>1, <1>2, FullScan DEF Runs
<1>3. CASE scoping # "ALL" /\ args.command = "ci"
  <2>1. pc = "done" /\ scope # "ALL" /\ named = files
      BY <1>3 DEF Linked, ForcedScope
  <2>2. CoversTheChange
      BY ListsAreSequences DEF DInv, Scoped, CoversTheChange, Lost, ListedFiles
  <2>3. f[1] \in InSeq(change) \ Deletions /\ f[1] \notin Missing /\ ~Lost(f[1]) /\ f[1] \notin slipped
    <3>1. scope = "list"
        BY <2>1 DEF DInv, Scoped
    <3>2. QED BY <3>1, SecurityRunAssumption DEF Reported
  <2>4. f[1] \in named \ Missing
      BY <2>1, <2>2, <2>3 DEF CoversTheChange, ListedFiles
  <2>5. CASE t = "gitleaks"
      BY <1>1, <1>3, <2>5 DEF Runs, InScope, Hits, Narrowed
  <2>6. CASE t = "opengrep" /\ f[1] \in Scannable
    <3>1. f[1] \in Targets
        BY <1>3, <2>4, <2>6 DEF Targets
    <3>2. QED BY <2>6, <3>1 DEF Runs, InScope, Hits, Tools
  <2>7. CASE t = "osv" /\ f[1] \in Manifests
      BY <2>4, <2>7 DEF Runs, InScope, Matches, Hits, Narrowed, Tools
  <2>8. CASE t = "trivy" /\ f[1] \in Iac
      BY <2>4, <2>8 DEF Runs, InScope, Matches, Hits, Narrowed, Tools
  <2>9. QED BY <2>5, <2>6, <2>7, <2>8 DEF Reads
<1>4. CASE scoping # "ALL" /\ args.command = "hook"
  <2>1. named = InSeq(change) /\ t \in {"gitleaks", "opengrep"}
      BY <1>4 DEF Linked
  <2>2. f[1] \in Targets
      BY <1>4, <2>1 DEF Targets, Reported
  <2>3. QED BY <1>1, <2>1, <2>2 DEF Runs, InScope, Hits
<1>5. QED BY <1>1, <1>2, <1>3, <1>4

\* A green verdict leaves no severe finding without a baseline line.
LEMMA GreenMeansNoneNew ==
    ASSUME NEW t, NEW file, NEW S, NEW hits, Verdict(t, "ratchet", file, S, hits) = "green",
           NEW f \in Severe(t, S, hits)
    PROVE  LET baseline == BaselineOf(t, "ratchet", file)
           IN  baseline = NoBaseline \/ KeyOf(t, f) \in baseline
  BY DEF Verdict, New

\* For any change, page size, events, faults, rules, tools and baselines, in CI or
\* in a hook: a green check in ratchet mode leaves no severe finding that is not
\* baselined in a file of the change a scanner reads.
THEOREM GreenCoversTheChangeCorrect == Spec => []GreenCoversTheChange
<1>1. DInv /\ IInv /\ Handed /\ Linked => GreenCoversTheChange
  <2>1. SUFFICES ASSUME DInv, IInv, Handed, Linked, at = "ended", exit = "0",
                        args.mode = "ratchet", args.measure = "no", NEW t \in args.tools,
                        NEW f \in Severe(t, severe, tree[t]) \cap Reported, Reads(t, f[1])
                 PROVE  LET baseline == BaselineOf(t, args.mode, baselines[t])
                        IN  baseline = NoBaseline \/ KeyOf(t, f) \in baseline
      BY DEF GreenCoversTheChange
  <2>2. f \in tree[t]
      BY DEF Severe
  <2>3. t \in Tools /\ Runs(t) /\ f \in Hits(t)
      BY <2>1, <2>2, ScannersReach DEF IInv
  <2>4. f \in Severe(t, severe, Hits(t))
      BY <2>3 DEF Severe
  <2>5. judged[t] = "green"
      BY <2>1, <2>3 DEF Handed, Green
  <2>6. measured = {}
      BY <2>1 DEF IInv, MeasureInv
  <2>7. Verdict(t, args.mode, baselines[t], severe, Hits(t)) = "green"
      BY <2>1, <2>3, <2>5, <2>6 DEF IInv, JudgedInv
  <2>8. QED BY <2>1, <2>4, <2>7, GreenMeansNoneNew
<1>2. QED BY <1>1, RunInvariant, PTL

\* What was uploaded: the rewritten report, cut unless the audit is asked for.
LEMMA Uploaded ==
    ASSUME IInv, Handed, Linked, alerts # << >>
    PROVE  /\ {f \in Hits("opengrep") : f[2] \notin Audit} \subseteq FoundIn(alerts[1])
           /\ \A x \in alerts[1].results :
                 Rule(x) \in Audit => args.audit = "upload" /\ LevelIn(alerts[1], x) # "error"
<1>1. /\ outputs = "written" /\ judged["opengrep"] # "none" /\ alerts = NamedSarif
      /\ args.command = "ci" /\ args.audit \in {"drop", "upload"}
    BY DEF Linked, Handed, IInv, Types, Args
<1>2. PICK explicit \in SUBSET Hits("opengrep") :
           sarif = <<Demote(Written(severe, Hits("opengrep"), explicit))>>
    BY <1>1 DEF Handed, Kept
<1> DEFINE D == Demote(Written(severe, Hits("opengrep"), explicit))
<1>3. Hits("opengrep") \in SUBSET Findings
    BY HitsType DEF IInv, Tools
<1>4. /\ FoundIn(D) = Hits("opengrep")
      /\ \A x \in D.results : Rule(x) \in Audit => LevelIn(D, x) # "error"
    BY <1>3, BlockingIsSevere
<1>5. sarif[1] = D
    BY <1>2
<1> HIDE DEF D
<1>6. CASE args.audit = "upload"
  <2>1. alerts[1] = D
      BY <1>1, <1>5, <1>6 DEF NamedSarif
  <2>2. QED BY <1>4, <1>6, <2>1
<1>7. CASE args.audit = "drop"
  <2>1. alerts[1] = DropAudit(D)
      BY <1>1, <1>5, <1>7 DEF NamedSarif, Handed, Cut
  <2>2. DropAudit(D).results = {x \in D.results : Rule(x) \notin Audit}
      BY DEF DropAudit
  <2>3. ASSUME NEW f \in Hits("opengrep"), f[2] \notin Audit PROVE f \in FoundIn(DropAudit(D))
    <3>1. PICK x \in D.results : x[1] = f
        BY <1>4 DEF FoundIn
    <3>2. Rule(x) \notin Audit
        BY <2>3, <3>1 DEF Rule
    <3>3. QED BY <2>2, <3>1, <3>2 DEF FoundIn
  <2>4. QED BY <2>1, <2>2, <2>3
<1>8. QED BY <1>1, <1>6, <1>7

\* For any scope, rules and levels: what turned the check red is uploaded, and a
\* hint of an audit rule only when asked for, never as an error.
THEOREM AlertsMatchTheVerdictCorrect == Spec => []AlertsMatchTheVerdict
<1>1. IInv /\ Handed /\ Linked => AlertsMatchTheVerdict
  <2>1. SUFFICES ASSUME IInv, Handed, Linked, alerts # << >> PROVE AlertsMatchTheVerdict
      BY DEF AlertsMatchTheVerdict
  <2>2. Severe("opengrep", severe, Hits("opengrep")) \subseteq {f \in Hits("opengrep") : f[2] \notin Audit}
      BY DEF Severe
  <2>3. QED BY <2>1, <2>2, Uploaded DEF AlertsMatchTheVerdict
<1>2. QED BY <1>1, RunInvariant, PTL

\* For any payload of a push to the default branch: the upload names every finding
\* of the tree that is no audit hint, so that code scanning closes none of them.
THEOREM DefaultUploadIsFullCorrect == Spec => []DefaultUploadIsFull
<1>1. DInv /\ IInv /\ Handed /\ Linked => DefaultUploadIsFull
  <2>1. SUFFICES ASSUME DInv, IInv, Handed, Linked, alerts # << >>, DefaultPush
                 PROVE  {f \in tree["opengrep"] : f[2] \notin Audit} \subseteq FoundIn(alerts[1])
    <3>1. SUFFICES ASSUME event.kind = "push", env = "unset", event.pushed = DefaultRef,
                          event.default = "named",
                          event.tells \cap {"GITHUB_REF", "ref", "GITHUB_REF_NAME"} # {}
                   PROVE  DefaultPush
        BY DEF DefaultUploadIsFull
    <3>2. event.pushed.name = "default" /\ event.pushed.type # "tag"
        BY <3>1 DEF DefaultRef
    <3>3. QED BY <3>1, <3>2 DEF DefaultPush, PushedDefault, FullRefTold
  <2>2. at = "ended" /\ args.command = "ci"
      BY <2>1 DEF Linked, Handed
  <2>3. pc = "done" /\ scoping = ForcedScope(scope)
      BY <2>1, <2>2 DEF Linked
  <2>4. scope = "ALL"
      BY <2>1, <2>3 DEF DInv
  <2>5. Hits("opengrep") = tree["opengrep"]
      BY <2>1, <2>3, <2>4, FullScan DEF ForcedScope, IInv, Tools
  <2>6. QED BY <2>1, <2>5, Uploaded
<1>2. QED BY <1>1, RunInvariant, PTL

\* Every state of the job is well typed.
THEOREM RunTypeCorrect == Spec => []TypeOK
  BY EachPart, DeriveTypeCorrect, CiTypeCorrect, OverlayTypeCorrect, PTL DEF TypeOK
=============================================================================
