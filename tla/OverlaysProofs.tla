--------------------------- MODULE OverlaysProofs ---------------------------
(* For every file of overlays: what resolve_overlay returns is exactly what *)
(* the overlay stands for.  The invariant says of each overlay that was     *)
(* entered that it is either still on the stack, how far its frame has got, *)
(* or that everything it declares has been collected.  Circles end too:     *)
(* each step of visit leaves fewer positions to come to.                    *)
EXTENDS Overlays, TLAPS, FiniteSetTheorems

\* Everything n declares is there: its parents entered, its entries collected.
List(file, n, field) == file[n].list[field]
Settled(file, n, s, l) ==
    /\ OneOf(List(file, n, "extends")) \subseteq s
    /\ \A field \in Collected : OneOf(List(file, n, field)) \subseteq OneOf(l[field])

\* How far a frame has got.
Passed(list, next, items) == \A j \in DOMAIN list : j < next => list[j] \in items
Progress(file, f, s, l) ==
    /\ f.overlay \in s
    /\ f.field = "extends" => Passed(List(file, f.overlay, "extends"), f.next, s)
    /\ f.field # "extends" => OneOf(List(file, f.overlay, "extends")) \subseteq s
    /\ f.field # "extends" => Passed(List(file, f.overlay, f.field), f.next, OneOf(l[f.field]))
    /\ f.field = "exclude_rules" =>
          OneOf(List(file, f.overlay, "packs")) \subseteq OneOf(l["packs"])

Frames == [overlay : Known, field : Fields, next : Nat \ {0}]
FramesInv == \A i \in DOMAIN stack : Progress(shape, stack[i], seen, lists)
SeenInv == \A n \in seen : OnStack(n) \/ Settled(shape, n, seen, lists)
NothingElse == \A field \in Collected : \A e \in OneOf(lists[field]) :
                   \E n \in seen : e \in OneOf(Entries(n, field))
Least == \A names \in SUBSET Known : asked \in names /\ Closed(names) => seen \subseteq names
Ends == /\ resolved = "done" => stack = << >> /\ seen # {}
        /\ seen # {} => asked \in seen
        /\ seen = {} => stack = << >>
OInv ==
    /\ shape \in Shapes /\ OverlayTypeOK
    /\ FramesInv /\ SeenInv /\ NothingElse /\ Least /\ Ends
-----------------------------------------------------------------------------
\* The fields of a known overlay are sequences.
LEMMA EntriesAreSequences ==
    ASSUME shape \in Shapes, NEW n \in Known, NEW field \in Fields
    PROVE  /\ Len(Entries(n, field)) \in Nat
           /\ DOMAIN Entries(n, field) = 1 .. Len(Entries(n, field))
<1>1. Entries(n, field) \in Seq(OneOf(Entries(n, field)))
    BY OverlaysAssumption DEF Known, Entries
<1>2. QED BY <1>1

\* A pack or rule joins the others, once.
LEMMA AddedOne ==
    ASSUME NEW S, NEW list \in Seq(S), NEW entry \in S
    PROVE  /\ Added(list, entry) \in Seq(S)
           /\ OneOf(Added(list, entry)) = OneOf(list) \cup {entry}
<1>1. CASE entry \in OneOf(list)
    BY <1>1 DEF Added
<1>2. CASE entry \notin OneOf(list)
  <2>1. Added(list, entry) = Append(list, entry)
      BY <1>2 DEF Added
  <2>2. DOMAIN list = 1 .. Len(list) /\ Len(list) \in Nat
      OBVIOUS
  <2>3. /\ Append(list, entry) \in Seq(S)
        /\ DOMAIN Append(list, entry) = 1 .. Len(list) + 1
        /\ \A i \in 1 .. Len(list) : Append(list, entry)[i] = list[i]
        /\ Append(list, entry)[Len(list) + 1] = entry
      BY <2>2
  <2>4. OneOf(Append(list, entry)) = OneOf(list) \cup {entry}
    <3>1. ASSUME NEW e \in OneOf(Append(list, entry)) PROVE e \in OneOf(list) \cup {entry}
      <4>1. PICK i \in 1 .. Len(list) + 1 : e = Append(list, entry)[i]
          BY <2>3 DEF OneOf
      <4>2. i \in 1 .. Len(list) \/ i = Len(list) + 1
          BY <2>2, <4>1
      <4>3. QED BY <2>2, <2>3, <4>1, <4>2 DEF OneOf
    <3>2. ASSUME NEW e \in OneOf(list) PROVE e \in OneOf(Append(list, entry))
      <4>1. PICK i \in 1 .. Len(list) : e = list[i]
          BY <2>2 DEF OneOf
      <4>2. i \in 1 .. Len(list) + 1 /\ e = Append(list, entry)[i]
          BY <2>2, <2>3, <4>1
      <4>3. QED BY <2>3, <4>2 DEF OneOf
    <3>3. entry \in OneOf(Append(list, entry))
        BY <2>2, <2>3 DEF OneOf
    <3>4. QED BY <3>1, <3>2, <3>3
  <2>5. QED BY <2>1, <2>3, <2>4
<1>3. QED BY <1>1, <1>2

\* The stack without its top, and with another top.
LEMMA StackShape ==
    ASSUME NEW S, stack \in Seq(S), stack # << >>
    PROVE  /\ Len(stack) \in Nat \ {0} /\ DOMAIN stack = 1 .. Len(stack)
           /\ Top \in S
           /\ Below \in Seq(S) /\ Len(Below) = Len(stack) - 1
           /\ DOMAIN Below = 1 .. Len(stack) - 1
           /\ \A i \in 1 .. Len(stack) - 1 : Below[i] = stack[i]
<1>1. Len(stack) \in Nat \ {0} /\ DOMAIN stack = 1 .. Len(stack)
    OBVIOUS
<1>2. Top \in S
    BY <1>1 DEF Top
<1>3. /\ Below \in Seq(S) /\ Len(Below) = Len(stack) - 1
      /\ DOMAIN Below = 1 .. Len(stack) - 1
      /\ \A i \in 1 .. Len(stack) - 1 : Below[i] = stack[i]
    BY <1>1 DEF Below
<1>4. QED BY <1>1, <1>2, <1>3

LEMMA StackReplaced ==
    ASSUME NEW S, stack \in Seq(S), stack # << >>, NEW f \in S
    PROVE  /\ Append(Below, f) \in Seq(S) /\ Append(Below, f) # << >>
           /\ DOMAIN Append(Below, f) = 1 .. Len(stack)
           /\ \A i \in 1 .. Len(stack) - 1 : Append(Below, f)[i] = stack[i]
           /\ Append(Below, f)[Len(stack)] = f
<1> DEFINE B == Below
<1>1. /\ Len(stack) \in Nat \ {0} /\ B \in Seq(S) /\ Len(B) = Len(stack) - 1
      /\ \A i \in 1 .. Len(stack) - 1 : B[i] = stack[i]
    BY StackShape
<1> HIDE DEF B
<1>2. /\ Append(B, f) \in Seq(S)
      /\ Len(Append(B, f)) = Len(B) + 1
      /\ DOMAIN Append(B, f) = 1 .. Len(B) + 1
      /\ \A i \in 1 .. Len(B) : Append(B, f)[i] = B[i]
      /\ Append(B, f)[Len(B) + 1] = f
    BY <1>1
<1>3. /\ Append(B, f) \in Seq(S) /\ Append(B, f) # << >>
      /\ DOMAIN Append(B, f) = 1 .. Len(stack)
      /\ \A i \in 1 .. Len(stack) - 1 : Append(B, f)[i] = stack[i]
      /\ Append(B, f)[Len(stack)] = f
    BY <1>1, <1>2
<1>4. QED BY <1>3 DEF B


LEMMA StackPushed ==
    ASSUME NEW S, stack \in Seq(S), stack # << >>, NEW f \in S, NEW g \in S
    PROVE  /\ Append(Append(Below, f), g) \in Seq(S) /\ Append(Append(Below, f), g) # << >>
           /\ DOMAIN Append(Append(Below, f), g) = 1 .. Len(stack) + 1
           /\ \A i \in 1 .. Len(stack) : Append(Append(Below, f), g)[i] = Append(Below, f)[i]
           /\ Append(Append(Below, f), g)[Len(stack) + 1] = g
<1> DEFINE A == Append(Below, f)
<1>1. /\ A \in Seq(S) /\ DOMAIN A = 1 .. Len(stack) /\ Len(stack) \in Nat
    BY StackReplaced, StackShape
<1> HIDE DEF A
<1>2. Len(A) = Len(stack)
    BY <1>1
<1>3. /\ Append(A, g) \in Seq(S) /\ Append(A, g) # << >>
      /\ DOMAIN Append(A, g) = 1 .. Len(stack) + 1
      /\ \A i \in 1 .. Len(stack) : Append(A, g)[i] = A[i]
      /\ Append(A, g)[Len(stack) + 1] = g
    BY <1>1, <1>2
<1>4. QED BY <1>3 DEF A
-----------------------------------------------------------------------------
\* What is there stays there: progress is never lost.
Grows == /\ seen \subseteq seen' /\ shape' = shape /\ asked' = asked
         /\ \A field \in Collected : OneOf(lists[field]) \subseteq OneOf(lists'[field])

LEMMA ProgressGrows ==
    ASSUME Grows, NEW f \in Frames, Progress(shape, f, seen, lists)
    PROVE  Progress(shape, f, seen', lists')
<1>1. f.field \in Fields
    BY DEF Frames
<1>2. f.field # "extends" => f.field \in Collected
    BY <1>1 DEF Fields
<1>3. "packs" \in Collected
    BY DEF Collected
<1>4. QED BY <1>2, <1>3 DEF Grows, Progress, Passed

LEMMA SettledGrows ==
    ASSUME Grows, NEW n, Settled(shape, n, seen, lists)
    PROVE  Settled(shape, n, seen', lists')
  BY DEF Grows, Settled

LEMMA LastOrBefore ==
    ASSUME NEW n \in Nat, NEW i \in 1 .. n
    PROVE  i = n \/ i \in 1 .. n - 1
  OBVIOUS

\* The frame on top goes on; the others keep their progress.
LEMMA TopGoesOnIn ==
    ASSUME OInv, Visiting, Grows, NEW f \in Frames, f.overlay = Top.overlay,
           Progress(shape, f, seen', lists')
    PROVE  /\ \A i \in DOMAIN Append(Below, f) : Progress(shape, Append(Below, f)[i], seen', lists')
           /\ \A n : OnStack(n) => \E i \in DOMAIN Append(Below, f) : Append(Below, f)[i].overlay = n
<1> DEFINE st == Append(Below, f)
<1>1. stack \in Seq(Frames) /\ stack # << >>
    BY DEF OInv, OverlayTypeOK, Frames, Visiting
<1>2. /\ DOMAIN st = 1 .. Len(stack) /\ DOMAIN stack = 1 .. Len(stack)
      /\ Len(stack) \in Nat \ {0}
      /\ \A i \in 1 .. Len(stack) - 1 : st[i] = stack[i] /\ stack[i] \in Frames
      /\ st[Len(stack)] = f
    <2>1. \A i \in 1 .. Len(stack) - 1 : stack[i] \in Frames
        BY <1>1
    <2>2. QED BY <1>1, <2>1, StackReplaced, StackShape
<1> HIDE DEF st
<1>3. ASSUME NEW i \in DOMAIN st PROVE Progress(shape, st[i], seen', lists')
  <2>1. CASE i = Len(stack)
      BY <2>1, <1>2
  <2>2. CASE i \in 1 .. Len(stack) - 1
    <3>1. Progress(shape, stack[i], seen, lists)
        BY <2>2, <1>2 DEF OInv, FramesInv
    <3>2. Progress(shape, stack[i], seen', lists')
        BY <3>1, <2>2, <1>2, ProgressGrows
    <3>3. QED BY <3>2, <2>2, <1>2
  <2>3. i = Len(stack) \/ i \in 1 .. Len(stack) - 1
    <3>1. i \in 1 .. Len(stack) /\ Len(stack) \in Nat
        BY <1>2
    <3>2. QED BY <3>1, LastOrBefore
  <2>4. QED BY <2>1, <2>2, <2>3
<1>4. ASSUME NEW n, OnStack(n) PROVE \E j \in DOMAIN st : st[j].overlay = n
  <2>1. PICK i \in 1 .. Len(stack) : stack[i].overlay = n
      BY <1>2, <1>4 DEF OnStack
  <2>2. st[i].overlay = n
    <3>1. CASE i = Len(stack)
        BY <3>1, <2>1, <1>2 DEF Top
    <3>2. CASE i \in 1 .. Len(stack) - 1
        BY <3>2, <2>1, <1>2
    <3>3. i = Len(stack) \/ i \in 1 .. Len(stack) - 1
      <4>1. Len(stack) \in Nat
          BY <1>2
      <4>2. QED BY <4>1, <2>1, LastOrBefore
    <3>4. QED BY <3>1, <3>2, <3>3
  <2>3. QED BY <2>2, <1>2
<1>5. QED BY <1>3, <1>4 DEF st

LEMMA TopGoesOn ==
    ASSUME OInv, Visiting, Grows, NEW f \in Frames, f.overlay = Top.overlay,
           Progress(shape, f, seen', lists'), stack' = Append(Below, f)
    PROVE  FramesInv' /\ \A n : OnStack(n) => OnStack(n)'
<1>1. /\ \A i \in DOMAIN stack' : Progress(shape, stack'[i], seen', lists')
      /\ \A n : OnStack(n) => \E i \in DOMAIN stack' : stack'[i].overlay = n
    BY TopGoesOnIn
<1>2. FramesInv'
    BY <1>1 DEF FramesInv, Grows
<1>3. \A n : OnStack(n) => OnStack(n)'
    BY <1>1 DEF OnStack
<1>4. QED BY <1>2, <1>3

\* The same types, whatever moved on the stack.
LEMMA TypeKept ==
    ASSUME OInv, shape' = shape, lists' = lists, resolved' \in {"visiting", "done", "refused"},
           seen' \subseteq Known, stack' \in Seq(Frames)
    PROVE  OverlayTypeOK'
<1>1. Known' = Known /\ \A field : Declared(field)' = Declared(field)
    BY DEF Known, Declared, Entries
<1>2. \A field \in Collected : lists'[field] \in Seq(Declared(field)')
    BY <1>1 DEF OInv, OverlayTypeOK
<1>3. QED BY <1>1, <1>2 DEF OInv, OverlayTypeOK, Frames

LEMMA SeenGoesOn ==
    ASSUME OInv, Grows, \A n : OnStack(n) => OnStack(n)',
           \A n \in seen' : n \in seen \/ OnStack(n)'
    PROVE  SeenInv'
<1>1. ASSUME NEW n \in seen', ~OnStack(n)' PROVE Settled(shape, n, seen', lists')
  <2>1. n \in seen /\ ~OnStack(n)
      BY <1>1
  <2>2. Settled(shape, n, seen, lists)
      BY <2>1 DEF OInv, SeenInv
  <2>3. QED BY <2>2, SettledGrows
<1>2. QED BY <1>1 DEF SeenInv, Grows

\* The frame on top, and the list it is in.
LEMMA TopFrame ==
    ASSUME OInv, Visiting
    PROVE  /\ stack \in Seq(Frames) /\ stack # << >> /\ Len(stack) \in Nat \ {0}
           /\ Top \in Frames /\ Top.overlay \in Known /\ Top.field \in Fields
           /\ Top.next \in Nat \ {0}
           /\ Progress(shape, Top, seen, lists)
           /\ Len(Entries(Top.overlay, Top.field)) \in Nat
           /\ DOMAIN Entries(Top.overlay, Top.field) = 1 .. Len(Entries(Top.overlay, Top.field))
<1>1. stack \in Seq(Frames) /\ stack # << >>
    BY DEF OInv, OverlayTypeOK, Frames, Visiting
<1>2. Top \in Frames /\ DOMAIN stack = 1 .. Len(stack) /\ Len(stack) \in Nat \ {0}
    BY <1>1, StackShape
<1>3. Top.overlay \in Known /\ Top.field \in Fields /\ Top.next \in Nat \ {0}
    BY <1>2 DEF Frames
<1>4. Progress(shape, Top, seen, lists)
  <2>1. Len(stack) \in DOMAIN stack
      BY <1>2
  <2>2. QED BY <2>1 DEF OInv, FramesInv, Top
<1>5. QED BY <1>1, <1>2, <1>3, <1>4, EntriesAreSequences DEF OInv

\* A list that is through has been passed as a whole.
LEMMA PassedAll ==
    ASSUME OInv, Visiting, ~More,
           NEW items, Passed(Entries(Top.overlay, Top.field), Top.next, items)
    PROVE  OneOf(Entries(Top.overlay, Top.field)) \subseteq items
<1> DEFINE list == Entries(Top.overlay, Top.field)
<1>1. /\ DOMAIN list = 1 .. Len(list) /\ Len(list) \in Nat /\ Top.next \in Nat
      /\ ~(Top.next <= Len(list))
    BY TopFrame DEF More
<1> HIDE DEF list
<1>2. \A j \in DOMAIN list : j < Top.next
    BY <1>1
<1>3. Passed(list, Top.next, items)
    BY DEF list
<1>4. OneOf(list) \subseteq items
    BY <1>2, <1>3 DEF OneOf, Passed
<1>5. QED BY <1>4 DEF list

\* At the start of a list, and one entry further.
LEMMA PassedNone ==
    ASSUME OInv, NEW n \in Known, NEW field \in Fields, NEW items
    PROVE  Passed(Entries(n, field), 1, items)
<1>1. DOMAIN Entries(n, field) = 1 .. Len(Entries(n, field)) /\ Len(Entries(n, field)) \in Nat
    BY EntriesAreSequences DEF OInv
<1>2. \A j \in DOMAIN Entries(n, field) : ~(j < 1)
    BY <1>1
<1>3. QED BY <1>2 DEF Passed

LEMMA PassedOne ==
    ASSUME OInv, Visiting, NEW items, NEW more,
           Passed(Entries(Top.overlay, Top.field), Top.next, items),
           items \subseteq more, Entry \in more
    PROVE  Passed(Entries(Top.overlay, Top.field), Top.next + 1, more)
<1> DEFINE list == Entries(Top.overlay, Top.field)
<1>1. DOMAIN list = 1 .. Len(list) /\ Len(list) \in Nat /\ Top.next \in Nat
    BY TopFrame
<1>2. Passed(list, Top.next, items) /\ list[Top.next] \in more
    BY DEF Entry
<1> HIDE DEF list
<1>3. ASSUME NEW j \in DOMAIN list, j < Top.next + 1 PROVE list[j] \in more
  <2>1. j < Top.next \/ j = Top.next
      BY <1>1, <1>3
  <2>2. QED BY <1>2, <2>1 DEF Passed
<1>4. Passed(list, Top.next + 1, more)
    BY <1>3 DEF Passed
<1>5. QED BY <1>4 DEF list
-----------------------------------------------------------------------------
(* The steps *)

LEMMA BeginKeeps == ASSUME OInv, Begin PROVE OInv'
<1>1. seen = {} /\ stack = << >> /\ shape' = shape /\ asked' = asked /\ lists' = lists
    BY DEF Begin, OInv, Ends
<1>2. CASE asked \notin Known
  <2>1. stack' = stack /\ seen' = seen /\ resolved' = "refused"
      BY <1>2 DEF Begin
  <2>2. OverlayTypeOK'
      BY <1>1, <2>1 DEF OInv, OverlayTypeOK, Known, Declared, Entries
  <2>3. FramesInv' /\ SeenInv' /\ NothingElse' /\ Least' /\ Ends'
      BY <1>1, <2>1 DEF OInv, FramesInv, SeenInv, NothingElse, Least, Ends, Entries, Known, Closed
  <2>4. QED BY <1>1, <2>2, <2>3 DEF OInv
<1>3. CASE asked \in Known
  <2> DEFINE f == Frame(asked, "extends", 1)
  <2>1. stack' = <<f>> /\ seen' = {asked} /\ resolved' = "visiting"
      BY <1>3 DEF Begin
  <2>2. f \in Frames /\ f.overlay = asked /\ f.field = "extends" /\ f.next = 1
      BY <1>3 DEF Frames, Frame, Fields
  <2> HIDE DEF f
  <2>3. stack' \in Seq(Frames) /\ DOMAIN stack' = {1} /\ stack'[1] = f /\ stack' # << >>
      BY <2>1, <2>2
  <2>4. OverlayTypeOK'
      BY <1>1, <1>3, <2>1, <2>3
      DEF OInv, OverlayTypeOK, Frames, Known, Declared, Entries
  <2>5. FramesInv'
    <3>1. Passed(List(shape, asked, "extends"), 1, seen')
        BY <1>3, PassedNone DEF List, Entries, Fields
    <3>2. Progress(shape, f, seen', lists')
        BY <2>1, <2>2, <3>1 DEF Progress
    <3>3. QED BY <1>1, <2>3, <3>2 DEF FramesInv
  <2>6. SeenInv'
      BY <2>1, <2>2, <2>3 DEF SeenInv, OnStack
  <2>7. NothingElse'
      BY <1>1 DEF OInv, NothingElse
  <2>8. Least' /\ Ends'
      BY <1>1, <2>1, <2>3 DEF Least, Ends
  <2>9. QED BY <1>1, <2>4, <2>5, <2>6, <2>7, <2>8 DEF OInv
<1>4. QED BY <1>2, <1>3

LEMMA RefuseKeeps == ASSUME OInv, Refuse PROVE OInv'
<1>1. shape' = shape /\ asked' = asked /\ stack' = stack /\ seen' = seen /\ lists' = lists
      /\ resolved' = "refused"
    BY DEF Refuse
<1>2. OverlayTypeOK'
    BY <1>1 DEF OInv, OverlayTypeOK, Known, Declared, Entries
<1>3. FramesInv' /\ SeenInv' /\ NothingElse' /\ Least' /\ Ends'
    BY <1>1 DEF OInv, FramesInv, SeenInv, OnStack, NothingElse, Least, Ends, Entries, Known, Closed
<1>4. QED BY <1>1, <1>2, <1>3 DEF OInv

\* An overlay that was entered is not entered again: the frame goes on.
LEMMA SkipKeeps == ASSUME OInv, VisitParent, Entry \in seen PROVE OInv'
<1> DEFINE f == Frame(Top.overlay, Top.field, Top.next + 1)
<1>1. /\ shape' = shape /\ asked' = asked /\ lists' = lists /\ resolved' = resolved
      /\ seen' = seen /\ stack' = Append(Below, f) /\ Visiting /\ More
      /\ Top.field = "extends" /\ resolved = "visiting"
    BY DEF VisitParent, Advanced, Visiting
<1>2. /\ f \in Frames /\ f.overlay = Top.overlay /\ f.field = "extends"
      /\ f.next = Top.next + 1
    BY <1>1, TopFrame DEF Frames, Frame
<1> HIDE DEF f
<1>3. Grows
    BY <1>1 DEF Grows
<1>4. Progress(shape, f, seen', lists')
  <2>1. Top.overlay \in seen /\ Passed(Entries(Top.overlay, Top.field), Top.next, seen)
      BY <1>1, TopFrame DEF Progress, List, Entries
  <2>2. Passed(Entries(Top.overlay, Top.field), Top.next + 1, seen)
      BY <1>1, <2>1, PassedOne
  <2>3. QED BY <1>1, <1>2, <2>1, <2>2 DEF Progress, List, Entries
<1>5. FramesInv' /\ \A n : OnStack(n) => OnStack(n)'
    BY <1>1, <1>2, <1>3, <1>4, TopGoesOn
<1>6. SeenInv'
    BY <1>1, <1>3, <1>5, SeenGoesOn
<1>7. stack' \in Seq(Frames) /\ stack' # << >>
    BY <1>1, <1>2, TopFrame, StackReplaced
<1>8. OverlayTypeOK'
  <2>1. seen' \subseteq Known
      BY <1>1 DEF OInv, OverlayTypeOK
  <2>2. QED BY <1>1, <1>7, <2>1, TypeKept
<1>9. NothingElse' /\ Least' /\ Ends'
  <2>1. NothingElse'
      BY <1>1 DEF OInv, NothingElse, Entries
  <2>2. Least'
      BY <1>1 DEF OInv, Least, Known, Closed, Entries
  <2>3. Ends'
      BY <1>1, <1>7 DEF OInv, Ends, Visiting
  <2>4. QED BY <2>1, <2>2, <2>3
<1>10. QED BY <1>1, <1>5, <1>6, <1>8, <1>9 DEF OInv

\* A parent that was not: its frame goes on top.
LEMMA EnterKeeps == ASSUME OInv, VisitParent, Entry \notin seen PROVE OInv'
<1> DEFINE f == Frame(Top.overlay, Top.field, Top.next + 1)
           g == Frame(Entry, "extends", 1)
           base == Append(Below, f)
<1>1. /\ shape' = shape /\ asked' = asked /\ lists' = lists /\ resolved' = resolved
      /\ seen' = seen \cup {Entry} /\ stack' = Append(base, g) /\ Visiting /\ More
      /\ Top.field = "extends" /\ resolved = "visiting" /\ Entry \in Known
    BY DEF VisitParent, Advanced, Visiting
<1>2. /\ f \in Frames /\ f.overlay = Top.overlay /\ f.field = "extends"
      /\ f.next = Top.next + 1
      /\ g \in Frames /\ g.overlay = Entry /\ g.field = "extends" /\ g.next = 1
    BY <1>1, TopFrame DEF Frames, Frame, Fields
<1>3. /\ stack' \in Seq(Frames) /\ stack' # << >>
      /\ DOMAIN stack' = 1 .. Len(stack) + 1 /\ DOMAIN base = 1 .. Len(stack)
      /\ \A i \in 1 .. Len(stack) : stack'[i] = base[i]
      /\ stack'[Len(stack) + 1] = g /\ Len(stack) \in Nat
    BY <1>1, <1>2, TopFrame, StackReplaced, StackPushed
<1>4. base = Append(Below, f)
    OBVIOUS
<1> HIDE DEF f, g, base
<1>5. Grows
    BY <1>1 DEF Grows
<1>6. Progress(shape, f, seen', lists')
  <2>1. Top.overlay \in seen /\ Passed(Entries(Top.overlay, Top.field), Top.next, seen)
      BY <1>1, TopFrame DEF Progress, List, Entries
  <2>2. Passed(Entries(Top.overlay, Top.field), Top.next + 1, seen')
      BY <1>1, <2>1, PassedOne
  <2>3. QED BY <1>1, <1>2, <2>1, <2>2 DEF Progress, List, Entries
<1>7. Progress(shape, g, seen', lists')
  <2>1. Passed(Entries(Entry, "extends"), 1, seen')
      BY <1>1, PassedNone DEF Fields
  <2>2. QED BY <1>1, <1>2, <2>1 DEF Progress, List, Entries
<1>8. /\ \A i \in DOMAIN base : Progress(shape, base[i], seen', lists')
      /\ \A n : OnStack(n) => \E i \in DOMAIN base : base[i].overlay = n
    BY <1>1, <1>2, <1>4, <1>5, <1>6, TopGoesOnIn
<1>9. FramesInv'
  <2>1. ASSUME NEW i \in DOMAIN stack' PROVE Progress(shape, stack'[i], seen', lists')
    <3>1. i = Len(stack) + 1 \/ i \in 1 .. Len(stack)
        BY <1>3
    <3>2. QED BY <1>3, <1>7, <1>8, <3>1
  <2>2. QED BY <1>1, <2>1 DEF FramesInv
<1>10. SeenInv'
  <2>1. \A i \in 1 .. Len(stack) : i \in DOMAIN stack'
      BY <1>3
  <2>2. \A n : OnStack(n) => OnStack(n)'
      BY <1>3, <1>8, <2>1 DEF OnStack
  <2>3. Len(stack) + 1 \in DOMAIN stack'
      BY <1>3
  <2>4. ASSUME NEW n, n = Entry PROVE OnStack(n)'
      BY <1>2, <1>3, <2>3, <2>4 DEF OnStack
  <2>5. QED BY <1>1, <1>5, <2>2, <2>4, SeenGoesOn
<1>11. OverlayTypeOK'
  <2>1. seen' \subseteq Known
      BY <1>1 DEF OInv, OverlayTypeOK
  <2>2. QED BY <1>1, <1>3, <2>1, TypeKept
<1>12. NothingElse'
    BY <1>1 DEF OInv, NothingElse, Entries
<1>13. Least'
  <2>1. ASSUME NEW names \in SUBSET Known, asked \in names, Closed(names) PROVE Entry \in names
    <3>1. Top.overlay \in names
        BY <1>1, <2>1, TopFrame DEF OInv, Least, Progress
    <3>2. Entry \in OneOf(Entries(Top.overlay, "extends"))
      <4>1. Top.next \in DOMAIN Entries(Top.overlay, Top.field)
          BY <1>1, TopFrame DEF More
      <4>2. QED BY <1>1, <4>1 DEF OneOf, Entry
    <3>3. QED BY <2>1, <3>1, <3>2 DEF Closed
  <2>2. QED BY <1>1, <2>1 DEF OInv, Least, Known, Closed, Entries
<1>14. Ends'
    BY <1>1, <1>3 DEF OInv, Ends, Visiting
<1>15. QED BY <1>1, <1>9, <1>10, <1>11, <1>12, <1>13, <1>14 DEF OInv

LEMMA AddEntryKeeps == ASSUME OInv, AddEntry PROVE OInv'
<1> DEFINE f == Frame(Top.overlay, Top.field, Top.next + 1)
<1>1. /\ shape' = shape /\ asked' = asked /\ seen' = seen /\ resolved' = resolved
      /\ stack' = Append(Below, f) /\ Visiting /\ More /\ resolved = "visiting"
      /\ Top.field \in Collected
      /\ lists' = [lists EXCEPT ![Top.field] = Added(lists[Top.field], Entry)]
    BY DEF AddEntry, Advanced, Visiting
<1>2. /\ f \in Frames /\ f.overlay = Top.overlay /\ f.field = Top.field
      /\ f.next = Top.next + 1
    BY <1>1, TopFrame DEF Frames, Frame
<1> HIDE DEF f
<1>3. Entry \in OneOf(Entries(Top.overlay, Top.field))
  <2>1. Top.next \in DOMAIN Entries(Top.overlay, Top.field)
      BY <1>1, TopFrame DEF More
  <2>2. QED BY <2>1 DEF OneOf, Entry
<1>4. Entry \in Declared(Top.field)
    BY <1>1, <1>3, TopFrame DEF Declared
<1>5. /\ DOMAIN lists' = Collected /\ DOMAIN lists = Collected
      /\ \A field \in Collected : lists[field] \in Seq(Declared(field))
    BY <1>1 DEF OInv, OverlayTypeOK
<1>6. /\ lists'[Top.field] \in Seq(Declared(Top.field))
      /\ OneOf(lists'[Top.field]) = OneOf(lists[Top.field]) \cup {Entry}
      /\ \A field \in Collected : field # Top.field => lists'[field] = lists[field]
    BY <1>1, <1>4, <1>5, AddedOne
<1>7. Grows
    BY <1>1, <1>6 DEF Grows
<1>8. Progress(shape, f, seen', lists')
  <2>1. /\ Passed(Entries(Top.overlay, Top.field), Top.next, OneOf(lists[Top.field]))
        /\ Top.overlay \in seen /\ OneOf(Entries(Top.overlay, "extends")) \subseteq seen
        /\ Top.field = "exclude_rules" =>
              OneOf(Entries(Top.overlay, "packs")) \subseteq OneOf(lists["packs"])
      BY <1>1, TopFrame DEF Progress, List, Entries, Collected
  <2>2. Passed(Entries(Top.overlay, Top.field), Top.next + 1, OneOf(lists'[Top.field]))
      BY <1>1, <1>6, <2>1, PassedOne
  <2>3. OneOf(lists["packs"]) \subseteq OneOf(lists'["packs"])
      BY <1>7 DEF Grows, Collected
  <2>4. Top.field # "extends"
      BY <1>1 DEF Collected
  <2>5. QED BY <1>1, <1>2, <2>1, <2>2, <2>3, <2>4 DEF Progress, List, Entries
<1>9. FramesInv' /\ \A n : OnStack(n) => OnStack(n)'
    BY <1>1, <1>2, <1>7, <1>8, TopGoesOn
<1>10. SeenInv'
    BY <1>1, <1>7, <1>9, SeenGoesOn
<1>11. stack' \in Seq(Frames) /\ stack' # << >>
    BY <1>1, <1>2, TopFrame, StackReplaced
<1>12. OverlayTypeOK'
  <2>1. \A field \in Collected : lists'[field] \in Seq(Declared(field))
      BY <1>5, <1>6
  <2>2. QED BY <1>1, <1>5, <1>11, <2>1
        DEF OInv, OverlayTypeOK, Frames, Known, Declared, Entries
<1>13. NothingElse'
  <2>1. ASSUME NEW field \in Collected, NEW e \in OneOf(lists'[field])
        PROVE  \E n \in seen : e \in OneOf(Entries(n, field))
    <3>1. CASE e \in OneOf(lists[field])
        BY <3>1 DEF OInv, NothingElse
    <3>2. CASE e \notin OneOf(lists[field])
      <4>1. field = Top.field /\ e = Entry
          BY <1>6, <3>2
      <4>2. Top.overlay \in seen
          BY <1>1, TopFrame DEF Progress
      <4>3. QED BY <1>3, <4>1, <4>2
    <3>3. QED BY <3>1, <3>2
  <2>2. QED BY <1>1, <2>1 DEF NothingElse, Entries
<1>14. Least' /\ Ends'
  <2>2. Least'
      BY <1>1 DEF OInv, Least, Known, Closed, Entries
  <2>3. Ends'
      BY <1>1, <1>11 DEF OInv, Ends, Visiting
  <2>4. QED BY <2>2, <2>3
<1>15. QED BY <1>1, <1>9, <1>10, <1>12, <1>13, <1>14 DEF OInv

LEMMA NextFieldKeeps == ASSUME OInv, NextField PROVE OInv'
<1> DEFINE f == Frame(Top.overlay, NextOf(Top.field), 1)
<1>1. /\ shape' = shape /\ asked' = asked /\ seen' = seen /\ resolved' = resolved
      /\ lists' = lists /\ stack' = Append(Below, f) /\ Visiting /\ ~More
      /\ resolved = "visiting" /\ Top.field # "exclude_rules"
    BY DEF NextField, Visiting
<1>2. /\ f \in Frames /\ f.overlay = Top.overlay /\ f.field = NextOf(Top.field)
      /\ f.next = 1 /\ f.field \in Fields
    BY <1>1, TopFrame DEF Frames, Frame, NextOf, Fields, Collected
<1> HIDE DEF f
<1>3. Grows
    BY <1>1 DEF Grows
<1>4. Progress(shape, f, seen', lists')
  <2>1. Passed(Entries(Top.overlay, f.field), 1, OneOf(lists[f.field]))
      BY <1>2, TopFrame, PassedNone, <1>1
  <2>2. CASE Top.field = "extends"
    <3>1. Top.overlay \in seen /\ Passed(Entries(Top.overlay, Top.field), Top.next, seen)
        BY <1>1, <2>2, TopFrame DEF Progress, List, Entries
    <3>2. OneOf(Entries(Top.overlay, "extends")) \subseteq seen
        BY <1>1, <2>2, <3>1, PassedAll
    <3>3. f.field = "packs"
        BY <1>2, <2>2 DEF NextOf
    <3>4. QED BY <1>1, <1>2, <2>1, <3>1, <3>2, <3>3 DEF Progress, List, Entries
  <2>3. CASE Top.field = "packs"
    <3>1. /\ Top.overlay \in seen /\ OneOf(Entries(Top.overlay, "extends")) \subseteq seen
          /\ Passed(Entries(Top.overlay, Top.field), Top.next, OneOf(lists["packs"]))
        BY <1>1, <2>3, TopFrame DEF Progress, List, Entries
    <3>2. OneOf(Entries(Top.overlay, "packs")) \subseteq OneOf(lists["packs"])
        BY <1>1, <2>3, <3>1, PassedAll
    <3>3. f.field = "exclude_rules"
        BY <1>2, <2>3 DEF NextOf
    <3>4. QED BY <1>1, <1>2, <2>1, <3>1, <3>2, <3>3 DEF Progress, List, Entries
  <2>4. QED BY <1>1, <2>2, <2>3, TopFrame DEF Fields, Collected
<1>5. FramesInv' /\ \A n : OnStack(n) => OnStack(n)'
    BY <1>1, <1>2, <1>3, <1>4, TopGoesOn
<1>6. SeenInv'
    BY <1>1, <1>3, <1>5, SeenGoesOn
<1>7. stack' \in Seq(Frames) /\ stack' # << >>
    BY <1>1, <1>2, TopFrame, StackReplaced
<1>8. OverlayTypeOK'
  <2>1. seen' \subseteq Known
      BY <1>1 DEF OInv, OverlayTypeOK
  <2>2. QED BY <1>1, <1>7, <2>1, TypeKept
<1>9. NothingElse' /\ Least' /\ Ends'
  <2>1. NothingElse'
      BY <1>1 DEF OInv, NothingElse, Entries
  <2>2. Least'
      BY <1>1 DEF OInv, Least, Known, Closed, Entries
  <2>3. Ends'
      BY <1>1, <1>7 DEF OInv, Ends, Visiting
  <2>4. QED BY <2>1, <2>2, <2>3
<1>10. QED BY <1>1, <1>5, <1>6, <1>8, <1>9 DEF OInv

\* A frame that leaves the stack has collected everything.
LEMMA ReturnKeeps == ASSUME OInv, Return PROVE OInv'
<1>1. /\ shape' = shape /\ asked' = asked /\ seen' = seen /\ lists' = lists
      /\ stack' = Below /\ Visiting /\ ~More
      /\ Top.field = "exclude_rules" /\ resolved = "visiting"
      /\ resolved' = IF Below = << >> THEN "done" ELSE "visiting"
    BY DEF Return, Visiting
<1>2. /\ stack \in Seq(Frames) /\ stack # << >> /\ Len(stack) \in Nat \ {0}
      /\ DOMAIN stack = 1 .. Len(stack)
      /\ Below \in Seq(Frames) /\ DOMAIN Below = 1 .. Len(stack) - 1
      /\ \A i \in 1 .. Len(stack) - 1 : Below[i] = stack[i]
    BY <1>1, TopFrame, StackShape
<1>3. Settled(shape, Top.overlay, seen, lists)
  <2>1. /\ OneOf(Entries(Top.overlay, "extends")) \subseteq seen
        /\ OneOf(Entries(Top.overlay, "packs")) \subseteq OneOf(lists["packs"])
        /\ Passed(Entries(Top.overlay, Top.field), Top.next, OneOf(lists["exclude_rules"]))
      BY <1>1, TopFrame DEF Progress, List, Entries
  <2>2. OneOf(Entries(Top.overlay, "exclude_rules")) \subseteq OneOf(lists["exclude_rules"])
      BY <1>1, <2>1, PassedAll
  <2>3. QED BY <2>1, <2>2 DEF Settled, List, Entries, Collected
<1>4. \A i \in 1 .. Len(stack) - 1 : i \in DOMAIN stack
    BY <1>2
<1>5. FramesInv'
    BY <1>1, <1>2, <1>4 DEF OInv, FramesInv
<1>6. SeenInv'
  <2>1. ASSUME NEW n \in seen, ~OnStack(n)' PROVE Settled(shape, n, seen, lists)
    <3>1. CASE n = Top.overlay
        BY <3>1, <1>3
    <3>2. CASE n # Top.overlay
      <4>1. ASSUME NEW i \in 1 .. Len(stack), stack[i].overlay = n PROVE FALSE
        <5>1. i = Len(stack) \/ i \in 1 .. Len(stack) - 1
            BY <1>2, LastOrBefore
        <5>2. i # Len(stack)
            BY <3>2, <4>1 DEF Top
        <5>3. QED BY <1>1, <1>2, <2>1, <4>1, <5>1, <5>2 DEF OnStack
      <4>2. ~OnStack(n)
          BY <1>2, <4>1 DEF OnStack
      <4>3. QED BY <4>2 DEF OInv, SeenInv
    <3>3. QED BY <3>1, <3>2
  <2>2. QED BY <1>1, <2>1 DEF SeenInv
<1>7. OverlayTypeOK'
    BY <1>1, <1>2 DEF OInv, OverlayTypeOK, Frames, Known, Declared, Entries
<1>8. NothingElse' /\ Least'
    BY <1>1 DEF OInv, NothingElse, Least, Entries, Known, Closed
<1>9. Ends'
  <2>1. seen # {}
      BY <1>1, TopFrame DEF Progress
  <2>2. QED BY <1>1, <2>1 DEF OInv, Ends
<1>10. QED BY <1>1, <1>5, <1>6, <1>7, <1>8, <1>9 DEF OInv
-----------------------------------------------------------------------------
\* Nothing moves.
LEMMA OverlayStutterKeeps == ASSUME OInv, UNCHANGED overlayVars PROVE OInv'
<1>1. /\ shape' = shape /\ asked' = asked /\ stack' = stack /\ seen' = seen
      /\ lists' = lists /\ resolved' = resolved
    BY DEF overlayVars
<1>2. OverlayTypeOK'
    BY <1>1 DEF OInv, OverlayTypeOK, Known, Declared, Entries
<1>3. FramesInv' /\ SeenInv' /\ NothingElse' /\ Least' /\ Ends'
    BY <1>1 DEF OInv, FramesInv, SeenInv, OnStack, NothingElse, Least, Ends, Entries, Known, Closed
<1>4. QED BY <1>1, <1>2, <1>3 DEF OInv

LEMMA OverlayStarts == ASSUME OverlayInit PROVE OInv
<1>1. shape \in Shapes /\ stack = << >> /\ seen = {} /\ resolved = "visiting"
      /\ lists = [field \in Collected |-> << >>]
    BY DEF OverlayInit, OverlayFresh
<1>2. OverlayTypeOK
    BY <1>1 DEF OverlayTypeOK
<1>3. FramesInv /\ SeenInv /\ Least /\ Ends
    BY <1>1 DEF FramesInv, SeenInv, Least, Ends
<1>4. NothingElse
    BY <1>1 DEF NothingElse, OneOf
<1>5. QED BY <1>1, <1>2, <1>3, <1>4 DEF OInv

LEMMA OverlaySteps == ASSUME OInv, [OverlayNext]_overlayVars PROVE OInv'
  BY BeginKeeps, RefuseKeeps, SkipKeeps, EnterKeeps, AddEntryKeeps, NextFieldKeeps,
     ReturnKeeps, OverlayStutterKeeps DEF OverlayNext

LEMMA Resolving == OverlaySpec => []OInv
<1>1. OverlayInit => OInv
    BY OverlayStarts
<1>2. OInv /\ [OverlayNext]_overlayVars => OInv'
    BY OverlaySteps
<1>3. QED BY <1>1, <1>2, PTL DEF OverlaySpec

\* For every file of overlays, well-formed or not, and every name: a frame is
\* always of a known overlay and what is collected some overlay declares.
THEOREM OverlayTypeCorrect == OverlaySpec => []OverlayTypeOK
<1>1. OInv => OverlayTypeOK
    BY DEF OInv
<1>2. QED BY <1>1, Resolving, PTL

\* For every file of overlays, with diamonds and circles of `extends`: the packs and
\* the rules to leave out are exactly those of the overlays the name stands for.
THEOREM ResolvedIsTheClosureCorrect == OverlaySpec => []ResolvedIsTheClosure
<1>1. OInv => ResolvedIsTheClosure
  <2>1. SUFFICES ASSUME OInv, resolved = "done" PROVE ResolvedIsTheClosure
      BY DEF ResolvedIsTheClosure
  <2>2. stack = << >> /\ asked \in seen
      BY <2>1 DEF OInv, Ends
  <2>3. \A n \in seen : Settled(shape, n, seen, lists)
      BY <2>1, <2>2 DEF OInv, SeenInv, OnStack
  <2>4. Closed(seen)
      BY <2>3 DEF Closed, Settled, List, Entries
  <2>5. \A names \in SUBSET Known : asked \in names /\ Closed(names) => seen \subseteq names
      BY <2>1 DEF OInv, Least
  <2>6. ASSUME NEW field \in Collected
        PROVE  OneOf(lists[field]) = UNION {OneOf(Entries(n, field)) : n \in seen}
    <3>1. \A n \in seen : OneOf(Entries(n, field)) \subseteq OneOf(lists[field])
        BY <2>3 DEF Settled, List, Entries
    <3>2. \A e \in OneOf(lists[field]) : \E n \in seen : e \in OneOf(Entries(n, field))
        BY <2>1 DEF OInv, NothingElse
    <3>3. QED BY <3>1, <3>2
  <2>7. QED BY <2>2, <2>4, <2>5, <2>6 DEF ResolvedIsTheClosure
<1>2. QED BY <1>1, Resolving, PTL

\* For every file of overlays: while an overlay adds its own packs, those of each
\* parent are there, unless the two extend each other in a circle.
THEOREM ParentsFirstCorrect == OverlaySpec => []ParentsFirst
<1>1. OInv => ParentsFirst
  <2>1. SUFFICES ASSUME OInv, NEW i \in DOMAIN stack, stack[i].field # "extends",
                        NEW p \in OneOf(Entries(stack[i].overlay, "extends")), ~OnStack(p)
                 PROVE  \A field \in Collected :
                           OneOf(Entries(p, field)) \subseteq OneOf(lists[field])
      BY DEF ParentsFirst
  <2>2. p \in seen
      BY <2>1 DEF OInv, FramesInv, Progress, List, Entries
  <2>3. Settled(shape, p, seen, lists)
      BY <2>1, <2>2 DEF OInv, SeenInv
  <2>4. QED BY <2>3 DEF Settled, List, Entries
<1>2. QED BY <1>1, Resolving, PTL
-----------------------------------------------------------------------------
(* The end of a resolution: what is still ahead of it gets less in every step *)

\* A position is an entry of a field of an overlay, its end, or, 0, its start.
\* Of an overlay that was not entered all are ahead; of one that is on the stack
\* those its frame did not get past.
Later(field) == IF field = "extends" THEN Collected
                ELSE IF field = "packs" THEN {"exclude_rules"} ELSE {}
Ahead(f, field, i) == i > 0 /\ (field \in Later(f.field) \/ (field = f.field /\ i >= f.next))
AheadOn(st, n, field, i) == \E k \in DOMAIN st : st[k].overlay = n /\ Ahead(st[k], field, i)
PositionsIn(n, field) == {n} \X ({field} \X (0 .. Len(Entries(n, field)) + 1))
PositionsOf(n) ==
    PositionsIn(n, "extends") \cup (PositionsIn(n, "packs") \cup PositionsIn(n, "exclude_rules"))
Positions == UNION {PositionsOf(n) : n \in Known}
Left == {p \in Positions : p[1] \notin seen \/ AheadOn(stack, p[1], p[2][1], p[2][2])}

\* Whatever overlays extend each other: each step of visit leaves less to do, a
\* natural number of positions, until one ends the resolution, which takes no more.
FiniteFiles == \A file \in Shapes : IsFiniteSet(DOMAIN file)
ResolutionEnds ==
    [][/\ resolved = "visiting"
       /\ Cardinality(Left) \in Nat
       /\ resolved' = "visiting" => Cardinality(Left') < Cardinality(Left)]_overlayVars

\* An overlay has one frame, which is in the list of its field or at its end.
OneFrame(st) == \A i, j \in DOMAIN st : st[i].overlay = st[j].overlay => i = j
Within(file, f) == f.next <= Len(List(file, f.overlay, f.field)) + 1
InLists(file, st) == \A i \in DOMAIN st : Within(file, st[i])
VInv == OInv /\ OneFrame(stack) /\ InLists(shape, stack)

LEMMA LeftIsFinite == ASSUME FiniteFiles, shape \in Shapes PROVE IsFiniteSet(Positions)
<1>1. ASSUME NEW n \in Known PROVE IsFiniteSet(PositionsOf(n))
  <2>1. ASSUME NEW field \in Fields PROVE IsFiniteSet(PositionsIn(n, field))
    <3>1. Len(Entries(n, field)) \in Nat
        BY EntriesAreSequences
    <3>2. IsFiniteSet(0 .. Len(Entries(n, field)) + 1)
        BY <3>1, FS_Interval
    <3>3. IsFiniteSet({n}) /\ IsFiniteSet({field})
        BY FS_Singleton
    <3>4. IsFiniteSet({field} \X (0 .. Len(Entries(n, field)) + 1))
        BY <3>2, <3>3, FS_Product
    <3>5. QED BY <3>3, <3>4, FS_Product DEF PositionsIn
  <2>2. "extends" \in Fields /\ "packs" \in Fields /\ "exclude_rules" \in Fields
      BY DEF Fields, Collected
  <2>3. IsFiniteSet(PositionsIn(n, "packs") \cup PositionsIn(n, "exclude_rules"))
      BY <2>1, <2>2, FS_Union
  <2>4. QED BY <2>1, <2>2, <2>3, FS_Union DEF PositionsOf
<1> DEFINE Each == {PositionsOf(n) : n \in Known}
           f == [n \in Known |-> PositionsOf(n)]
<1>2. f \in Surjection(Known, Each)
    BY DEF Surjection
<1>3. IsFiniteSet(Known)
    BY DEF FiniteFiles, Known
<1>4. IsFiniteSet(Each)
    BY <1>2, <1>3, FS_Surjection
<1>5. \A T \in Each : IsFiniteSet(T)
    BY <1>1
<1> HIDE DEF Each
<1>6. IsFiniteSet(UNION Each)
    BY <1>4, <1>5, FS_UNION
<1>7. QED BY <1>6 DEF Each, Positions

LEMMA LeftGetsLess ==
    ASSUME FiniteFiles, shape \in Shapes, NEW less \in SUBSET Left, NEW p \in Left, p \notin less
    PROVE  Cardinality(Left) \in Nat /\ Cardinality(less) < Cardinality(Left)
<1>1. IsFiniteSet(Left)
    BY LeftIsFinite, FS_Subset DEF Left
<1>2. Cardinality(Left) \in Nat
    BY <1>1, FS_CardinalityType
<1>3. IsFiniteSet(less) /\ Cardinality(less) <= Cardinality(Left) /\ Cardinality(less) # Cardinality(Left)
    BY <1>1, FS_Subset
<1>4. Cardinality(less) \in Nat
    BY <1>3, FS_CardinalityType
<1>5. QED BY <1>2, <1>3, <1>4

LEMMA InPositions ==
    ASSUME shape \in Shapes, NEW n \in Known, NEW field \in Fields, NEW i \in Nat,
           i <= Len(Entries(n, field)) + 1
    PROVE  <<n, <<field, i>>>> \in Positions
<1>1. Len(Entries(n, field)) \in Nat
    BY EntriesAreSequences
<1>2. i \in 0 .. Len(Entries(n, field)) + 1
    BY <1>1
<1>3. <<n, <<field, i>>>> \in PositionsIn(n, field)
    BY <1>2 DEF PositionsIn
<1>4. <<n, <<field, i>>>> \in PositionsOf(n)
    BY <1>3 DEF PositionsOf, Fields, Collected
<1>5. QED BY <1>4 DEF Positions

\* The position the frame on top is at.
LEMMA TopIsAhead ==
    ASSUME VInv, Visiting
    PROVE  /\ <<Top.overlay, <<Top.field, Top.next>>>> \in Left
           /\ Top.next <= Len(Entries(Top.overlay, Top.field)) + 1
           /\ Len(stack) \in DOMAIN stack
<1>1. Len(stack) \in DOMAIN stack /\ Top = stack[Len(stack)]
    BY TopFrame, StackShape DEF VInv, Top
<1>2. Top.next <= Len(Entries(Top.overlay, Top.field)) + 1
    BY <1>1 DEF VInv, InLists, Within, List, Entries
<1>3. Top.overlay \in Known /\ Top.field \in Fields /\ Top.next \in Nat /\ Top.next > 0
    BY TopFrame DEF VInv
<1>4. <<Top.overlay, <<Top.field, Top.next>>>> \in Positions
    BY <1>2, <1>3, InPositions DEF VInv, OInv
<1>5. AheadOn(stack, Top.overlay, Top.field, Top.next)
    BY <1>1, <1>3 DEF AheadOn, Ahead
<1>6. QED BY <1>1, <1>2, <1>4, <1>5 DEF Left

\* A stack that has nothing ahead that this one has not.
NoMoreAhead(st) ==
    \A n, field : \A i \in Nat : AheadOn(st, n, field, i) => AheadOn(stack, n, field, i)

\* A stack with the same overlays, whose top has got further, has less ahead.
LEMMA GotFurther ==
    ASSUME VInv, Visiting, NEW f \in Frames, f.overlay = Top.overlay, Within(shape, f),
           \A field : \A i \in Nat : Ahead(f, field, i) => Ahead(Top, field, i),
           ~Ahead(f, Top.field, Top.next)
    PROVE  /\ OneFrame(Append(Below, f)) /\ InLists(shape, Append(Below, f))
           /\ NoMoreAhead(Append(Below, f))
           /\ ~AheadOn(Append(Below, f), Top.overlay, Top.field, Top.next)
           /\ \A k \in DOMAIN Append(Below, f) : Append(Below, f)[k].overlay \in seen
<1> DEFINE st == Append(Below, f)
<1>1. /\ DOMAIN st = 1 .. Len(stack) /\ DOMAIN stack = 1 .. Len(stack)
      /\ Len(stack) \in Nat \ {0}
      /\ \A k \in 1 .. Len(stack) - 1 : st[k] = stack[k]
      /\ st[Len(stack)] = f
    BY TopFrame, StackReplaced, StackShape DEF VInv
<1> HIDE DEF st
<1>2. Len(stack) \in 1 .. Len(stack) /\ stack[Len(stack)] = Top
    BY <1>1 DEF Top
<1>3. ASSUME NEW k \in 1 .. Len(stack)
      PROVE  (k = Len(stack) /\ st[k] = f /\ stack[k] = Top) \/ (k # Len(stack) /\ st[k] = stack[k])
  <2>1. k = Len(stack) \/ k \in 1 .. Len(stack) - 1
      BY <1>1, LastOrBefore
  <2>2. ASSUME k \in 1 .. Len(stack) - 1 PROVE k # Len(stack)
    <3>1. Len(stack) \in Nat /\ k \in Nat /\ k <= Len(stack) - 1
        BY <1>1, <2>2
    <3>2. QED BY <3>1
  <2>3. QED BY <1>1, <1>2, <2>1, <2>2
<1>4. \A k \in 1 .. Len(stack) : st[k].overlay = stack[k].overlay
    BY <1>3
<1>5. OneFrame(st)
    BY <1>1, <1>4 DEF VInv, OneFrame
<1>6. InLists(shape, st)
    BY <1>1, <1>3 DEF VInv, InLists
<1>7. NoMoreAhead(st)
    BY <1>1, <1>3 DEF AheadOn, NoMoreAhead
<1>8. ASSUME AheadOn(st, Top.overlay, Top.field, Top.next) PROVE FALSE
  <2>1. PICK k \in 1 .. Len(stack) : st[k].overlay = Top.overlay /\ Ahead(st[k], Top.field, Top.next)
      BY <1>1, <1>8 DEF AheadOn
  <2>2. k = Len(stack)
      BY <1>1, <1>2, <1>4, <2>1 DEF VInv, OneFrame
  <2>3. QED BY <1>1, <2>1, <2>2
<1>9. \A k \in 1 .. Len(stack) : stack[k].overlay \in seen
    BY <1>1 DEF VInv, OInv, FramesInv, Progress
<1>10. QED BY <1>1, <1>4, <1>5, <1>6, <1>7, <1>8, <1>9 DEF st

\* The top frame one entry further.
LEMMA EntryPassed ==
    ASSUME VInv, Visiting, More, NEW f \in Frames,
           f.overlay = Top.overlay, f.field = Top.field, f.next = Top.next + 1
    PROVE  /\ Within(shape, f)
           /\ \A field : \A i \in Nat : Ahead(f, field, i) => Ahead(Top, field, i)
           /\ ~Ahead(f, Top.field, Top.next)
<1>1. /\ Top.next \in Nat \ {0} /\ Top.next <= Len(Entries(Top.overlay, Top.field))
      /\ Len(Entries(Top.overlay, Top.field)) \in Nat /\ Top.field \in Fields
    BY TopFrame DEF VInv, More
<1>2. Within(shape, f)
  <2>1. List(shape, f.overlay, f.field) = Entries(Top.overlay, Top.field)
      BY DEF List, Entries
  <2>2. f.next <= Len(Entries(Top.overlay, Top.field)) + 1
      BY <1>1
  <2>3. QED BY <2>1, <2>2 DEF Within
<1>3. ASSUME NEW i \in Nat, i >= f.next PROVE i >= Top.next
    BY <1>1, <1>3
<1>4. ~(Top.next >= f.next) /\ Top.field \notin Later(Top.field)
    BY <1>1 DEF Later, Fields, Collected
<1>5. QED BY <1>2, <1>3, <1>4 DEF Ahead

\* The top frame in the next list.
LEMMA FieldPassed ==
    ASSUME VInv, Visiting, Top.field # "exclude_rules", NEW f \in Frames,
           f.overlay = Top.overlay, f.field = NextOf(Top.field), f.next = 1
    PROVE  /\ Within(shape, f)
           /\ \A field : \A i \in Nat : Ahead(f, field, i) => Ahead(Top, field, i)
           /\ ~Ahead(f, Top.field, Top.next)
<1>1. /\ Top.field \in {"extends", "packs"} /\ Top.overlay \in Known /\ f.field \in Fields
    BY TopFrame DEF VInv, Fields, Collected, Frames
<1>2. Within(shape, f)
  <2>1. Len(Entries(f.overlay, f.field)) \in Nat
      BY <1>1, EntriesAreSequences DEF VInv, OInv
  <2>2. QED BY <2>1 DEF Within, List, Entries
<1>3. Later(f.field) \cup {f.field} \subseteq Later(Top.field) /\ Top.field \notin Later(f.field) \cup {f.field}
    BY <1>1 DEF Later, NextOf, Collected
<1>4. ASSUME NEW field, NEW i \in Nat, Ahead(f, field, i)
      PROVE  field \in Later(Top.field) /\ i > 0
    BY <1>3, <1>4 DEF Ahead
<1>5. ~Ahead(f, Top.field, Top.next)
    BY <1>3 DEF Ahead
<1>6. QED BY <1>2, <1>4, <1>5 DEF Ahead

\* With no more on the stack, an overlay entered or a position passed, less is left.
LEMMA LessLeft ==
    ASSUME FiniteFiles, VInv, shape' = shape, seen \subseteq seen',
           NEW p \in Left, p[1] \in seen', ~AheadOn(stack', p[1], p[2][1], p[2][2]),
           \A n, field : \A i \in Nat :
              AheadOn(stack', n, field, i) => n \notin seen \/ AheadOn(stack, n, field, i)
    PROVE  Cardinality(Left) \in Nat /\ Cardinality(Left') < Cardinality(Left)
<1>1. Positions' = Positions
    BY DEF Positions, PositionsOf, PositionsIn, Known, Entries
<1>2. ASSUME NEW q \in Positions PROVE q[2][2] \in Nat
  <2>1. PICK n \in Known : q \in PositionsOf(n)
      BY DEF Positions
  <2>2. PICK field \in Fields : q \in PositionsIn(n, field)
      BY <2>1 DEF PositionsOf, Fields, Collected
  <2>3. Len(Entries(n, field)) \in Nat
      BY EntriesAreSequences DEF VInv, OInv
  <2>4. PICK i \in 0 .. Len(Entries(n, field)) + 1 : q = <<n, <<field, i>>>>
      BY <2>2 DEF PositionsIn
  <2>5. QED BY <2>3, <2>4
<1>3. Left' \subseteq Left
    BY <1>1, <1>2 DEF Left
<1>4. p \notin Left'
    BY DEF Left
<1>5. QED BY <1>3, <1>4, LeftGetsLess DEF VInv, OInv

\* The frame on top got further, or to its next list.
LEMMA FurtherEnds ==
    ASSUME FiniteFiles, VInv, OInv', Visiting, shape' = shape, seen' = seen,
           NEW f \in Frames, f.overlay = Top.overlay, stack' = Append(Below, f),
           Within(shape, f),
           \A field : \A i \in Nat : Ahead(f, field, i) => Ahead(Top, field, i),
           ~Ahead(f, Top.field, Top.next)
    PROVE  VInv' /\ Cardinality(Left) \in Nat /\ Cardinality(Left') < Cardinality(Left)
<1>1. /\ OneFrame(stack') /\ InLists(shape, stack') /\ NoMoreAhead(stack')
      /\ ~AheadOn(stack', Top.overlay, Top.field, Top.next)
    BY GotFurther
<1>2. VInv'
    BY <1>1 DEF VInv
<1> DEFINE p == <<Top.overlay, <<Top.field, Top.next>>>>
<1>3. p \in Left /\ p[1] = Top.overlay /\ p[2][1] = Top.field /\ p[2][2] = Top.next
    BY TopIsAhead
<1>4. Top.overlay \in seen
    BY TopFrame DEF VInv, Progress
<1> HIDE DEF p
<1>5. p[1] \in seen' /\ ~AheadOn(stack', p[1], p[2][1], p[2][2]) /\ seen \subseteq seen'
    BY <1>1, <1>3, <1>4
<1>6. QED BY <1>1, <1>2, <1>3, <1>5, LessLeft DEF NoMoreAhead

LEMMA BeginEnds ==
    ASSUME FiniteFiles, VInv, OInv', Begin, resolved' = "visiting"
    PROVE  VInv' /\ Cardinality(Left) \in Nat /\ Cardinality(Left') < Cardinality(Left)
<1> DEFINE f == Frame(asked, "extends", 1)
           p == <<asked, <<"extends", 0>>>>
<1>1. /\ seen = {} /\ stack = << >> /\ shape' = shape /\ asked \in Known
      /\ stack' = <<f>> /\ seen' = {asked}
    BY DEF Begin, VInv, OInv, Ends
<1>2. f.overlay = asked /\ f.field = "extends" /\ f.next = 1
    BY DEF Frame
<1>3. Len(Entries(asked, "extends")) \in Nat
    BY <1>1, EntriesAreSequences DEF VInv, OInv, Fields
<1> HIDE DEF f
<1>4. DOMAIN stack' = {1} /\ stack'[1] = f
    BY <1>1
<1>5. OneFrame(stack')
    BY <1>4 DEF OneFrame
<1>6. Within(shape, f)
    BY <1>2, <1>3 DEF Within, List, Entries
<1>7. VInv'
    BY <1>1, <1>4, <1>5, <1>6 DEF VInv, InLists
<1>8. p \in Positions
    BY <1>1, <1>3, InPositions DEF VInv, OInv, Fields
<1>9. p \in Left
    BY <1>1, <1>8 DEF Left
<1>10. ~AheadOn(stack', asked, "extends", 0)
    BY DEF AheadOn, Ahead
<1>11. p[1] = asked /\ p[2][1] = "extends" /\ p[2][2] = 0
    OBVIOUS
<1> HIDE DEF p
<1>12. p[1] \in seen' /\ ~AheadOn(stack', p[1], p[2][1], p[2][2]) /\ seen \subseteq seen'
    BY <1>1, <1>10, <1>11
<1>13. \A n, field : \A i \in Nat :
          AheadOn(stack', n, field, i) => n \notin seen \/ AheadOn(stack, n, field, i)
    BY <1>1
<1>14. QED BY <1>1, <1>7, <1>9, <1>12, <1>13, LessLeft

LEMMA SkipEnds ==
    ASSUME FiniteFiles, VInv, OInv', VisitParent, Entry \in seen
    PROVE  VInv' /\ Cardinality(Left) \in Nat /\ Cardinality(Left') < Cardinality(Left)
<1> DEFINE f == Frame(Top.overlay, Top.field, Top.next + 1)
<1>1. /\ shape' = shape /\ seen' = seen /\ stack' = Append(Below, f) /\ Visiting /\ More
    BY DEF VisitParent, Advanced
<1>2. /\ f \in Frames /\ f.overlay = Top.overlay /\ f.field = Top.field
      /\ f.next = Top.next + 1
    BY <1>1, TopFrame DEF VInv, Frames, Frame
<1> HIDE DEF f
<1>3. QED BY <1>1, <1>2, EntryPassed, FurtherEnds

LEMMA AddEntryEnds ==
    ASSUME FiniteFiles, VInv, OInv', AddEntry
    PROVE  VInv' /\ Cardinality(Left) \in Nat /\ Cardinality(Left') < Cardinality(Left)
<1> DEFINE f == Frame(Top.overlay, Top.field, Top.next + 1)
<1>1. /\ shape' = shape /\ seen' = seen /\ stack' = Append(Below, f) /\ Visiting /\ More
    BY DEF AddEntry, Advanced
<1>2. /\ f \in Frames /\ f.overlay = Top.overlay /\ f.field = Top.field
      /\ f.next = Top.next + 1
    BY <1>1, TopFrame DEF VInv, Frames, Frame
<1> HIDE DEF f
<1>3. QED BY <1>1, <1>2, EntryPassed, FurtherEnds

LEMMA NextFieldEnds ==
    ASSUME FiniteFiles, VInv, OInv', NextField
    PROVE  VInv' /\ Cardinality(Left) \in Nat /\ Cardinality(Left') < Cardinality(Left)
<1> DEFINE f == Frame(Top.overlay, NextOf(Top.field), 1)
<1>1. /\ shape' = shape /\ seen' = seen /\ stack' = Append(Below, f) /\ Visiting
      /\ Top.field # "exclude_rules"
    BY DEF NextField
<1>2. /\ f \in Frames /\ f.overlay = Top.overlay /\ f.field = NextOf(Top.field)
      /\ f.next = 1
    BY <1>1, TopFrame DEF VInv, Frames, Frame, NextOf, Fields, Collected
<1> HIDE DEF f
<1>3. QED BY <1>1, <1>2, FieldPassed, FurtherEnds

\* A parent is entered: its start is passed, and the entry that names it.
LEMMA EnterEnds ==
    ASSUME FiniteFiles, VInv, OInv', VisitParent, Entry \notin seen
    PROVE  VInv' /\ Cardinality(Left) \in Nat /\ Cardinality(Left') < Cardinality(Left)
<1> DEFINE f == Frame(Top.overlay, "extends", Top.next + 1)
           g == Frame(Entry, "extends", 1)
           base == Append(Below, f)
           p == <<Top.overlay, <<Top.field, Top.next>>>>
<1>1. /\ shape' = shape /\ seen' = seen \cup {Entry} /\ stack' = Append(base, g)
      /\ Visiting /\ More /\ Top.field = "extends" /\ Entry \in Known
    BY DEF VisitParent, Advanced
<1>2. /\ f \in Frames /\ f.overlay = Top.overlay /\ f.field = Top.field
      /\ f.next = Top.next + 1
      /\ g \in Frames /\ g.overlay = Entry /\ g.field = "extends" /\ g.next = 1
    BY <1>1, TopFrame DEF VInv, Frames, Frame, Fields
<1>3. /\ DOMAIN stack' = 1 .. Len(stack) + 1 /\ DOMAIN base = 1 .. Len(stack)
      /\ \A i \in 1 .. Len(stack) : stack'[i] = base[i]
      /\ stack'[Len(stack) + 1] = g /\ Len(stack) \in Nat
    BY <1>1, <1>2, TopFrame, StackReplaced, StackPushed DEF VInv
<1>4. base = Append(Below, f)
    OBVIOUS
<1> HIDE DEF f, g, base
<1>5. /\ OneFrame(base) /\ InLists(shape, base) /\ NoMoreAhead(base)
      /\ ~AheadOn(base, Top.overlay, Top.field, Top.next)
      /\ \A k \in DOMAIN base : base[k].overlay \in seen
    BY <1>1, <1>2, <1>4, EntryPassed, GotFurther
<1>6. ASSUME NEW i \in DOMAIN stack'
      PROVE  (i = Len(stack) + 1 /\ stack'[i] = g) \/ (i \in DOMAIN base /\ stack'[i] = base[i])
  <2>1. i = Len(stack) + 1 \/ i \in 1 .. Len(stack)
      BY <1>3
  <2>2. QED BY <1>3, <2>1
<1>7. OneFrame(stack')
  <2>1. ASSUME NEW i \in DOMAIN stack', NEW j \in DOMAIN stack',
               stack'[i].overlay = stack'[j].overlay
        PROVE  i = j
    <3>1. CASE i \in DOMAIN base /\ stack'[i] = base[i] /\ j \in DOMAIN base /\ stack'[j] = base[j]
        BY <2>1, <3>1, <1>5 DEF OneFrame
    <3>2. CASE i = Len(stack) + 1 /\ stack'[i] = g
        BY <2>1, <3>2, <1>2, <1>5, <1>6
    <3>3. CASE j = Len(stack) + 1 /\ stack'[j] = g
        BY <2>1, <3>3, <1>2, <1>5, <1>6
    <3>4. QED BY <1>6, <3>1, <3>2, <3>3
  <2>2. QED BY <2>1 DEF OneFrame
<1>8. Within(shape, g)
  <2>1. Len(Entries(Entry, "extends")) \in Nat
      BY <1>1, EntriesAreSequences DEF VInv, OInv, Fields
  <2>2. List(shape, g.overlay, g.field) = Entries(Entry, "extends")
      BY <1>2 DEF List, Entries
  <2>3. QED BY <1>2, <2>1, <2>2 DEF Within
<1>9. VInv'
    BY <1>1, <1>5, <1>6, <1>7, <1>8 DEF VInv, InLists
<1>10. \A n, field : \A i \in Nat :
          AheadOn(stack', n, field, i) => n = Entry \/ AheadOn(base, n, field, i)
    BY <1>2, <1>6 DEF AheadOn
<1>11. p \in Left /\ p[1] = Top.overlay /\ p[2][1] = Top.field /\ p[2][2] = Top.next
    BY <1>1, TopIsAhead
<1>12. Top.overlay \in seen /\ Top.next \in Nat
    BY <1>1, TopFrame DEF VInv, Progress
<1> HIDE DEF p
<1>13. p[1] \in seen' /\ seen \subseteq seen'
    BY <1>1, <1>11, <1>12
<1>14. ~AheadOn(stack', p[1], p[2][1], p[2][2])
    BY <1>5, <1>10, <1>11, <1>12
<1>15. \A n, field : \A i \in Nat :
          AheadOn(stack', n, field, i) => n \notin seen \/ AheadOn(stack, n, field, i)
    BY <1>5, <1>10 DEF NoMoreAhead
<1>16. QED BY <1>1, <1>9, <1>11, <1>13, <1>14, <1>15, LessLeft

\* Back to the caller: the frame has nothing ahead any more.
LEMMA ReturnEnds ==
    ASSUME FiniteFiles, VInv, OInv', Return
    PROVE  VInv' /\ Cardinality(Left) \in Nat /\ Cardinality(Left') < Cardinality(Left)
<1> DEFINE p == <<Top.overlay, <<Top.field, Top.next>>>>
<1>1. shape' = shape /\ seen' = seen /\ stack' = Below /\ Visiting
    BY DEF Return
<1>2. /\ Len(stack) \in Nat \ {0} /\ DOMAIN stack = 1 .. Len(stack)
      /\ DOMAIN stack' = 1 .. Len(stack) - 1
      /\ \A i \in 1 .. Len(stack) - 1 : stack'[i] = stack[i]
    BY <1>1, TopFrame, StackShape DEF VInv
<1>3. ASSUME NEW i \in DOMAIN stack'
      PROVE  i \in DOMAIN stack /\ i # Len(stack) /\ stack'[i] = stack[i]
  <2>1. i \in Nat /\ 1 <= i /\ i <= Len(stack) - 1
      BY <1>2
  <2>2. QED BY <1>2, <2>1
<1>4. OneFrame(stack') /\ InLists(shape, stack')
    BY <1>3 DEF VInv, OneFrame, InLists
<1>5. VInv'
    BY <1>1, <1>4 DEF VInv
<1>6. \A n, field : \A i \in Nat :
         AheadOn(stack', n, field, i) => n \notin seen \/ AheadOn(stack, n, field, i)
    BY <1>3 DEF AheadOn
<1>7. p \in Left /\ p[1] = Top.overlay /\ Len(stack) \in DOMAIN stack
    BY <1>1, TopIsAhead
<1>8. Top.overlay \in seen
    BY <1>1, TopFrame DEF VInv, Progress
<1> HIDE DEF p
<1>9. \A i \in DOMAIN stack' : stack'[i].overlay # p[1]
    BY <1>3, <1>7 DEF VInv, OneFrame, Top
<1>10. p[1] \in seen' /\ seen \subseteq seen' /\ ~AheadOn(stack', p[1], p[2][1], p[2][2])
    BY <1>1, <1>7, <1>8, <1>9 DEF AheadOn
<1>11. QED BY <1>1, <1>5, <1>6, <1>7, <1>10, LessLeft

\* A refusal ends the resolution.
LEMMA RefusalEnds ==
    ASSUME FiniteFiles, VInv, OInv', (Begin /\ resolved' # "visiting") \/ Refuse
    PROVE  VInv' /\ Cardinality(Left) \in Nat /\ resolved' # "visiting"
<1>1. shape' = shape /\ stack' = stack /\ resolved' = "refused"
    BY DEF Begin, Refuse
<1>2. VInv'
    BY <1>1 DEF VInv
<1>3. IsFiniteSet(Left)
    BY LeftIsFinite, FS_Subset DEF Left, VInv, OInv
<1>4. QED BY <1>1, <1>2, <1>3, FS_CardinalityType

\* For every finite file of overlays, with diamonds and circles of `extends`, lists of
\* any length and fields of the wrong type: resolve_overlay ends.  Every step it
\* takes is one towards its end.
THEOREM ResolutionEndsCorrect == ASSUME FiniteFiles PROVE OverlaySpec => ResolutionEnds
<1>1. OverlayInit => VInv
  <2>1. SUFFICES ASSUME OverlayInit PROVE VInv
      OBVIOUS
  <2>2. OInv /\ stack = << >>
      BY <2>1, OverlayStarts DEF OverlayInit, OverlayFresh
  <2>3. QED BY <2>2 DEF VInv, OneFrame, InLists
<1>2. VInv /\ [OverlayNext]_overlayVars =>
         /\ VInv'
         /\ [/\ resolved = "visiting"
             /\ Cardinality(Left) \in Nat
             /\ resolved' = "visiting" => Cardinality(Left') < Cardinality(Left)]_overlayVars
  <2>1. SUFFICES ASSUME VInv, [OverlayNext]_overlayVars
        PROVE  /\ VInv'
               /\ [/\ resolved = "visiting"
                   /\ Cardinality(Left) \in Nat
                   /\ resolved' = "visiting" => Cardinality(Left') < Cardinality(Left)]_overlayVars
      OBVIOUS
  <2>2. OInv'
      BY <2>1, OverlaySteps DEF VInv
  <2>3. CASE OverlayNext
    <3>1. resolved = "visiting"
        BY <2>3 DEF OverlayNext, Begin, Refuse, VisitParent, AddEntry, NextField, Return, Visiting
    <3>2. CASE Begin
      <4>1. CASE resolved' = "visiting"
          BY <2>1, <2>2, <3>1, <3>2, <4>1, BeginEnds
      <4>2. CASE resolved' # "visiting"
          BY <2>1, <2>2, <3>1, <3>2, <4>2, RefusalEnds
      <4>3. QED BY <4>1, <4>2
    <3>3. CASE Refuse
        BY <2>1, <2>2, <3>1, <3>3, RefusalEnds
    <3>4. CASE VisitParent
        BY <2>1, <2>2, <3>1, <3>4, SkipEnds, EnterEnds
    <3>5. CASE AddEntry
        BY <2>1, <2>2, <3>1, <3>5, AddEntryEnds
    <3>6. CASE NextField
        BY <2>1, <2>2, <3>1, <3>6, NextFieldEnds
    <3>7. CASE Return
        BY <2>1, <2>2, <3>1, <3>7, ReturnEnds
    <3>8. QED BY <2>3, <3>2, <3>3, <3>4, <3>5, <3>6, <3>7 DEF OverlayNext
  <2>4. CASE UNCHANGED overlayVars
    <3>1. shape' = shape /\ stack' = stack
        BY <2>4 DEF overlayVars
    <3>2. QED BY <2>1, <2>2, <2>4, <3>1 DEF VInv
  <2>5. QED BY <2>1, <2>3, <2>4
<1>3. QED BY <1>1, <1>2, PTL DEF OverlaySpec, ResolutionEnds
=============================================================================
