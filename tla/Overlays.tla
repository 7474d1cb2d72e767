------------------------------ MODULE Overlays ------------------------------
(* hooks.resolve_overlay: from the name of an overlay to the rule packs     *)
(* opengrep is run with and the rules it leaves out, through `extends`.     *)
(* The recursion of visit is a stack of frames.                             *)
EXTENDS Naturals, Sequences

CONSTANTS Shapes,       \* what opengrep-overlays.json may hold
          Asked         \* names a caller may ask for

Collected == {"packs", "exclude_rules"}
Fields == {"extends"} \cup Collected
NextOf(field) == IF field = "extends" THEN "packs" ELSE "exclude_rules"
OneOf(list) == {list[i] : i \in DOMAIN list}

\* An overlay is its three lists and the fields that are no list of strings; a
\* spec that is no object has all of them wrong.
ASSUME OverlaysAssumption ==
    \A file \in Shapes : \A n \in DOMAIN file :
        /\ \A field \in Fields : file[n].list[field] \in Seq(OneOf(file[n].list[field]))
        /\ file[n].wrong \subseteq Fields

VARIABLES
    shape, asked,       \* the file and the name; never change
    stack,              \* the calls of visit: overlay, field, index in the field
    seen,
    lists,              \* packs and exclude_rules, as collected
    resolved            \* "visiting", "done", "refused"

overlayVars == <<shape, asked, stack, seen, lists, resolved>>

Known == DOMAIN shape
Entries(n, field) == shape[n].list[field]
Frame(n, field, next) == [overlay |-> n, field |-> field, next |-> next]
Top == stack[Len(stack)]
Below == SubSeq(stack, 1, Len(stack) - 1)

\* Frames are of known overlays, and what is collected some overlay declares.
Declared(field) == UNION {OneOf(Entries(n, field)) : n \in Known}
OverlayTypeOK ==
    /\ seen \subseteq Known
    /\ stack \in Seq([overlay : Known, field : Fields, next : Nat \ {0}])
    /\ DOMAIN lists = Collected
    /\ \A field \in Collected : lists[field] \in Seq(Declared(field))
    /\ resolved \in {"visiting", "done", "refused"}

OverlayFresh ==
    /\ stack = << >> /\ seen = {} /\ resolved = "visiting"
    /\ lists = [field \in Collected |-> << >>]
OverlayInit == shape \in Shapes /\ asked \in Asked /\ OverlayFresh
-----------------------------------------------------------------------------
\* resolve_overlay: an unknown name is refused, a known one visited.
Begin ==
    /\ resolved = "visiting" /\ seen = {}
    /\ IF asked \in Known
       THEN stack' = <<Frame(asked, "extends", 1)>> /\ seen' = {asked} /\ UNCHANGED resolved
       ELSE resolved' = "refused" /\ UNCHANGED <<stack, seen>>
    /\ UNCHANGED <<shape, asked, lists>>

Visiting == resolved = "visiting" /\ stack # << >>
More == Top.next <= Len(Entries(Top.overlay, Top.field))
Entry == Entries(Top.overlay, Top.field)[Top.next]
Wrong == Top.field \in shape[Top.overlay].wrong
Advanced == Append(Below, Frame(Top.overlay, Top.field, Top.next + 1))

\* _overlay_field raises on a field of the wrong type, visit on an unknown parent.
Refuse ==
    /\ Visiting
    /\ Wrong \/ (Top.field = "extends" /\ More /\ Entry \notin Known)
    /\ resolved' = "refused" /\ UNCHANGED <<shape, asked, stack, seen, lists>>

\* visit(parent): once for each overlay, whoever extends it.
VisitParent ==
    /\ Visiting /\ ~Wrong /\ Top.field = "extends" /\ More /\ Entry \in Known
    /\ IF Entry \in seen THEN stack' = Advanced /\ UNCHANGED seen
       ELSE stack' = Append(Advanced, Frame(Entry, "extends", 1)) /\ seen' = seen \cup {Entry}
    /\ UNCHANGED <<shape, asked, lists, resolved>>

\* A pack, or a rule to leave out, is added once.
Added(list, entry) == IF entry \in OneOf(list) THEN list ELSE Append(list, entry)
AddEntry ==
    /\ Visiting /\ ~Wrong /\ Top.field \in Collected /\ More
    /\ lists' = [lists EXCEPT ![Top.field] = Added(lists[Top.field], Entry)]
    /\ stack' = Advanced /\ UNCHANGED <<shape, asked, seen, resolved>>

\* The next field, or back to the caller.
NextField ==
    /\ Visiting /\ ~Wrong /\ ~More /\ Top.field # "exclude_rules"
    /\ stack' = Append(Below, Frame(Top.overlay, NextOf(Top.field), 1))
    /\ UNCHANGED <<shape, asked, seen, lists, resolved>>
ReturnEarly ==
    /\ Visiting /\ ~Wrong /\ ~More
    /\ stack' = Below
    /\ resolved' = IF Below = << >> THEN "done" ELSE "visiting"
    /\ UNCHANGED <<shape, asked, seen, lists>>
Return ==
    /\ Visiting /\ ~Wrong /\ ~More /\ Top.field = "exclude_rules"
    /\ stack' = Below
    /\ resolved' = IF Below = << >> THEN "done" ELSE "visiting"
    /\ UNCHANGED <<shape, asked, seen, lists>>

OverlayNext == Begin \/ Refuse \/ VisitParent \/ AddEntry \/ NextField \/ Return
OverlaySpec == OverlayInit /\ [][OverlayNext]_overlayVars
-----------------------------------------------------------------------------
\* The overlays a name stands for are the least set that holds it and, of each
\* of its members, every parent.
Closed(names) == \A n \in names : OneOf(Entries(n, "extends")) \subseteq names

\* However overlays extend one another, in a diamond or in a circle, what is
\* resolved is everything the overlay stands for and nothing else: an overlay that
\* is skipped because it is being visited still has its packs in the end.
ResolvedIsTheClosure ==
    resolved = "done" =>
        /\ asked \in seen /\ Closed(seen)
        /\ \A names \in SUBSET Known : asked \in names /\ Closed(names) => seen \subseteq names
        /\ \A field \in Collected :
              OneOf(lists[field]) = UNION {OneOf(Entries(n, field)) : n \in seen}

\* Parents contribute first: while an overlay adds its own packs, those of every
\* parent are there, unless the parent waits for this very overlay (a circle).
OnStack(n) == \E i \in DOMAIN stack : stack[i].overlay = n
ParentsFirst ==
    \A i \in DOMAIN stack : stack[i].field # "extends" =>
        \A p \in OneOf(Entries(stack[i].overlay, "extends")) :
           OnStack(p) \/ \A field \in Collected :
                            OneOf(Entries(p, field)) \subseteq OneOf(lists[field])
=============================================================================
