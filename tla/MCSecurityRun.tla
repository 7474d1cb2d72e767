--------------------------- MODULE MCSecurityRun ----------------------------
(* The configuration the run of SecurityRun checks: every event with one    *)
(* finding in one file, every way a pushed ref is told, every command line  *)
(* with more findings on two events, every hook, and every way three        *)
(* overlays extend each other.                                              *)
EXTENDS SecurityRun

LOCAL Seqs == INSTANCE SequencesExt

CONSTANTS bad, hint, tagged    \* issues: no audit rule, an audit rule by its id, a tagged rule

\* Changes around the page size and the page limit, scaled to 2 files a page and
\* 2 pages: none, less than a page, a page, between, all the pages, more than the
\* API lists; names that do not survive every way.
AllSizes == {<< >>, <<"a">>, <<"a", "m">>, <<"a", "m", "gone">>,
             <<"a", "m", "i", "gone">>, <<"a", "b", "m", "i", "e">>, <<"odd", "padded">>}

\* Pushes that add files, before others or after them, and pushes that take one out;
\* a pull request may be pushed to again after either.
Longer == {<<"A", "a", "m", "gone">>, <<"A", "B", "a", "m">>}
Adding == {push \in AllSizes \X (AllSizes \cup Longer) :
             push[1] # push[2] /\ InSeq(push[1]) \subseteq InSeq(push[2])}
TakingOut == UNION {{<<list, Seqs!RemoveAt(list, i)>> : i \in DOMAIN list} :
                    list \in AllSizes}
AllPushes == Adding \cup TakingOut

Trees(t, hits) == [u \in Tools |-> IF u = t THEN hits ELSE {}]
Alone(t) == [command |-> "ci", mode |-> "ratchet", measure |-> "no", audit |-> "drop", tools |-> {t}]
EmptyBaselines == [t \in Tools |-> {}]

\* Every event and every change, a severe finding in one of its files.
EveryEvent ==
    /\ DeriveInit /\ event.tells \in {{}, RefFields}
    /\ \E t \in Tools, n \in {"a", "b", "m", "i", "e", "odd"} :
          /\ n \in InSeq(change) /\ Reads(t, n)
          /\ args = Alone(t) /\ tree = Trees(t, {<<n, bad>>})
    /\ severe = {bad} /\ baselines = EmptyBaselines

\* Every way to tell which ref was pushed, with a finding outside of the change.
EveryPush ==
    /\ DeriveInit /\ event.kind = "push" /\ env = "unset" /\ change = <<"a", "m">>
    /\ args = Alone("opengrep") /\ tree = Trees("opengrep", {<<"a", bad>>, <<"b", bad>>})
    /\ severe = {bad} /\ baselines = EmptyBaselines

\* Every command line on a few events, findings of every kind of rule.
Told == [kind |-> "pull_request", number |-> "unknown", base |-> "sha", pushed |-> NoRef,
         tells |-> {}, default |-> "named", before |-> "sha"]
Pushed == [kind |-> "push", number |-> "unknown", base |-> "sha", pushed |-> DefaultRef,
           tells |-> RefFields, default |-> "named", before |-> "sha"]
Kinds == {bad, hint, tagged}
Found == {<<"a", i>> : i \in Kinds} \cup {<<"b", bad>>}
Other == {<<"m", bad>>}
EveryScan ==
    /\ event \in {Told, Pushed} /\ env = "unset" /\ diff = "history" /\ change = <<"a", "m">>
    /\ listed = change /\ pc = "env" /\ page = 0 /\ files = {} /\ scope = "none"
    /\ slipped = {}
    /\ args \in {[command |-> "ci", mode |-> mode, measure |-> measure, audit |-> audit,
                  tools |-> tools] :
                 mode \in {"advisory", "ratchet"}, measure \in {"no", "yes"},
                 audit \in {"drop", "upload"},
                 tools \in {Tools, {"opengrep", "osv"}}}
    /\ severe \in {Kinds, {bad, tagged}, {hint}}
    /\ tree \in {[t \in Tools |-> IF t = "opengrep" THEN hits ELSE IF t = "osv" THEN other ELSE {}] :
                 hits \in SUBSET Found, other \in {{}, Other}}
    /\ baselines \in {[t \in Tools |-> base] : base \in {NoBaseline, {}}}
                  \cup {[t \in Tools |-> {KeyOf(t, <<"a", bad>>)}]}

\* Every hook.
EveryHook ==
    /\ event = Pushed /\ env = "unset" /\ diff = "history" /\ change = <<"a", "m", "gone">>
    /\ listed = change /\ pc = "env" /\ page = 0 /\ files = {} /\ scope = "none"
    /\ slipped = {}
    /\ \E t \in Tools, hits \in SUBSET Found, base \in {NoBaseline, {}, {<<"a", bad>>}} :
          /\ args = [Alone(t) EXCEPT !.command = "hook"] /\ tree = Trees(t, hits)
          /\ baselines = [u \in Tools |-> base]
    /\ severe = {bad, tagged}

\* Overlays that extend each other in every way, circles and unknown parents
\* included; one with a field of the wrong type; one without packs.
Spec1(parents, packs, wrong) ==
    [list |-> [extends |-> parents, packs |-> packs, exclude_rules |-> << >>], wrong |-> wrong]
Plain == [base |-> Spec1(<< >>, <<"p">>, {})]
Others(n) == {"x", "y", "z"} \ {n}
Parents(n) == {<< >>, <<"unknown">>} \cup {<<p>> : p \in Others(n)}
              \cup {<<p, q>> : p \in Others(n), q \in Others(n)}
Graphs3 == {[x |-> Spec1(ex, <<"px", "p">>, {}), y |-> Spec1(ey, <<"py", "p">>, {}),
             z |-> Spec1(ez, pz, wz)] :
            ex \in Parents("x"), ey \in Parents("y"), ez \in Parents("z"),
            pz \in {<<"p", "lost">>}, wz \in {{}}}
Faulty == {[x |-> Spec1(<<"y">>, << >>, {}), y |-> Spec1(<< >>, packs, wrong)] :
           packs \in {<< >>, <<"lost">>, <<"p">>},
           wrong \in {{}, {"extends"}, {"packs"}, {"exclude_rules"}, Fields}}
AllShapes == {Plain} \cup Graphs3 \cup Faulty
EveryOverlay ==
    /\ event = Pushed /\ env = "ALL" /\ diff = "history" /\ change = <<"a">>
    /\ listed = change /\ pc = "env" /\ page = 0 /\ files = {} /\ scope = "none"
    /\ slipped = {}
    /\ args = Alone("opengrep") /\ tree = Trees("opengrep", {<<"a", bad>>})
    /\ severe = {bad} /\ baselines = EmptyBaselines
    /\ shape \in Graphs3 \cup Faulty /\ asked \in {"x", "unknown"}

MCInit ==
    /\ \/ (EveryEvent \/ EveryPush \/ EveryScan \/ EveryHook) /\ shape = Plain /\ asked = "base"
       \/ EveryOverlay
    /\ Fresh /\ OverlayFresh /\ alerts = << >>
MCSpec == MCInit /\ [][Next]_runVars
=============================================================================
