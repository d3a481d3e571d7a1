------------------------------ MODULE MCSkills ------------------------------
(* Instances of Skills and Search for TLC: plans written for five intents,  *)
(* submitted with workflows that do what was meant, or anything else; and   *)
(* searches over six candidates, of which one is not valid, with operators  *)
(* that undo each other and meet at the same candidate.  A behaviour is     *)
(* about one of the two.                                                    *)
EXTENDS Skills, Search

VARIABLE side \* "library" or "search"

It(a, b) == [a |-> a, b |-> b]
Both == <<It(1, 2), It(2, 1)>>
Large == <<It(2, 2), It(2, 1), It(2, 0)>>
Zero == <<It(0, 0)>>

Meant(reads, keep, paths) == [reads |-> reads, keep |-> keep, paths |-> paths, fails |-> FALSE]
Intents == {Meant("a", "all", 1), Meant("b", "all", 2), Meant("b", "large", 1),
            Meant("a", "alternate", 1), Meant("one", "all", 1)}

Empty == [spec |-> <<>>, golden |-> <<>>, semantic |-> <<>>, metamorphic |-> <<>>]

Spec(w, input) ==
    <<[input |-> input,
       assertions |-> <<[kind |-> "count_eq", n |-> Len(Observe(w, input))],
                        [kind |-> "every_has", n |-> 0]>>]>>
OtherSpec(w, input) ==
    <<[input |-> input,
       assertions |-> <<[kind |-> "count_ge", n |-> Len(Observe(w, input))],
                        [kind |-> "count_le", n |-> Len(Observe(w, input))],
                        [kind |-> "some_eq", n |-> Head(Observe(w, input))],
                        [kind |-> "no_eq", n |-> 3]>>]>>
Golden(w, input, mode) == [input |-> input, mode |-> mode, expected |-> Observe(w, input)]
Scaling(w, factor, base) ==
    [kind |-> "scaling", field |-> IF w.reads = "b" THEN "b" ELSE "a", factor |-> factor,
     base |-> base]
AppendTo(w, base, extra) ==
    [kind |-> "append", base |-> base, extra |-> extra, perItem |-> w.paths]
Conserved(base) == [kind |-> "conservation", base |-> base]
Standard(seed) ==
    [seed |-> seed, factor |-> 3,
     relations |-> {"rerun", "permutation", "duplication", "additivity"}]

\* Plans for an intent, and whether each is enough for a workflow that meets it.
Reads(w) == w.reads \in {"a", "b"}
Fixed(w) == w.keep = "all" \* every item reaches the node
PlansFor(w) ==
    {<<[Empty EXCEPT !.spec = Spec(w, Large), !.semantic = <<Scaling(w, 2, Large)>>], Reads(w) /\ w.keep # "alternate">>,
     <<[Empty EXCEPT !.spec = OtherSpec(w, Large), !.semantic = <<Scaling(w, 3, Large), AppendTo(w, Both, Large)>>,
                     !.metamorphic = <<Standard(Both)>>], Reads(w) /\ w.keep # "alternate">>,
     <<[Empty EXCEPT !.golden = <<Golden(w, Both, "exact"), Golden(w, Large, "multiset")>>,
                     !.semantic = <<AppendTo(w, Both, Large)>>, !.metamorphic = <<Standard(Large)>>], w.keep # "alternate">>,
     <<[Empty EXCEPT !.golden = <<Golden(w, Both, "multiset")>>, !.semantic = <<Conserved(Both)>>,
                     !.metamorphic = <<[Standard(Zero) EXCEPT !.factor = 1]>>], Fixed(w) /\ w.paths = 1>>,
     <<[Empty EXCEPT !.semantic = <<Scaling(w, 1, Large), Scaling(w, 1, Both)>>], FALSE>>,
     <<[Empty EXCEPT !.semantic = <<Scaling(w, 0, Large), Scaling(w, 2, Zero)>>], FALSE>>,
     <<[Empty EXCEPT !.semantic = <<AppendTo(w, Both, <<>>), Conserved(<<>>)>>], FALSE>>,
     <<[Empty EXCEPT !.semantic = <<Scaling(w, 2, Both)>>], FALSE>>,
     <<[Empty EXCEPT !.spec = Spec(w, Both), !.golden = <<Golden(w, Both, "exact")>>], FALSE>>,
     <<[Empty EXCEPT !.metamorphic = <<Standard(Both)>>], FALSE>>,
     <<Empty, FALSE>>}

Promotion(flow, observe, query, behaviour, intent, plan) ==
    [kind |-> "promote", flow |-> flow, observe |-> observe, query |-> query, does |-> behaviour,
     intent |-> intent, plan |-> plan[1], enough |-> plan[2]]

Anything == UNION {{Promotion(1, "last", {"tag", "mail"}, w, i, p) : w \in Workflows, p \in PlansFor(i)} :
                 i \in Intents}

Good == Meant("a", "all", 1)
GoodPlan == CHOOSE p \in PlansFor(Good) : p[2]

Others == {Promotion(flow, o, q, Good, Good, GoodPlan) :
              flow \in {1, 2}, o \in {"first", "last"}, q \in {{"sort", "mail", "the"}, {"the"}}}

Finds == {[kind |-> "find", query |-> q, k |-> k] :
             q \in {{}, {"tag", "mail"}, {"mail", "the"}}, k \in {0, 1, 20}}

CONSTANTS c1, c2, c3

Clerks == {Promotion(1, "last", {"tag", "mail"}, w, Good, p) :
              w \in {Good, Meant("b", "all", 1)}, p \in PlansFor(Good)}

Together(P, Q, F) == {[c \in {c1, c2, c3} |-> CASE c = c1 -> p [] c = c2 -> q [] c = c3 -> f] :
                         p \in P, q \in Q, f \in F}

AFind == [kind |-> "find", query |-> {"mail"}, k |-> 2]

\* Any workflow with any plan; and a few promotions, searches and rows together.
MCRequests == Together(Anything, {[AFind EXCEPT !.k = 1]}, {AFind})
                  \cup Together(Clerks, Others, Finds)

OldRow(flow, query, readable) ==
    [flow |-> flow, observe |-> "last", query |-> query, tokens |-> Tokens(query), score |-> 100,
     checks |-> <<>>, readable |-> readable]

MCStored == {{}, {OldRow(2, {"tag", "all", "new", "mail"}, TRUE), OldRow(3, {"sort", "mail"}, TRUE)},
             {OldRow(1, {"tag"}, FALSE)}}

-----------------------------------------------------------------------------
MCDerived ==
    [op \in {"set", "insert", "remove"} |->
        [c \in 1..6 |->
            CASE op = "set" -> CASE c = 3 -> {2, 5} [] c = 2 -> {1} [] c = 5 -> {1, 6} [] OTHER -> {}
              [] op = "insert" -> CASE c = 3 -> {4, 3} [] c = 1 -> {4} [] OTHER -> {}
              [] op = "remove" -> CASE c = 4 -> {3} [] c = 2 -> {5} [] OTHER -> {}]]

MCSize == <<3, 3, 3, 4, 2, 2>>

Larger == <<It(2, 2), It(2, 1)>>

Does(reads, keep, fails) == [reads |-> reads, keep |-> keep, paths |-> 1, fails |-> fails]
MCBehaviours == {Does("a", "all", FALSE), Does("b", "all", FALSE), Does("a", "large", FALSE),
                 Does("one", "all", TRUE)}

Doubling(base) == [kind |-> "scaling", field |-> "a", factor |-> 2, base |-> base]
GoldenOn(input) == [input |-> input, mode |-> "exact", expected |-> [i \in DOMAIN input |-> input[i].a]]
OneSpec(input, n) == [input |-> input, assertions |-> <<[kind |-> "count_eq", n |-> n]>>]

Fit == [Empty EXCEPT !.spec = <<OneSpec(Both, 2)>>, !.golden = <<GoldenOn(<<It(1, 0)>>)>>,
                     !.semantic = <<Doubling(<<It(2, 0), It(1, 0)>>)>>]
Held == [Empty EXCEPT !.golden = <<GoldenOn(Larger)>>, !.semantic = <<Doubling(<<It(1, 1)>>)>>]
Zeros == [Empty EXCEPT !.golden = <<GoldenOn(<<It(0, 1)>>)>>]

PlansOf(f, h) == [fitness |-> f, holdout |-> h]
Budget(g, b, c) == [generations |-> g, beam |-> b, cap |-> c]
All == {"set", "insert", "remove"}

Searching(O, P, B) == [ops : O, plans : P, budget : B]

MCSearches ==
    Searching({All, {"set"}}, {PlansOf(Fit, Held)}, [generations : {4}, beam : {0, 6}, cap : {0, 1}])
    \cup Searching({All}, {PlansOf(Held, Fit), PlansOf(Fit, Zeros)},
                   {Budget(0, 1, 0), Budget(2, 2, 0), Budget(2, 6, 2)})
    \cup Searching({{}}, {PlansOf(Fit, Held)}, {Budget(2, 1, 0)})
    \cup Searching({All}, {PlansOf(Zeros, Held),
                           PlansOf(Fit, [Held EXCEPT !.golden = <<GoldenOn(Both)>>]),
                           PlansOf(Fit, [Held EXCEPT !.spec = <<OneSpec(Larger, 2)>>])},
                   {Budget(2, 1, 0)})

-----------------------------------------------------------------------------
FirstRequest == CHOOSE r \in MCRequests : r[c2].kind = "find"

MCInit ==
    \/ /\ side = "library"
       /\ ops = {} /\ plans = PlansOf(Fit, Held) /\ budget = Budget(2, 1, 0)
       /\ does = [c \in Sound |-> Does("a", "all", FALSE)]
       /\ SkillsInit /\ SearchInit
    \/ /\ side = "search"
       /\ request = FirstRequest
       /\ rows = {}
       /\ SkillsInit /\ SearchInit

MCNext ==
    \/ side = "library" /\ SkillsNext /\ UNCHANGED <<searchVars, side>>
    \/ side = "search" /\ SearchNext /\ UNCHANGED <<skillVars, side>>

MCSpec == MCInit /\ [][MCNext]_<<skillVars, searchVars, side>>
=============================================================================
