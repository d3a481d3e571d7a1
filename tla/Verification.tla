---------------------------- MODULE Verification ----------------------------
(***************************************************************************)
(* crates/a2w-verify: the checks of a verification plan, each of which     *)
(* runs the workflow in dry-run mode on inputs of its own and looks at     *)
(* what the observed node emits, and the report that they make.            *)
(*                                                                         *)
(* Of a workflow only what its observed node emits is kept: an item has    *)
(* two numeric fields, and the output a field computed from one of them.   *)
(***************************************************************************)
EXTENDS Integers, Sequences, FiniteSets, SequencesExt

Item == [a : Int, b : Int]
Input == Seq(Item)
Absent == -1

-----------------------------------------------------------------------------
(* What a workflow does: the field its output is computed from (or the     *)
(* constant 1), the items that reach the observed node (all, those whose   *)
(* field a is large, every other one as the dry run of an approval lets    *)
(* them through, or one mock as for a sub-workflow), along how many paths, *)
(* and whether it fails on an item without amount.                         *)

Workflows == [reads : {"a", "b", "one"}, keep : {"all", "large", "alternate", "mock"},
              paths : 1..2, fails : BOOLEAN]

Reading(w, item) == CASE w.reads = "a" -> item.a
                      [] w.reads = "b" -> item.b
                      [] w.reads = "one" -> 1

Reached(w, input) ==
    CASE w.keep = "all" -> input
      [] w.keep = "large" -> FlattenSeq([i \in DOMAIN input |-> IF input[i].a >= 2 THEN <<input[i]>>
                                                               ELSE <<>>])
      [] w.keep = "alternate" -> [i \in 1..((Len(input) + 1) \div 2) |-> input[2 * i - 1]]
      [] w.keep = "mock" -> <<>>

RunFails(w, input) == w.fails /\ \E item \in Range(input) : item.a = 0

\* VerificationHarness::observe, of a run that does not fail.
Observe(w, input) ==
    LET reached == Reached(w, input)
        out == IF w.keep = "mock" THEN <<Absent>>
               ELSE [i \in DOMAIN reached |-> Reading(w, reached[i])]
    IN  IF w.paths = 2 THEN out \o out ELSE out

\* Items are handled one by one: the engine's promise that the engine-invariant
\* relations are about.
Itemwise(w) == w.keep \in {"all", "large"}

-----------------------------------------------------------------------------
(* multiset_of, multiset_eq. *)

MultisetOf(s) == [v \in Range(s) |-> Cardinality({i \in DOMAIN s : s[i] = v})]

MultisetEq(s, t) == Len(s) = Len(t) /\ MultisetOf(s) = MultisetOf(t)

Times(s, factor) == FlattenSeq([k \in 1..factor |-> s])

Sum(s) ==
    LET upTo[i \in 0..Len(s)] ==
            IF i = 0 THEN 0 ELSE upTo[i - 1] + (IF s[i] = Absent THEN 0 ELSE s[i])
    IN  upTo[Len(s)]

\* The code scales any number by any factor.
ScaleField(input, field, factor) ==
    [i \in DOMAIN input |-> [input[i] EXCEPT ![field] = @ * factor]]

-----------------------------------------------------------------------------
(* A plan: a spec (at most one), golden fixtures, semantic relations and   *)
(* metamorphic suites (at most one).  Assertions and relations name their  *)
(* kind.                                                                   *)

SpecAssertion ==
    [kind : {"count_eq", "count_ge", "count_le", "every_has", "every_eq", "some_eq", "no_eq"},
     n : Int]

WorkflowSpec == [input : Input, assertions : Seq(SpecAssertion)]

GoldenFixture == [input : Input, mode : {"exact", "multiset"}, expected : Seq(Int)]

SemanticRelation ==
    [kind : {"scaling"}, field : {"a", "b"}, factor : Int, base : Input]
    \cup [kind : {"append"}, base : Input, extra : Input, perItem : Int]
    \cup [kind : {"conservation"}, base : Input]

MetamorphicSuite ==
    [seed : Input, factor : Nat,
     relations : SUBSET {"rerun", "permutation", "duplication", "additivity"}]

Optional(S) == {s \in Seq(S) : Len(s) <= 1}

VerificationPlan ==
    [spec : Optional(WorkflowSpec), golden : Seq(GoldenFixture),
     semantic : Seq(SemanticRelation), metamorphic : Optional(MetamorphicSuite)]

-----------------------------------------------------------------------------
(* The checks: what they pass on.                                          *)

\* SpecAssertion::evaluate
Holds(assertion, out) ==
    CASE assertion.kind = "count_eq" -> Len(out) = assertion.n
      [] assertion.kind = "count_ge" -> Len(out) >= assertion.n
      [] assertion.kind = "count_le" -> Len(out) <= assertion.n
      [] assertion.kind = "every_has" -> \A v \in Range(out) : v # Absent
      [] assertion.kind = "every_eq" -> \A v \in Range(out) : v = assertion.n
      [] assertion.kind = "some_eq" -> \E v \in Range(out) : v = assertion.n
      [] assertion.kind = "no_eq" -> \A v \in Range(out) : v # assertion.n

GoldenMatches(w, g) ==
    IF g.mode = "exact" THEN Observe(w, g.input) = g.expected
    ELSE MultisetEq(Observe(w, g.input), g.expected)

\* Mutant: only a sum of zero is refused.
DegenerateSum(factor, baseSum) == baseSum = 0

\* A factor or a sum that cannot tell one workflow from another.
Degenerate(factor, baseSum) == factor \in {0, 1} \/ baseSum = 0

ScalingHolds(w, r) ==
    LET base == Sum(Observe(w, r.base))
        scaled == Sum(Observe(w, ScaleField(r.base, r.field, r.factor)))
    IN  ~Degenerate(r.factor, base) /\ scaled = base * r.factor

AppendHolds(w, r) ==
    Len(Observe(w, r.base \o r.extra)) = Len(Observe(w, r.base)) + Len(r.extra) * r.perItem

ConservationHolds(w, r) == Len(Observe(w, r.base)) = Len(r.base)

SemanticHolds(w, r) ==
    CASE r.kind = "scaling" -> ScalingHolds(w, r)
      [] r.kind = "append" -> AppendHolds(w, r)
      [] r.kind = "conservation" -> ConservationHolds(w, r)

RerunIdentity(w, seed) == Observe(w, seed) = Observe(w, seed)

Permutation(w, seed) == MultisetEq(Observe(w, seed), Observe(w, Reverse(seed)))

Duplication(w, seed, factor) ==
    MultisetEq(Times(Observe(w, seed), factor), Observe(w, Times(seed, factor)))

\* Mutant: the halves overlap by the item in the middle.
AdditivityOverlapping(w, seed) ==
    LET mid == Len(seed) \div 2
    IN  Len(seed) < 2 \/
        MultisetEq(Observe(w, SubSeq(seed, 1, mid + 1))
                       \o Observe(w, SubSeq(seed, mid + 1, Len(seed))),
                   Observe(w, seed))

\* A seed of fewer than two items is skipped, and passes.
Additivity(w, seed) ==
    LET mid == Len(seed) \div 2
    IN  Len(seed) < 2 \/
        MultisetEq(Observe(w, SubSeq(seed, 1, mid))
                       \o Observe(w, SubSeq(seed, mid + 1, Len(seed))),
                   Observe(w, seed))

Result(category, passed) == [category |-> category, passed |-> passed]

\* MetamorphicSuite::run: the relations that the suite names.
InvariantResults(w, m) ==
    LET Named(relation, passed) ==
            IF relation \in m.relations THEN <<Result("engine", passed)>> ELSE <<>>
    IN  Named("rerun", RerunIdentity(w, m.seed))
        \o Named("permutation", Permutation(w, m.seed))
        \o (IF m.factor >= 2 THEN Named("duplication", Duplication(w, m.seed, m.factor)) ELSE <<>>)
        \o Named("additivity", Additivity(w, m.seed))

-----------------------------------------------------------------------------
(* verify. *)

SpecResults(w, spec) ==
    [k \in DOMAIN spec.assertions |->
        Result("spec", Holds(spec.assertions[k], Observe(w, spec.input)))]

GoldenResults(w, plan) ==
    [i \in DOMAIN plan.golden |-> Result("golden", GoldenMatches(w, plan.golden[i]))]

SemanticResults(w, plan) ==
    [i \in DOMAIN plan.semantic |-> Result("semantic", SemanticHolds(w, plan.semantic[i]))]

Report(w, plan) ==
    (IF plan.spec = <<>> THEN <<>> ELSE SpecResults(w, plan.spec[1]))
    \o GoldenResults(w, plan)
    \o SemanticResults(w, plan)
    \o (IF plan.metamorphic = <<>> THEN <<>> ELSE InvariantResults(w, plan.metamorphic[1]))

\* The inputs that the plan runs the workflow on.
InputsOf(plan) ==
    {plan.spec[i].input : i \in DOMAIN plan.spec}
    \cup {plan.golden[i].input : i \in DOMAIN plan.golden}
    \cup UNION {LET r == plan.semantic[i]
                IN  IF r.kind = "append" THEN {r.base, r.base \o r.extra}
                    ELSE IF r.kind = "scaling"
                    THEN {r.base, ScaleField(r.base, r.field, r.factor)}
                    ELSE {r.base} : i \in DOMAIN plan.semantic}
    \cup {plan.metamorphic[i].seed :
             i \in {j \in DOMAIN plan.metamorphic : plan.metamorphic[j].relations # {}}}

\* One failed run, and there is no report.
VerifyFails(w, plan) == \E input \in InputsOf(plan) : RunFails(w, input)

-----------------------------------------------------------------------------
(* ConfidenceReport. *)

Count(report, P(_)) == Cardinality({i \in DOMAIN report : P(report[i])})

IsOutcome(c) == c.category # "engine"

OutcomeTotal(report) == Count(report, IsOutcome)
OutcomePassed(report) == Count(report, LAMBDA c : IsOutcome(c) /\ c.passed)
SemanticPassed(report) == Count(report, LAMBDA c : c.category = "semantic" /\ c.passed)

\* Mutant: the checks of the engine count among the passed.
ScoreOfAll(report) ==
    IF OutcomeTotal(report) = 0 THEN 0
    ELSE (100 * Count(report, LAMBDA c : c.passed)) \div OutcomeTotal(report)

\* The share of the outcome checks that passed, in percent; 0 when there is none.
Score(report) ==
    IF OutcomeTotal(report) = 0 THEN 0
    ELSE (100 * OutcomePassed(report)) \div OutcomeTotal(report)

\* Mutant: the checks of the engine count as evidence of the outcome.
MeetsOfAny(report) ==
    Len(report) >= 2 /\ \A i \in DOMAIN report : report[i].passed

\* meets, at the default threshold.
Meets(report) ==
    /\ OutcomeTotal(report) >= 2
    /\ SemanticPassed(report) >= 1
    /\ Score(report) >= 100
    /\ \A i \in DOMAIN report : report[i].passed
=============================================================================
