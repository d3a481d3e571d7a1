-------------------------------- MODULE Search --------------------------------
(***************************************************************************)
(* evolve of crates/a2w-search/src/lib.rs: a beam search over rewrites of  *)
(* a workflow.  It ranks by one verification plan, the fitness, and        *)
(* certifies the winner on another, the holdout, which shares no evidence  *)
(* with the first (disjoint.rs).                                           *)
(*                                                                         *)
(* A candidate is told by its canonical form, a number; which candidates   *)
(* an operator makes of another is a constant.  Module Rewrites has the    *)
(* operators themselves.                                                   *)
(***************************************************************************)
EXTENDS Verification

CONSTANTS
    Candidates,   \* canonical forms, in their order
    Seed,
    Operators,
    Derived,      \* Derived[op][c]: what an operator makes of a candidate
    Size,         \* the number of its nodes
    Sound,        \* the candidates that are valid and keep the observed node
    Behaviours,   \* what a candidate may do
    SearchRequests \* what callers ask for: operators, plans and a budget

\* There may be any number of candidates, but an operator makes finitely many of one.
ASSUME SearchAssumption ==
    /\ Candidates \subseteq Nat /\ Seed \in Sound /\ Sound \subseteq Candidates
    /\ Size \in [Candidates -> Nat]
    /\ IsFiniteSet(Operators)
    /\ Derived \in [Operators -> [Candidates -> SUBSET Candidates]]
    /\ \A op \in Operators, c \in Candidates : IsFiniteSet(Derived[op][c])
    /\ Behaviours \subseteq Workflows
    /\ \A r \in SearchRequests :
          /\ r.ops \subseteq Operators
          /\ r.plans \in [fitness : VerificationPlan, holdout : VerificationPlan]
          /\ r.budget \in [generations : Nat, beam : Nat, cap : Nat]

VARIABLES
    ops, plans, budget,  \* the request
    does,                \* what each valid candidate does
    stage,               \* "submitted", "expanding", "scoring", "certifying" or "over"
    beam, seen,
    raw,                 \* the candidates of this generation that are not scored yet
    scored,              \* those that are
    fitness,             \* the score of each candidate that has one
    best,
    evaluated,           \* candidates_evaluated
    generation,          \* generations_run
    outcome

searchVars == <<ops, plans, budget, does, stage, beam, seen, raw, scored, fitness, best,
                evaluated, generation, outcome>>
searchRequest == <<ops, plans, budget, does>>

-----------------------------------------------------------------------------
(* fingerprints: the evidence of a plan.  The inputs of the metamorphic    *)
(* suite, and those that a relation derives from its own, are not in it.   *)

StatedInputs(plan) ==
    {plan.spec[i].input : i \in DOMAIN plan.spec}
    \cup {plan.golden[i].input : i \in DOMAIN plan.golden}
    \cup UNION {IF plan.semantic[i].kind = "append"
                THEN {plan.semantic[i].base, plan.semantic[i].extra}
                ELSE {plan.semantic[i].base} : i \in DOMAIN plan.semantic}

Assertions(plan) == UNION {Range(plan.spec[i].assertions) : i \in DOMAIN plan.spec}

\* Mutant: only inputs are compared.
SharedInputs(f, h) == StatedInputs(f) \cap StatedInputs(h) # {}

SharedEvidence(f, h) ==
    \/ StatedInputs(f) \cap StatedInputs(h) # {}
    \/ Assertions(f) \cap Assertions(h) # {}
    \/ Range(f.golden) \cap Range(h.golden) # {}
    \/ Range(f.semantic) \cap Range(h.semantic) # {}

-----------------------------------------------------------------------------
FitnessOf(c) == Score(Report(does[c], plans.fitness))
HoldoutOf(c) == Score(Report(does[c], plans.holdout))

\* The higher fitness, the fewer nodes, the smaller canonical form.
Better(c, d) ==
    \/ fitness[c] > fitness[d]
    \/ /\ fitness[c] = fitness[d]
       /\ Size[c] < Size[d] \/ (Size[c] = Size[d] /\ c < d)

\* The first k of a set in the order of the ranking, and the first of all.
Top(S, k) == {c \in S : Cardinality({d \in S : Better(d, c)}) < k}
First(S) == CHOOSE c \in S : \A d \in S \ {c} : Better(c, d)

Failed(why) == [kind |-> why]

SearchInit ==
    /\ \E r \in SearchRequests : ops = r.ops /\ plans = r.plans /\ budget = r.budget
    /\ does \in [Sound -> Behaviours]
    /\ stage = "submitted"
    /\ beam = {Seed} /\ seen = {Seed}
    /\ raw = {} /\ scored = {}
    /\ fitness = [c \in Sound |-> -1]
    /\ best = Seed
    /\ evaluated = 1 /\ generation = 0
    /\ outcome = Failed("pending")

\* The request needs an operator, its plans must be disjoint, and the seed must
\* run on both.
Begin ==
    /\ stage = "submitted"
    /\ outcome' = IF ops = {} THEN Failed("no_operator")
                  ELSE IF SharedEvidence(plans.fitness, plans.holdout)
                  THEN Failed("correlated")
                  ELSE IF \/ VerifyFails(does[Seed], plans.fitness)
                          \/ VerifyFails(does[Seed], plans.holdout)
                  THEN Failed("unverifiable")
                  ELSE outcome
    /\ stage' = IF outcome'.kind = "pending" THEN "expanding" ELSE "over"
    /\ fitness' = [fitness EXCEPT ![Seed] =
                     IF outcome'.kind = "pending" THEN FitnessOf(Seed) ELSE @]
    /\ UNCHANGED <<searchRequest, beam, seen, raw, scored, best, evaluated, generation>>

\* Mutant: only the best of the beam is expanded.
FreshOfBest == {c \in Sound : /\ c \notin seen
                              /\ \E op \in ops, parent \in beam :
                                    /\ \A other \in beam : ~Better(other, parent)
                                    /\ c \in Derived[op][parent]}

\* What the operators make of the beam, without what was scored before.
Fresh == {c \in Sound : /\ c \notin seen
                        /\ \E op \in ops, parent \in beam : c \in Derived[op][parent]}

\* The first of them in canonical order, up to the cap (0: none).
Capped(S) == {c \in S : budget.cap = 0 \/ Cardinality({d \in S : d < c}) < budget.cap}

\* Mutant: what the cap leaves out counts as seen.
ExpandAndForget ==
    /\ stage = "expanding"
    /\ IF generation = budget.generations
       THEN stage' = "certifying" /\ UNCHANGED <<raw, scored, generation, seen>>
       ELSE /\ generation' = generation + 1
            /\ raw' = Capped(Fresh)
            /\ scored' = {}
            /\ seen' = seen \cup Fresh
            /\ stage' = IF raw' = {} THEN "certifying" ELSE "scoring"
    /\ UNCHANGED <<searchRequest, beam, fitness, best, evaluated, outcome>>

\* Mutant: one generation too many.
ExpandOnceMore ==
    /\ stage = "expanding"
    /\ IF generation > budget.generations
       THEN stage' = "certifying" /\ UNCHANGED <<raw, scored, generation>>
       ELSE /\ generation' = generation + 1
            /\ raw' = Capped(Fresh)
            /\ scored' = {}
            /\ stage' = IF raw' = {} THEN "certifying" ELSE "scoring"
    /\ UNCHANGED <<searchRequest, beam, seen, fitness, best, evaluated, outcome>>

Expand ==
    /\ stage = "expanding"
    /\ IF generation = budget.generations
       THEN stage' = "certifying" /\ UNCHANGED <<raw, scored, generation>>
       ELSE /\ generation' = generation + 1
            /\ raw' = Capped(Fresh)
            /\ scored' = {}
            /\ stage' = IF raw' = {} THEN "certifying" ELSE "scoring"
    /\ UNCHANGED <<searchRequest, beam, seen, fitness, best, evaluated, outcome>>

\* A candidate that cannot be run ends the whole search.
ScoreNext ==
    /\ stage = "scoring" /\ raw # {}
    /\ LET c == Min(raw)
       IN  IF VerifyFails(does[c], plans.fitness)
           THEN /\ outcome' = Failed("unverifiable")
                /\ stage' = "over"
                /\ UNCHANGED <<raw, seen, scored, fitness, evaluated>>
           ELSE /\ raw' = raw \ {c}
                /\ seen' = seen \cup {c}
                /\ scored' = scored \cup {c}
                /\ fitness' = [fitness EXCEPT ![c] = FitnessOf(c)]
                /\ evaluated' = evaluated + 1
                /\ UNCHANGED <<outcome, stage>>
    /\ UNCHANGED <<searchRequest, beam, best, generation>>

\* Mutant: the new best is the best of the generation.
SelectLatest ==
    /\ stage = "scoring" /\ raw = {}
    /\ best' = First(scored)
    /\ beam' = Top(scored, Max({budget.beam, 1}))
    /\ stage' = IF fitness[best'] >= 100 THEN "certifying" ELSE "expanding"
    /\ UNCHANGED <<searchRequest, seen, raw, scored, fitness, evaluated, generation, outcome>>

\* Mutant: a beam of width 0 keeps nothing.
SelectNone ==
    /\ stage = "scoring" /\ raw = {}
    /\ best' = IF Better(First(scored), best) THEN First(scored) ELSE best
    /\ beam' = Top(scored, budget.beam)
    /\ stage' = IF fitness[best'] >= 100 THEN "certifying" ELSE "expanding"
    /\ UNCHANGED <<searchRequest, seen, raw, scored, fitness, evaluated, generation, outcome>>

\* The best of the generation may be the new best; the beam is of this
\* generation alone.
Select ==
    /\ stage = "scoring" /\ raw = {}
    /\ best' = IF Better(First(scored), best) THEN First(scored) ELSE best
    /\ beam' = Top(scored, Max({budget.beam, 1}))
    /\ stage' = IF fitness[best'] >= 100 THEN "certifying" ELSE "expanding"
    /\ UNCHANGED <<searchRequest, seen, raw, scored, fitness, evaluated, generation, outcome>>

Certify ==
    /\ stage = "certifying"
    /\ outcome' = IF VerifyFails(does[best], plans.holdout) THEN Failed("unverifiable")
                  ELSE [kind |-> "found", workflow |-> best,
                        certified |-> HoldoutOf(best),
                        gap |-> fitness[best] - HoldoutOf(best)]
    /\ stage' = "over"
    /\ UNCHANGED <<searchRequest, beam, seen, raw, scored, fitness, best, evaluated, generation>>

SearchNext == Begin \/ Expand \/ ScoreNext \/ Select \/ Certify

SearchSpec == SearchInit /\ [][SearchNext]_searchVars

-----------------------------------------------------------------------------
SearchTypeOK ==
    /\ stage \in {"submitted", "expanding", "scoring", "certifying", "over"}
    /\ beam \subseteq Sound /\ beam # {} /\ seen \subseteq Sound
    /\ best \in beam \cup seen
    /\ raw \cup scored \subseteq Sound
    /\ outcome.kind \in {"pending", "no_operator", "correlated", "unverifiable", "found"}

\* The winner is the best of all candidates that were ever scored, over all
\* generations, in the one total order; the seed is one of them.
BestOfAll ==
    outcome.kind = "found" => \A c \in seen \ {best} : Better(best, c)

\* Every candidate is scored once, and no more of them than the budget allows.
BudgetKept ==
    /\ evaluated = Cardinality(seen)
    /\ generation <= budget.generations
    /\ budget.cap > 0 => evaluated <= 1 + budget.cap * generation

\* A search that stops because it has converged has scored everything that its
\* operators can reach, if nothing was cut off on the way.
ConvergedIsExhausted ==
    /\ stage = "certifying" /\ scored = {} /\ generation > 0
    /\ budget.cap = 0 /\ budget.beam >= Cardinality(seen)
    => \A c \in Sound, op \in ops, parent \in seen : c \in Derived[op][parent] => c \in seen

\* What certifies the winner did not choose it: a check of the holdout is no
\* check of the fitness, nor on one of its inputs, whatever the plan it is in.
CertifiedApart ==
    outcome.kind = "found" =>
        LET Checks(plan) == Assertions(plan) \cup Range(plan.golden) \cup Range(plan.semantic)
        IN  /\ Checks(plans.fitness) \cap Checks(plans.holdout) = {}
            /\ StatedInputs(plans.fitness) \cap StatedInputs(plans.holdout) = {}

\* A search returns the best it has met within its budget, stops early only when there
\* is nothing left to meet, and lets evidence certify it that it was not chosen by.
SearchSound ==
    /\ SearchTypeOK /\ BestOfAll /\ BudgetKept
    /\ ConvergedIsExhausted /\ CertifiedApart
=============================================================================
