-------------------------------- MODULE Skills --------------------------------
(***************************************************************************)
(* The skill library: workflows that are verified on a plan, promoted when *)
(* the report is good enough, kept as rows of the store, and found again   *)
(* by the words of a query (crates/a2w-skills, the handlers of /verify and *)
(* /skills, and the skills table of crates/a2w-store).                     *)
(*                                                                         *)
(* A request says which node of a workflow is to be observed, what the     *)
(* author meant it to emit (`intent`), and the plan that was written for   *)
(* that intent, before or after the workflow itself.                       *)
(***************************************************************************)
EXTENDS Verification

CONSTANTS
    Clients,
    Requests,  \* what the clients may submit: promotions and searches
    Stored,    \* the rows there may be at the start
    Stopwords

\* A client promotes a workflow, whose id is a number, or looks for one; a query
\* and the tokens of a row are finitely many words.  Of the rows that are there at
\* the start the checks are not told.
ASSUME SkillsAssumption ==
    /\ \A r \in Requests, c \in Clients :
          /\ IsFiniteSet(r[c].query)
          /\ \/ /\ r[c].kind = "promote" /\ r[c].flow \in Nat
                /\ r[c].does \in Workflows /\ r[c].plan \in VerificationPlan
                \* what is enough does without the engine's relations
                /\ r[c].enough => Meets(Report(r[c].intent, [r[c].plan EXCEPT !.metamorphic = <<>>]))
             \/ r[c].kind = "find" /\ r[c].k \in Nat
    /\ \A S \in Stored :
          /\ IsFiniteSet(S)
          /\ \A r \in S : /\ r.flow \in Nat /\ IsFiniteSet(r.tokens) /\ r.checks = <<>>
                         /\ r.readable \in BOOLEAN /\ r.score \in 0..100
          /\ \A r, s \in S : r.flow = s.flow => r = s

VARIABLES
    request,  \* what each client submits
    phase,    \* of each client
    report,   \* of the verification, before it is used
    rows,     \* the skills table
    listed,   \* the rows that a search has read
    answer    \* what each client is told

skillVars == <<request, phase, report, rows, listed, answer>>

-----------------------------------------------------------------------------
(* TaskSignature. *)

Tokens(query) == query \ Stopwords

\* jaccard, as a fraction.  The histogram of node kinds is empty on the side of
\* the query, and so never counts.
Similarity(query, row) ==
    LET common == Cardinality(Tokens(query) \cap row.tokens)
        all == Cardinality(Tokens(query) \cup row.tokens)
    IN  IF all = 0 THEN <<1, 1>> ELSE <<common, all>>

\* Mutant: the words in common decide.
MoreInCommon(x, y) == x[1] > y[1]

More(x, y) == x[1] * y[2] > y[1] * x[2]

\* The more similar first, then by id.
Precedes(query, r, s) ==
    LET x == Similarity(query, r)
        y == Similarity(query, s)
    IN  More(x, y) \/ (~More(y, x) /\ r.flow < s.flow)

\* The first k in that order: at each place the row that so many come before.
Retrieved(query, k, S) ==
    [i \in 1..(IF k < Cardinality(S) THEN k ELSE Cardinality(S)) |->
        CHOOSE r \in S : Cardinality({s \in S : Precedes(query, s, r)}) = i - 1]

-----------------------------------------------------------------------------
(* The table.  A skill's id is the fingerprint of its workflow, so there is *)
(* one row for a workflow, whichever of its nodes is observed.             *)

Row(r, checks) ==
    [flow |-> r.flow, observe |-> r.observe, query |-> r.query, tokens |-> Tokens(r.query),
     score |-> Score(checks), checks |-> checks, readable |-> TRUE]

\* Mutant: the UPDATE of the upsert leaves the node that is observed.
SaveSkillKeeping(row) ==
    LET old == {r \in rows : r.flow = row.flow}
    IN  rows' = (rows \ old) \cup {IF old = {} THEN row
                                   ELSE [row EXCEPT !.observe = (CHOOSE r \in old : TRUE).observe]}

\* Mutant: every promotion gets an id of its own.
SaveSkillAnew(row) == rows' = rows \cup {row}

SaveSkill(row) == rows' = {r \in rows : r.flow # row.flow} \cup {row}

-----------------------------------------------------------------------------
None == [kind |-> "none"]

SkillsInit ==
    /\ request \in Requests
    \* what a node emits depends on the workflow alone
    /\ \A c, d \in Clients :
          /\ request[c].kind = "promote" /\ request[d].kind = "promote"
          /\ request[c].flow = request[d].flow /\ request[c].observe = request[d].observe
          => request[c].does = request[d].does
    /\ phase = [c \in Clients |-> "submitted"]
    /\ report = [c \in Clients |-> <<>>]
    /\ rows \in Stored
    /\ listed = [c \in Clients |-> {}]
    /\ answer = [c \in Clients |-> None]

\* verify: a run that fails is an answer of its own.
Verify(c) ==
    LET r == request[c]
    IN  /\ r.kind = "promote" /\ phase[c] = "submitted"
        /\ IF VerifyFails(r.does, r.plan)
           THEN /\ answer' = [answer EXCEPT ![c] = [kind |-> "verification_failed"]]
                /\ phase' = [phase EXCEPT ![c] = "answered"]
                /\ UNCHANGED report
           ELSE /\ report' = [report EXCEPT ![c] = Report(r.does, r.plan)]
                /\ phase' = [phase EXCEPT ![c] = "verified"]
                /\ UNCHANGED answer
        /\ UNCHANGED <<request, rows, listed>>

\* promote: vet_for_promotion, then the upsert.
Promote(c) ==
    /\ phase[c] = "verified"
    /\ IF Meets(report[c])
       THEN /\ SaveSkill(Row(request[c], report[c]))
            /\ answer' = [answer EXCEPT ![c] = [kind |-> "promoted"]]
       ELSE /\ answer' = [answer EXCEPT ![c] = [kind |-> "not_promoted"]]
            /\ UNCHANGED rows
    /\ phase' = [phase EXCEPT ![c] = "answered"]
    /\ UNCHANGED <<request, report, listed>>

\* retrieve: one row that cannot be read fails the search.
ListSkills(c) ==
    /\ request[c].kind = "find" /\ phase[c] = "submitted"
    /\ listed' = [listed EXCEPT ![c] = rows]
    /\ phase' = [phase EXCEPT ![c] = "listed"]
    /\ UNCHANGED <<request, report, rows, answer>>

Rank(c) ==
    /\ phase[c] = "listed"
    /\ answer' = [answer EXCEPT ![c] =
                    IF \E r \in listed[c] : ~r.readable THEN [kind |-> "retrieval_failed"]
                    ELSE [kind |-> "found",
                          skills |-> Retrieved(request[c].query, request[c].k, listed[c])]]
    /\ phase' = [phase EXCEPT ![c] = "answered"]
    /\ UNCHANGED <<request, report, rows, listed>>

\* A client that has lost its answer, or does not like it, submits it again.
Resubmit(c) ==
    /\ phase[c] = "answered" /\ answer[c].kind = "promoted"
    /\ phase' = [phase EXCEPT ![c] = "submitted"]
    /\ report' = [report EXCEPT ![c] = <<>>]
    /\ UNCHANGED <<request, rows, listed, answer>>

SkillsNext ==
    \E c \in Clients : Verify(c) \/ Promote(c) \/ ListSkills(c) \/ Rank(c) \/ Resubmit(c)

SkillsSpec == SkillsInit /\ [][SkillsNext]_skillVars

-----------------------------------------------------------------------------
Promotions == {c \in Clients : request[c].kind = "promote"}
Promoted == {c \in Promotions : answer[c].kind = "promoted"}

SkillsTypeOK ==
    /\ phase \in [Clients -> {"submitted", "verified", "listed", "answered"}]
    /\ \A c \in Clients : \A i \in DOMAIN report[c] :
          report[c][i].category \in {"spec", "golden", "semantic", "engine"}
    /\ \A r \in rows : r.readable \in BOOLEAN /\ r.score \in 0..100
    /\ \A c \in Clients : listed[c] # {} => request[c].kind = "find"

\* A semantic relation on no items says nothing of any workflow.
SaysSomething(plan) ==
    \A i \in DOMAIN plan.semantic :
        CASE plan.semantic[i].kind = "append" -> plan.semantic[i].extra # <<>>
          [] plan.semantic[i].kind = "conservation" -> plan.semantic[i].base # <<>>
          [] OTHER -> TRUE

\* What is promoted has evidence that not every workflow has: some workflow that
\* the engine runs as it promises, item by item, would have been turned down on
\* the same plan (Threshold::default and the guard of check_scaling; a plan of
\* empty inputs is not guarded against).
EvidenceTells ==
    \A c \in Promoted :
        SaysSomething(request[c].plan) =>
            \E w \in Workflows : Itemwise(w) /\ ~Meets(Report(w, request[c].plan))

\* A workflow whose output is computed from the wrong field, or from none, is not
\* promoted on a scaling relation that names the right one (where the field does
\* not also decide which items get through).
WrongFieldCaught ==
    \A c \in Promoted :
        request[c].does.keep # "large" =>
            \A i \in DOMAIN request[c].plan.semantic :
                LET r == request[c].plan.semantic[i]
                IN  r.kind = "scaling" => request[c].does.reads = r.field

\* A workflow that does what its author meant is promoted on a plan that says so:
\* the relations of the engine hold of every workflow that handles its items one
\* by one.
RightIsPromoted ==
    \A c \in Promotions :
        /\ answer[c].kind = "not_promoted"
        /\ request[c].does = request[c].intent
        => \/ ~request[c].enough
           \/ ~Itemwise(request[c].intent) /\ request[c].plan.metamorphic # <<>>

\* A row is one promotion whole: its node, query and evidence were submitted and
\* measured together, however two promotions of one workflow interleave, and a
\* workflow has one row however often it is promoted.
RowIsOnePromotion ==
    /\ \A r, s \in rows : r.flow = s.flow => r = s
    /\ \A r \in rows :
          r.checks # <<>> =>
              \E c \in Promotions : r = Row(request[c], Report(request[c].does, request[c].plan))

\* A search lists, most similar first, what is most similar of all that it read.
FoundInOrder ==
    \A c \in Clients :
        answer[c].kind = "found" =>
            LET found == answer[c].skills
                q == request[c].query
                Words(r) == Similarity(q, r)
            IN  /\ Len(found) = Min({request[c].k, Cardinality(listed[c])})
                /\ \A i, j \in DOMAIN found :
                      i < j => found[i] # found[j]
                               /\ Words(found[j])[1] * Words(found[i])[2]
                                      <= Words(found[i])[1] * Words(found[j])[2]
                /\ \A r \in listed[c] \ Range(found), s \in Range(found) :
                      Words(r)[1] * Words(s)[2] <= Words(s)[1] * Words(r)[2]

\* The library: what is promoted has earned it by evidence that could have failed,
\* and rows and searches stay whole when clients interleave.
LibrarySound ==
    /\ SkillsTypeOK /\ EvidenceTells /\ WrongFieldCaught
    /\ RowIsOnePromotion /\ FoundInOrder
=============================================================================
