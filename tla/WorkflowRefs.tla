---------------------------- MODULE WorkflowRefs ----------------------------
(***************************************************************************)
(* PUT and DELETE /workflows/{id} (crates/a2w-server/src/handlers.rs) on   *)
(* the tables workflows and workflow_references (crates/a2w-store).  A     *)
(* workflow is reduced to its id and to the workflows its sub_workflow     *)
(* nodes name, which need not exist.                                       *)
(*                                                                         *)
(* The cycle check of a PUT is a depth-first walk that reads the stored    *)
(* references of one workflow at a time, so that other requests come in    *)
(* between.  What it reads it remembers, and it stops with a refusal as    *)
(* soon as what it remembers has a cycle or a path beyond its depth cap;   *)
(* the order of its reads is left open.                                    *)
(***************************************************************************)
EXTENDS Integers, FiniteSets

CONSTANTS
    Ids,       \* workflow ids
    Requests,  \* PUT and DELETE requests
    MaxDepth   \* MAX_CYCLE_CHECK_DEPTH: workflows on a path of the walk

ASSUME WorkflowRefsAssumption ==
    /\ IsFiniteSet(Ids)
    /\ IsFiniteSet(Requests)
    /\ MaxDepth \in Nat \ {0}

VARIABLES
    stored,  \* the ids in table workflows
    refs,    \* refs[i]: the rows of workflow_references from i
    op,      \* op[q]: what request q asks for
    pc,      \* pc[q]: the await it is at, or its answer
    read,    \* read[q]: the workflows whose references PUT q knows ...
    known,   \* ... and known[q]: those references
    stale    \* history: the requests that were past a check or in the middle
             \* of one when another PUT was saved

vars == <<stored, refs, op, pc, read, known, stale>>

Ops == [kind : {"put"}, id : Ids, targets : SUBSET Ids]
           \cup [kind : {"delete"}, id : Ids, targets : {{}}]

Awaiting == {"walking", "checking", "checked"}
Answered == {"saved", "refused", "deleted", "conflict", "dropped"}

\* The type invariant; a request knows nothing of what it has not read.
TypeOK ==
    /\ stored \subseteq Ids
    /\ refs \in [Ids -> SUBSET Ids]
    /\ op \in [Requests -> Ops]
    /\ pc \in [Requests -> {"idle"} \cup Awaiting \cup Answered]
    /\ read \in [Requests -> SUBSET Ids]
    /\ known \in [Requests -> [Ids -> SUBSET Ids]]
    /\ \A q \in Requests, i \in Ids : i \notin read[q] => known[q][i] = {}
    /\ stale \subseteq Requests

Nothing == [i \in Ids |-> {}]

Init ==
    /\ stored = {}
    /\ refs = Nothing
    /\ op \in [Requests -> Ops]
    /\ pc = [q \in Requests |-> "idle"]
    /\ read = [q \in Requests |-> {}]
    /\ known = [q \in Requests |-> Nothing]
    /\ stale = {}

-----------------------------------------------------------------------------
Goto(q, await) == pc' = [pc EXCEPT ![q] = await]

Id(q) == op[q].id

\* Mutant: the walk does not know its root, and reads what was stored of it.
ArriveUnseeded(q) ==
    /\ pc[q] = "idle"
    /\ Goto(q, IF op[q].kind = "put" THEN "walking" ELSE "checking")
    /\ known' = [known EXCEPT ![q][Id(q)] = op[q].targets]
    /\ UNCHANGED <<stored, refs, op, read, stale>>

\* The body is valid, and the walk of a PUT starts from what it refers to.
Arrive(q) ==
    /\ pc[q] = "idle"
    /\ Goto(q, IF op[q].kind = "put" THEN "walking" ELSE "checking")
    /\ IF op[q].kind = "put"
       THEN /\ read' = [read EXCEPT ![q] = {Id(q)}]
            /\ known' = [known EXCEPT ![q][Id(q)] = op[q].targets]
       ELSE UNCHANGED <<read, known>>
    /\ UNCHANGED <<stored, refs, op, stale>>

-----------------------------------------------------------------------------
(* check_sub_workflow_cycle *)

\* The workflows at the end of the paths of k references that q knows.
Level(q) ==
    LET L[k \in 0..MaxDepth] ==
            IF k = 0 THEN {Id(q)} ELSE UNION {known[q][i] : i \in L[k - 1]}
    IN  L

\* Mutant: the walk looks at the direct references alone.
CyclicDirectly(q) == Id(q) \in known[q][Id(q)]

\* A path of more than MaxDepth workflows: on a cycle, or just deep.
Cyclic(q) == Level(q)[MaxDepth] # {}

Unread(q) == (UNION {Level(q)[k] : k \in 0..MaxDepth}) \ read[q]

\* Mutant: what was read is not remembered as read.
ReadUncached(q, i) ==
    /\ pc[q] = "walking"
    /\ ~Cyclic(q)
    /\ i \in Unread(q)
    /\ known' = [known EXCEPT ![q][i] = refs[i]]
    /\ UNCHANGED <<stored, refs, op, pc, read, stale>>

\* referenced_workflows_of
Read(q, i) ==
    /\ pc[q] = "walking"
    /\ ~Cyclic(q)
    /\ i \in Unread(q)
    /\ read' = [read EXCEPT ![q] = @ \cup {i}]
    /\ known' = [known EXCEPT ![q][i] = refs[i]]
    /\ UNCHANGED <<stored, refs, op, pc, stale>>

Refuse(q) ==
    /\ pc[q] = "walking"
    /\ Cyclic(q)
    /\ Goto(q, "refused")
    /\ UNCHANGED <<stored, refs, op, read, known, stale>>

\* save_workflow: one transaction for the row and its references.
Save(q) ==
    /\ pc[q] = "walking"
    /\ ~Cyclic(q)
    /\ Unread(q) = {}
    /\ stored' = stored \cup {Id(q)}
    /\ refs' = [refs EXCEPT ![Id(q)] = op[q].targets]
    /\ stale' = stale \cup {p \in Requests \ {q} : pc[p] \in Awaiting}
    /\ Goto(q, "saved")
    /\ UNCHANGED <<op, read, known>>

-----------------------------------------------------------------------------
(* DELETE *)

\* Mutant: a workflow is looked up among its own references.
ReferrersOfNone(i) == {j \in refs[i] : j # i}

Referrers(i) == {j \in Ids : i \in refs[j] /\ j # i}

Check(q) ==
    /\ pc[q] = "checking"
    /\ Goto(q, IF Referrers(Id(q)) = {} THEN "checked" ELSE "conflict")
    /\ UNCHANGED <<stored, refs, op, read, known, stale>>

\* Mutant: the rows of the index are left behind.
RemoveRow(q) ==
    /\ pc[q] = "checked"
    /\ stored' = stored \ {Id(q)}
    /\ Goto(q, "deleted")
    /\ UNCHANGED <<refs, op, read, known, stale>>

\* delete_workflow: one transaction for the row and its references.
Remove(q) ==
    /\ pc[q] = "checked"
    /\ stored' = stored \ {Id(q)}
    /\ refs' = [refs EXCEPT ![Id(q)] = {}]
    /\ Goto(q, "deleted")
    /\ UNCHANGED <<op, read, known, stale>>

\* A statement fails, or the request times out.
Drop(q) ==
    /\ pc[q] \in Awaiting
    /\ Goto(q, "dropped")
    /\ UNCHANGED <<stored, refs, op, read, known, stale>>

-----------------------------------------------------------------------------
Handle(q) ==
    \/ \E i \in Ids : Read(q, i)
    \/ Refuse(q) \/ Save(q) \/ Check(q) \/ Remove(q)

Next == \E q \in Requests : Arrive(q) \/ Handle(q) \/ Drop(q)

Spec == Init /\ [][Next]_vars

\* Statements return.
Fairness == \A q \in Requests : WF_vars(Handle(q))

FairSpec == Spec /\ Fairness

-----------------------------------------------------------------------------
\* Some reference of every nonempty set of workflows leads out of it.
Acyclic == \A S \in (SUBSET Ids) \ {{}} : \E i \in S : refs[i] \cap S = {}

\* The stored workflows call each other without a cycle unless two PUTs were
\* in flight together: requests that come one after the other, deletes at any
\* time, dropped requests and references to workflows that do not exist yet
\* never lead to one.
AcyclicUnlessRaced ==
    (\A q \in stale : pc[q] # "saved") => Acyclic

\* Of a workflow that is not stored the index holds no reference, which would
\* keep its targets from being deleted for ever.
IndexOfStored == \A i \in Ids : refs[i] # {} => i \in stored

\* The stored workflows and their index keep together, whatever requests overlap.
ReferencesSound == TypeOK /\ AcyclicUnlessRaced /\ IndexOfStored

\* A DELETE leaves no reference to the workflow behind unless a PUT was saved
\* between its two statements.
DeletesUnreferenced ==
    [][\A q \in Requests \ stale : pc[q] = "checked" /\ pc'[q] = "deleted" =>
          \A i \in Ids \ {Id(q)} : Id(q) \notin refs[i]]_vars

\* The walk ends, also over references that change under it and over cycles
\* that were stored in a race.
EveryRequestEnds ==
    \A q \in Requests : pc[q] \in Awaiting ~> pc[q] \in Answered
=============================================================================
