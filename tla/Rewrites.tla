------------------------------ MODULE Rewrites ------------------------------
(***************************************************************************)
(* What the system itself does to a workflow: the mutation operators of    *)
(* the search (crates/a2w-search/src/operators.rs), the composition of     *)
(* skills (crates/a2w-skills/src/compose.rs) and the optimizer             *)
(* (crates/a2w-optimizer/src), each on a workflow that the validator       *)
(* accepted, and what they do to the items that flow through it.           *)
(*                                                                         *)
(* An item is an object or not.  An object has two fields: f, which a      *)
(* Transform may set, and g, which a Transform may compute from f.  A      *)
(* Branch asks whether f is there.                                         *)
(***************************************************************************)
EXTENDS Validation

CONSTANTS
    Authored,  \* the workflows that are submitted
    Skills,    \* stored workflows to compose with, each with a node to observe
    MaxSteps,  \* bound: rewrites in a row
    MaxNodes   \* bound: nodes of a workflow

\* Workflows as they are read: the parts of Node and Connection that matter here.
Kinds == {"trigger", "transform", "branch", "switch", "sub_workflow"}
\* The mark of a Transform says what its params are: {}, {"set": {}}, or a set
\* that gives f a constant, that computes g by a token, or that has both entries.
Marks == {"empty", "blank", "constant", "token", "both"}
WorkflowNode == [id : Nat, kind : Kinds, mark : Marks,
                 calls : {"none", "itself", "other"}]
Connection == [from : Nat, port : Nat, to : Nat]
Workflow == [version : BOOLEAN, nodes : Seq(WorkflowNode), conns : Seq(Connection)]

ASSUME RewritesAssumption ==
    /\ MaxSteps \in Nat /\ MaxNodes \in Nat
    /\ \A w \in Authored : w \in Workflow /\ Len(w.nodes) <= MaxNodes
    /\ \A b \in Skills : b.wf \in Workflow /\ b.observe \in Nat

VARIABLES
    wf,      \* the workflow
    observe, \* the node whose output is looked at
    verdict, \* "submitted", "invalid", "valid" or, of a composition, "refused"
    op,      \* what was done to it last
    steps

vars == <<wf, observe, verdict, op, steps>>

Conn(from, port, to) == [from |-> from, port |-> port, to |-> to]

-----------------------------------------------------------------------------
(* A run, as the engine does it: a node gets the items of its connections  *)
(* in the order of the connections.                                        *)

Item == [object : BOOLEAN, f : BOOLEAN, g : BOOLEAN]

\* What the trigger is given: two objects, and the two with a text between them.
Plain == [object |-> TRUE, f |-> FALSE, g |-> FALSE]
Scalar == [object |-> FALSE, f |-> FALSE, g |-> FALSE]
WithF == [object |-> TRUE, f |-> TRUE, g |-> FALSE]
SeedLists == {<<Plain, WithF>>, <<Plain, Scalar, WithF>>}

\* A Transform without a set passes on everything; with one, even an empty one,
\* it fails on an item that is no object.
Breaks(node, input) ==
    /\ node.kind = "transform" /\ node.mark # "empty"
    /\ \E i \in DOMAIN input : ~input[i].object

\* A token is evaluated on the item as it came.
OutItem(node, item) ==
    IF node.kind # "transform" THEN item
    ELSE [item EXCEPT !.f = @ \/ node.mark \in {"constant", "both"},
                      !.g = IF node.mark \in {"token", "both"} THEN item.f ELSE @]

OutPort(node, item) == IF node.kind = "branch" /\ ~item.f THEN 1 ELSE 0

Gather(flow, emitted, n) ==
    FoldLeft(LAMBDA got, c :
                IF c.to # n THEN got
                ELSE got \o SelectSeq(emitted[c.from],
                                      LAMBDA item : OutPort(Node(flow, c.from), item) = c.port),
             <<>>, flow.conns)

\* The trigger emits the items it is given.
Input(flow, emitted, seeds, n) ==
    IF Node(flow, n).kind = "trigger" THEN seeds ELSE Gather(flow, emitted, n)

\* What every node has emitted when the graph's depth is used up.  A node that
\* fails emits nothing: the run goes on without its items, or is over, as the
\* node's on_error has it.
Emitted(flow, seeds) ==
    LET depth == Cardinality(Ids(flow))
        after[k \in 0..depth] ==
            IF k = 0 THEN [n \in Ids(flow) |-> <<>>]
            ELSE LET before == after[k - 1]
                 IN  [n \in Ids(flow) |->
                        LET node == Node(flow, n)
                            input == Input(flow, before, seeds, n)
                        IN  IF Breaks(node, input) THEN <<>>
                            ELSE [i \in DOMAIN input |-> OutItem(node, input[i])]]
    IN  after[depth]

\* Sequences as bags of items.
Bag(s) == [x \in Item |-> Cardinality({i \in DOMAIN s : s[i] = x})]

\* What a run shows of every node: the items it emitted, and whether it failed.
Outcome(flow, seeds) ==
    LET emitted == Emitted(flow, seeds)
    IN  [n \in Ids(flow) |->
            [items |-> Bag(emitted[n]),
             failed |-> Breaks(Node(flow, n), Input(flow, emitted, seeds, n))]]

-----------------------------------------------------------------------------
(* The mutation operators. *)

\* An entry that is already there is skipped; frozen is empty in both tool
\* surfaces.
SetTransformField(i) ==
    /\ wf.nodes[i].kind = "transform"
    /\ wf.nodes[i].mark \notin {"constant", "both"}
    /\ wf' = [wf EXCEPT !.nodes[i].mark = IF @ = "token" THEN "both" ELSE "constant"]
    /\ op' = [name |-> "set_field"]
    /\ UNCHANGED observe

Fresh == 1 + Max(Ids(wf))  \* unique_id

\* Mutant: the passthrough is a merge node.
InsertMerge(i) ==
    /\ Len(wf.nodes) < MaxNodes
    /\ wf' = [wf EXCEPT
                !.nodes = Append(@, [id |-> Fresh, kind |-> "merge",
                                     mark |-> "empty", calls |-> "none"]),
                !.conns = Append([@ EXCEPT ![i].to = Fresh],
                                 Conn(Fresh, 0, wf.conns[i].to))]
    /\ op' = [name |-> "insert"]
    /\ UNCHANGED observe

\* Mutant: the passthrough has an empty set.
InsertBlank(i) ==
    /\ Len(wf.nodes) < MaxNodes
    /\ wf' = [wf EXCEPT
                !.nodes = Append(@, [id |-> Fresh, kind |-> "transform",
                                     mark |-> "blank", calls |-> "none"]),
                !.conns = Append([@ EXCEPT ![i].to = Fresh],
                                 Conn(Fresh, 0, wf.conns[i].to))]
    /\ op' = [name |-> "insert"]
    /\ UNCHANGED observe

InsertPassthrough(i) ==
    /\ Len(wf.nodes) < MaxNodes
    /\ wf' = [wf EXCEPT
                !.nodes = Append(@, [id |-> Fresh, kind |-> "transform",
                                     mark |-> "empty", calls |-> "none"]),
                !.conns = Append([@ EXCEPT ![i].to = Fresh],
                                 Conn(Fresh, 0, wf.conns[i].to))]
    /\ op' = [name |-> "insert"]
    /\ UNCHANGED observe

\* What is at the positions I of a sequence, in order (Vec::retain, and filter).
Only(s, I) ==
    [k \in 1..Cardinality(I) |->
        s[CHOOSE i \in I : Cardinality({j \in I : j < i}) = k - 1]]

Into(flow, n) == Only(flow.conns, {k \in DOMAIN flow.conns : flow.conns[k].to = n})
OutOf(flow, n) == Only(flow.conns, {k \in DOMAIN flow.conns : flow.conns[k].from = n})

WithoutNode(nodes, n) == Only(nodes, {k \in DOMAIN nodes : nodes[k].id # n})
Apart(conns, n) == Only(conns, {k \in DOMAIN conns : n \notin {conns[k].from, conns[k].to}})

\* Two nested loops: for each of s, all of t.
EveryPair(s, t) ==
    [k \in 1..(Len(s) * Len(t)) |->
        <<s[1 + ((k - 1) \div Len(t))], t[1 + ((k - 1) % Len(t))]>>]

\* Mutant: the ports of the predecessors are forgotten.
BridgedOnFirst(into, outof) ==
    LET pairs == EveryPair(into, outof)
    IN  [k \in DOMAIN pairs |-> Conn(pairs[k][1].from, 0, pairs[k][2].to)]

\* Every predecessor's port is connected to every successor.
Bridged(into, outof) ==
    LET pairs == EveryPair(into, outof)
    IN  [k \in DOMAIN pairs |-> Conn(pairs[k][1].from, pairs[k][1].port, pairs[k][2].to)]

\* Mutant: the observed node is removed like any other.
RemoveObserved(i) ==
    LET n == wf.nodes[i].id
        into == Into(wf, n)
        outof == OutOf(wf, n)
    IN  /\ wf.nodes[i].kind = "transform" /\ wf.nodes[i].mark \in {"empty", "blank"}
        /\ into # <<>> /\ outof # <<>>
        /\ wf' = [wf EXCEPT
                    !.nodes = WithoutNode(@, n),
                    !.conns = Apart(@, n) \o Bridged(into, outof)]
        /\ op' = [name |-> "remove"]
        /\ UNCHANGED observe

\* Mutant: the connections of the node stay.
RemoveNodeOnly(i) ==
    LET n == wf.nodes[i].id
        into == Into(wf, n)
        outof == OutOf(wf, n)
    IN  /\ wf.nodes[i].kind = "transform" /\ wf.nodes[i].mark \in {"empty", "blank"}
        /\ n # observe
        /\ into # <<>> /\ outof # <<>>
        /\ wf' = [wf EXCEPT
                    !.nodes = WithoutNode(@, n),
                    !.conns = @ \o Bridged(into, outof)]
        /\ op' = [name |-> "remove"]
        /\ UNCHANGED observe

\* is_empty_passthrough takes an empty set for none.  A passthrough without
\* predecessor or successor stays, and so does the node that is observed.
RemovePassthrough(i) ==
    LET n == wf.nodes[i].id
        into == Into(wf, n)
        outof == OutOf(wf, n)
    IN  /\ wf.nodes[i].kind = "transform" /\ wf.nodes[i].mark \in {"empty", "blank"}
        /\ n # observe
        /\ into # <<>> /\ outof # <<>>
        /\ wf' = [wf EXCEPT
                    !.nodes = WithoutNode(@, n),
                    !.conns = Apart(@, n) \o Bridged(into, outof)]
        /\ op' = [name |-> "remove"]
        /\ UNCHANGED observe

-----------------------------------------------------------------------------
(* compose_sequential: this workflow, then a skill.  The prefixes a_ and   *)
(* b_ are even and odd numbers.                                            *)

A(n) == 2 * n
B(n) == 2 * n + 1

Prefixed(nodes, P(_)) == [i \in DOMAIN nodes |-> [nodes[i] EXCEPT !.id = P(nodes[i].id)]]
PrefixedConns(conns, P(_)) == [i \in DOMAIN conns |-> Conn(P(conns[i].from), conns[i].port, P(conns[i].to))]

Terminals(flow) ==
    Only(flow.nodes, {k \in DOMAIN flow.nodes :
                         \A c \in Range(flow.conns) : c.from # flow.nodes[k].id})

\* Mutant: the ends and the entries are joined one to one.
JoinedPairwise(ends, entries) ==
    [k \in 1..Min({Len(ends), Len(entries)}) |-> Conn(A(ends[k].id), 0, B(entries[k].to))]

\* Every terminal node of a, on port 0, feeds what the trigger of b fed.
Joined(ends, entries) ==
    LET pairs == EveryPair(ends, entries)
    IN  [k \in DOMAIN pairs |-> Conn(A(pairs[k][1].id), 0, B(pairs[k][2].to))]

Composed(a, b) ==
    LET start == TriggerId(b)
        rest == Only(b.conns, {k \in DOMAIN b.conns : b.conns[k].from # start})
    IN  [version |-> TRUE,
         nodes |-> Prefixed(a.nodes, A) \o Prefixed(WithoutNode(b.nodes, start), B),
         conns |-> PrefixedConns(a.conns, A) \o PrefixedConns(rest, B)
                       \o Joined(Terminals(a), OutOf(b, start))]

\* Without an end of a, or an entry of b, there is nothing to connect.
Composable(a, b) ==
    /\ Terminals(a) # <<>>
    /\ TriggerNodes(b) # {}
    /\ OutOf(b, TriggerId(b)) # <<>>

Compose(b) ==
    /\ Len(wf.nodes) + Len(b.wf.nodes) <= MaxNodes + 1
    /\ op' = [name |-> "compose", a |-> wf, b |-> b]
    /\ IF Composable(wf, b.wf) /\ IsValid(Composed(wf, b.wf))
       THEN /\ wf' = Composed(wf, b.wf)
            /\ observe' = B(b.observe)
       ELSE UNCHANGED <<wf, observe>>

-----------------------------------------------------------------------------
(* The optimizer. *)

Edges(flow) == {<<c.from, c.to>> : c \in Range(flow.conns)}
Before(flow, n) == {c.from : c \in {d \in Range(flow.conns) : d.to = n}}

\* Mutant: the path of the most nodes is taken for the slowest.
ScoresByLength(flow, latency) ==
    LET depth == Cardinality(Ids(flow))
        best[k \in 1..depth] ==
            LET before == IF k = 1 THEN [n \in Ids(flow) |-> 0] ELSE best[k - 1]
            IN  [n \in Ids(flow) |-> 1 + Max({0} \cup {before[p] : p \in Before(flow, n)})]
    IN  best[depth]

\* longest_latency_path: the best score of a path that ends at a node, by
\* latency and then by its number of nodes, in the order of a topological sort.
Weight == 1 + MaxNodes
Scores(flow, latency) ==
    LET depth == Cardinality(Ids(flow))
        best[k \in 1..depth] ==
            LET before == IF k = 1 THEN [n \in Ids(flow) |-> 0] ELSE best[k - 1]
            IN  [n \in Ids(flow) |->
                    latency[n] * Weight + 1
                        + Max({0} \cup {before[p] : p \in Before(flow, n)})]
    IN  best[depth]

\* The path is read off the scores, from its end to a root.
CriticalPath(flow, latency) ==
    LET score == Scores(flow, latency)
        depth == Cardinality(Ids(flow))
        Best(S) == CHOOSE n \in S : \A m \in S : score[m] <= score[n]
        walk[k \in 1..depth] ==
            IF k = 1 THEN <<Best(Ids(flow))>>
            ELSE LET path == walk[k - 1]
                     before == Before(flow, path[1])
                 IN  IF before = {} THEN path ELSE <<Best(before)>> \o path
    IN  walk[depth]

TotalLatency(flow, latency) ==
    FoldLeft(LAMBDA sum, n : sum + latency[n], 0, CriticalPath(flow, latency))

\* params_consume_input: only a placeholder in the parameters counts, neither
\* the path that a Branch looks at nor that a Transform passes its items on.
ConsumesInput(node) == node.mark \in {"token", "both"}

\* serial_independent_edges: b's only connection comes from a.
SerialIndependent(flow) ==
    {c \in Range(flow.conns) :
        /\ Cardinality({i \in DOMAIN flow.conns : flow.conns[i].to = c.to}) = 1
        /\ Node(flow, c.from).kind # "trigger"
        /\ ~ConsumesInput(Node(flow, c.to))}

\* Mutant: b is not connected to anything else.
ParallelizedUnfed(flow, edge) ==
    [flow EXCEPT !.conns = Only(@, {k \in DOMAIN @ : @[k] # edge})]

\* Mutant: everything that hung on a is taken away from it.
ParallelizedAll(flow, edge) ==
    LET into == Into(flow, edge.from)
    IN  [flow EXCEPT !.conns = Only(@, {k \in DOMAIN @ : @[k].from # edge.from})
                                   \o [k \in DOMAIN into |->
                                          Conn(into[k].from, into[k].port, edge.to)]]

\* The suggestion, applied: b hangs on the producers of a instead of on a; a
\* connection that is there already is not added again.
Parallelized(flow, edge) ==
    LET kept == Only(flow.conns, {k \in DOMAIN flow.conns : flow.conns[k] # edge})
        added == {Conn(c.from, c.port, edge.to) : c \in Range(Into(flow, edge.from))}
    IN  [flow EXCEPT !.conns = kept \o SetToSeq(added \ Range(kept))]

Parallelize(edge, latency) ==
    /\ wf' = Parallelized(wf, edge)
    /\ op' = [name |-> "parallelize", edge |-> edge, latency |-> latency]
    /\ UNCHANGED observe

-----------------------------------------------------------------------------
Init ==
    /\ wf \in Authored
    /\ observe = IF wf.nodes = <<>> THEN 0 ELSE wf.nodes[Len(wf.nodes)].id
    /\ verdict = "submitted"
    /\ op = [name |-> "submit"]
    /\ steps = 0

Validate ==
    /\ verdict = "submitted"
    /\ verdict' = IF IsValid(wf) THEN "valid" ELSE "invalid"
    /\ UNCHANGED <<wf, observe, op, steps>>

Rewrite ==
    /\ verdict = "valid" /\ steps < MaxSteps
    /\ steps' = steps + 1
    /\ UNCHANGED verdict
    /\ \/ \E i \in DOMAIN wf.nodes : SetTransformField(i)
       \/ \E i \in DOMAIN wf.conns : InsertPassthrough(i)
       \/ \E i \in DOMAIN wf.nodes : RemovePassthrough(i)
       \/ \E b \in Skills : Compose(b)
       \/ \E edge \in SerialIndependent(wf), latency \in [Ids(wf) -> 0..1] :
             Parallelize(edge, latency)

Next == Validate \/ Rewrite

Spec == Init /\ [][Next]_vars

-----------------------------------------------------------------------------
\* The type invariant.
TypeOK ==
    /\ verdict \in {"submitted", "invalid", "valid"}
    /\ steps \in 0..MaxSteps
    /\ wf \in Workflow
    /\ Len(wf.nodes) <= MaxNodes

\* What the validator accepts is a graph the engine can run: ids are unique, one
\* node starts it, connections join its nodes, and no set of nodes waits for
\* each other.
AcceptedIsRunnable ==
    verdict = "valid" =>
        /\ \A i, j \in DOMAIN wf.nodes : wf.nodes[i].id = wf.nodes[j].id => i = j
        /\ Cardinality({i \in DOMAIN wf.nodes : wf.nodes[i].kind = "trigger"}) = 1
        /\ \A c \in Range(wf.conns) : {c.from, c.to} \subseteq Ids(wf)
        /\ \A S \in (SUBSET Ids(wf)) \ {{}} :
              \E n \in S : \A p \in S : <<p, n>> \notin Edges(wf)

\* Every rewrite of a valid workflow is valid, as the operators promise of
\* themselves ("valid by construction").
StaysValid == verdict = "valid" => IsValid(wf)

\* A node can be unreachable only if nothing, or only unreachable nodes, feed
\* it: the items of a reachable one come from the trigger.
WarnedIfNeverFed ==
    verdict = "valid" /\ "unreachable_node" \notin Report(wf) =>
        \A S \in SUBSET Ids(wf) :
            /\ \A n \in Ids(wf) : Node(wf, n).kind = "trigger" => n \in S
            /\ \A e \in Edges(wf) : e[1] \in S => e[2] \in S
            => S = Ids(wf)

\* Passthroughs come and go without a node, but for the passthrough itself,
\* seeing other items, or one of them more or less often, and without one
\* failing that did not, or the reverse.  One exception: a Transform with an
\* empty set that failed, as it fails on what is no object, is removed too.
PassthroughsChangeNothing ==
    op'.name \in {"insert", "remove"} =>
        \A seeds \in SeedLists :
            LET before == Outcome(wf, seeds)
                after == Outcome(wf', seeds)
            IN  \/ \A n \in Ids(wf) \cap Ids(wf') : before[n] = after[n]
                \/ \E n \in Ids(wf) \ Ids(wf') : /\ Node(wf, n).mark = "blank"
                                                 /\ before[n].failed

\* The search never loses the node that it scores a candidate by.
ObservedStays == op'.name # "compose" /\ observe \in Ids(wf) => observe' \in Ids(wf')

\* A composition is its first workflow, and then its second on the items that
\* the ends of the first emit on port 0: every node emits in it what it did on
\* its own, and fails if it did.
ComposedRunsInTurn ==
    op'.name = "compose" /\ wf' # wf =>
        \A seeds \in SeedLists :
            LET a == op'.a
                b == op'.b.wf
                emitted == Emitted(a, seeds)
                handed == FoldLeft(LAMBDA acc, t :
                                      acc \o SelectSeq(emitted[t.id],
                                                       LAMBDA x : OutPort(t, x) = 0),
                                   <<>>, Terminals(a))
                first == Outcome(a, seeds)
                second == Outcome(b, handed)
                whole == Outcome(wf', seeds)
            IN  /\ \A n \in Ids(a) : whole[A(n)] = first[n]
                /\ \A n \in Ids(b) : Node(b, n).kind # "trigger" => whole[B(n)] = second[n]

\* The critical path leads from a root to a sink and no path takes longer.
CriticalPathIsLongest ==
    op'.name = "parallelize" =>
        LET latency == op'.latency
            path == CriticalPath(wf, latency)
            \* the latest time by which every node could be done
            done[n \in Ids(wf)] ==
                latency[n] + Max({0} \cup {done[p] : p \in Before(wf, n)})
        IN  /\ \A k \in 1 .. Len(path) - 1 : <<path[k], path[k + 1]>> \in Edges(wf)
            /\ \A n \in Ids(wf) : /\ <<n, path[1]>> \notin Edges(wf)
                                  /\ <<path[Len(path)], n>> \notin Edges(wf)
            /\ TotalLatency(wf, latency) = Max({done[n] : n \in Ids(wf)})

\* Running b beside a never makes a run longer, and saves no more than the
\* suggestion estimates: the time of a.
GainIsHonest ==
    op'.name = "parallelize" /\ wf' # wf =>
        LET before == TotalLatency(wf, op'.latency)
            after == TotalLatency(wf', op'.latency)
        IN  after <= before /\ before - after <= op'.latency[op'.edge.from]

\* Only what hangs on b sees another run, or fails in it, when b no longer waits
\* for a.
ParallelizeIsLocal ==
    op'.name = "parallelize" /\ wf' # wf =>
        \A seeds \in SeedLists :
            LET before == Outcome(wf, seeds)
                after == Outcome(wf', seeds)
                start == op'.edge.to
            IN  \A n \in Ids(wf) :
                    before[n] # after[n] =>
                        \A S \in SUBSET Ids(wf) :  \* n is in all that follows b
                            /\ start \in S
                            /\ \A e \in Edges(wf) : e[1] \in S => e[2] \in S
                            => n \in S

\* What the validator accepts is runnable, warned of what is never fed, and stays
\* valid under every rewrite.
WorkflowsSound == TypeOK /\ AcceptedIsRunnable /\ StaysValid /\ WarnedIfNeverFed

\* A rewrite does what its operator says and nothing else: mutations of the search,
\* compositions of skills and suggestions of the optimizer, which go by the critical
\* path of the workflow.
RewritesHonest ==
    [][/\ PassthroughsChangeNothing /\ ObservedStays /\ ComposedRunsInTurn
       /\ GainIsHonest /\ ParallelizeIsLocal /\ CriticalPathIsLongest]_vars
=============================================================================
