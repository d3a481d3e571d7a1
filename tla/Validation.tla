----------------------------- MODULE Validation -----------------------------
(***************************************************************************)
(* The structural checks of a workflow: validate of                        *)
(* crates/a2w-validator/src/lib.rs.  (Its per-kind parameter checks are in *)
(* module NodeParams.)                                                     *)
(*                                                                         *)
(* A workflow is a record: version, whether its schema version is this     *)
(* build's; nodes, a sequence of records with an id, a kind, a mark (what  *)
(* its parameters hold) and calls (which workflow a sub_workflow node      *)
(* names); and conns, a sequence of connections.                           *)
(***************************************************************************)
EXTENDS Integers, Sequences, FiniteSets, SequencesExt

Ids(wf) == {node.id : node \in Range(wf.nodes)}

\* by_id: of several nodes with one id the first is meant.
Node(wf, id) == wf.nodes[Min({i \in DOMAIN wf.nodes : wf.nodes[i].id = id})]

\* By their positions; the first of them is what finds look for.
TriggerNodes(wf) == {i \in DOMAIN wf.nodes : wf.nodes[i].kind = "trigger"}
TriggerId(wf) == wf.nodes[Min(TriggerNodes(wf))].id

\* output_port_count; a switch has as many as it likes.
PortOk(node, port) ==
    CASE node.kind = "switch" -> TRUE
      [] node.kind \in {"branch", "loop", "approval"} -> port < 2
      [] OTHER -> port < 1

-----------------------------------------------------------------------------
(* The checks, each as a condition that is an error. *)

DuplicateNodeId(wf) == Cardinality(Ids(wf)) # Len(wf.nodes)

NotOneTrigger(wf) == Cardinality(TriggerNodes(wf)) # 1

Dangling(wf, c) == {c.from, c.to} \ Ids(wf) # {}

InvalidOutputPort(wf, c) == c.from \in Ids(wf) /\ ~PortOk(Node(wf, c.from), c.port)

\* The edges that the checks of the graph go by.
ValidEdges(wf) ==
    {<<c.from, c.to>> : c \in {d \in Range(wf.conns) :
                                  ~Dangling(wf, d) /\ ~InvalidOutputPort(wf, d)}}

\* toposort: nodes are taken away while there is one without a predecessor.
Untaken(wf) ==
    LET edges == ValidEdges(wf)
        left[k \in 0..Cardinality(Ids(wf))] ==
            IF k = 0 THEN Ids(wf)
            ELSE LET rest == left[k - 1]
                 IN  {n \in rest : \E p \in rest : <<p, n>> \in edges}
    IN  left[Cardinality(Ids(wf))]

\* Mutant: only a node that feeds itself is a cycle.
FeedsItself(wf) == \E e \in ValidEdges(wf) : e[1] = e[2]

HasCycle(wf) == Untaken(wf) # {}

\* Mutant: the search follows the edges in both directions.
Connected(wf) ==
    LET edges == ValidEdges(wf)
        found[k \in 0..Cardinality(Ids(wf))] ==
            IF k = 0 THEN {TriggerId(wf)}
            ELSE LET known == found[k - 1]
                 IN  known \cup UNION {{e[1], e[2]} : e \in {d \in edges : {d[1], d[2]} \cap known # {}}}
    IN  found[Cardinality(Ids(wf))]

\* The breadth-first search from the trigger.
Reachable(wf) ==
    LET edges == ValidEdges(wf)
        found[k \in 0..Cardinality(Ids(wf))] ==
            IF k = 0 THEN {TriggerId(wf)}
            ELSE LET known == found[k - 1]
                 IN  known \cup {e[2] : e \in {d \in edges : d[1] \in known}}
    IN  found[Cardinality(Ids(wf))]

\* Only with one trigger and no cycle are unreachable nodes reported.
Unreachable(wf) ==
    IF NotOneTrigger(wf) \/ HasCycle(wf) THEN {} ELSE Ids(wf) \ Reachable(wf)

\* By its id, or inline under the same id.
SelfReference(wf) ==
    \E node \in Range(wf.nodes) : node.kind = "sub_workflow" /\ node.calls = "itself"

TriggerHasIncoming(wf) ==
    \E node \in Range(wf.nodes), c \in Range(wf.conns) :
        node.kind = "trigger" /\ c.to = node.id

-----------------------------------------------------------------------------
\* The codes of the report.  A workflow of another schema, or without nodes, is
\* not looked at any further.
Report(wf) ==
    IF ~wf.version THEN {"unsupported_schema_version"}
    ELSE IF wf.nodes = <<>> THEN {"empty_workflow"}
    ELSE {code \in {"duplicate_node_id", "trigger_count", "dangling_connection",
                    "invalid_output_port", "cycle", "unreachable_node",
                    "sub_workflow_self_reference", "trigger_has_incoming_connection"} :
            CASE code = "duplicate_node_id" -> DuplicateNodeId(wf)
              [] code = "trigger_count" -> NotOneTrigger(wf)
              [] code = "dangling_connection" -> \E c \in Range(wf.conns) : Dangling(wf, c)
              [] code = "invalid_output_port" ->
                     \E c \in Range(wf.conns) : InvalidOutputPort(wf, c)
              [] code = "cycle" -> HasCycle(wf)
              [] code = "unreachable_node" -> Unreachable(wf) # {}
              [] code = "sub_workflow_self_reference" -> SelfReference(wf)
              [] code = "trigger_has_incoming_connection" -> TriggerHasIncoming(wf)}

\* from_findings: warnings do not count.
IsValid(wf) == Report(wf) \subseteq {"unreachable_node"}
=============================================================================
