--------------------------- MODULE MCSubWorkflow ---------------------------
(* Instances of WorkflowRefs and SubWorkflow for TLC: any three PUTs and    *)
(* DELETEs over three workflows; and a run over two workflows during two    *)
(* PUTs and a DELETE.                                                       *)
EXTENDS SubWorkflow, FiniteSetsExt

Three == 1..3

MCInlined == {<<1, 2>>}
MCOptedIn == {<<1, 2>>, <<1, 1>>}

\* A number for what is asked for of an id.
Asked(q) == IF op[q].kind = "delete" THEN 0
            ELSE SumSet({2 ^ i : i \in op[q].targets} \cup {1})

\* Requests do not differ in anything but their identity, and without a run ids
\* do not either, so TLC may number the requests by the ids they are about, and
\* among those of one id by what they ask for, and the ids in the
\* order they first occur.  Unlike SYMMETRY this is sound for liveness too.
SortedRequests ==
    \A p, q \in Requests : q = p + 1 =>
        Id(p) < Id(q) \/ (Id(q) = Id(p) /\ Asked(p) <= Asked(q))

SortedIds ==
    /\ op[1].id = 1
    /\ \A p, q \in Requests : q = p + 1 => op[q].id - op[p].id \in {0, 1}

\* Bound: no two requests of three refer to more than one workflow.
OneBranches == Cardinality({q \in Requests : Cardinality(op[q].targets) > 1}) <= 1

MCInit ==
    /\ Init
    /\ frames = <<>> /\ error = FALSE /\ edited = FALSE
    /\ \/ run = "finished" /\ SortedRequests /\ SortedIds /\ OneBranches
       \/ /\ run = "none"
          /\ \A q \in Requests : {Id(q)} \cup op[q].targets \subseteq {1, 2}
          /\ op[1].kind = "put" /\ op[1].id = 1
          /\ op[2].kind = "put" /\ op[3].kind = "delete"

MCSpec == MCInit /\ [][SubNext]_allVars /\ SubFairness
=============================================================================
