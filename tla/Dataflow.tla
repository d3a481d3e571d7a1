------------------------------ MODULE Dataflow ------------------------------
(***************************************************************************)
(* What an execution of a workflow promises, without waves, permits,       *)
(* retries or events: every node takes at most one turn, after all of its  *)
(* producers, and only if some of their items were routed to it; the run   *)
(* completes when every node has had its turn or was passed over, and it   *)
(* fails only because of a node that failed.                               *)
(***************************************************************************)
EXTENDS Integers

CONSTANTS Nodes, Runs, Items, Workflows

VARIABLES
    flow,    \* flow[r]: the workflow of run r (its edges and triggers)
    turn,    \* turn[r][n]: "due", "taken", "over", "passed" or "failed"
    output,  \* output[r][n]: the items n emitted
    verdict  \* verdict[r]: "open", "completed", "failed", "refused" or "dropped"

vars == <<flow, turn, output, verdict>>

Settled(r, n) == turn[r][n] \in {"over", "passed"}

Producers(r, n) == {e.from : e \in {d \in flow[r].edges : d.to = n}}

Routed(r, n) == \E e \in flow[r].edges :
    e.to = n /\ \E i \in output[r][e.from] : i.port = e.port

Init ==
    /\ flow \in [Runs -> Workflows]
    /\ turn = [r \in Runs |-> [n \in Nodes |-> "due"]]
    /\ output = [r \in Runs |-> [n \in Nodes |-> {}]]
    /\ verdict = [r \in Runs |-> "open"]

Take(r, n) ==
    /\ verdict[r] = "open"
    /\ turn[r][n] = "due"
    /\ \A p \in Producers(r, n) : Settled(r, p)
    /\ n \in flow[r].triggers \/ Routed(r, n)
    /\ turn' = [turn EXCEPT ![r][n] = "taken"]
    /\ UNCHANGED <<flow, output, verdict>>

Emit(r, n) ==
    /\ verdict[r] = "open"
    /\ turn[r][n] = "taken"
    /\ turn' = [turn EXCEPT ![r][n] = "over"]
    /\ \E items \in SUBSET {i \in Items : i.node = n} :
          output' = [output EXCEPT ![r][n] = items]
    /\ UNCHANGED <<flow, verdict>>

Break(r, n) ==
    /\ verdict[r] = "open"
    /\ turn[r][n] = "taken"
    /\ turn' = [turn EXCEPT ![r][n] = "failed"]
    /\ UNCHANGED <<flow, output, verdict>>

\* Nodes that nothing was or will ever be routed to are passed over.
PassOver(r, S) ==
    /\ verdict[r] = "open"
    /\ \A n \in S :
          /\ turn[r][n] = "due"
          /\ n \notin flow[r].triggers
          /\ ~Routed(r, n)
          /\ \A p \in Producers(r, n) : Settled(r, p) \/ p \in S
    /\ turn' = [turn EXCEPT ![r] =
                   [n \in Nodes |-> IF n \in S THEN "passed" ELSE @[n]]]
    /\ UNCHANGED <<flow, output, verdict>>

Close(r) ==
    /\ verdict[r] = "open"
    /\ \E v \in {"completed", "failed", "refused", "dropped"} :
          /\ v = "completed" => \A n \in Nodes : Settled(r, n)
          /\ v = "failed" => \E n \in Nodes : turn[r][n] = "failed"
          /\ v = "refused" => \A n \in Nodes : turn[r][n] = "due"
          /\ verdict' = [verdict EXCEPT ![r] = v]
    /\ UNCHANGED <<flow, turn, output>>

Next ==
    \E r \in Runs :
        \/ \E n \in Nodes : Take(r, n) \/ Emit(r, n) \/ Break(r, n)
        \/ \E S \in (SUBSET Nodes) \ {{}} : PassOver(r, S)
        \/ Close(r)

Spec == Init /\ [][Next]_vars
=============================================================================
