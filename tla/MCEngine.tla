------------------------------ MODULE MCEngine ------------------------------
(* Instances of Engine for TLC: families of small workflows, chosen so that *)
(* fan-out, fan-in, port routing, orphans, every error policy and every     *)
(* reason to reject a workflow occur.                                       *)
EXTENDS Engine, TLC

-----------------------------------------------------------------------------
(* Workflow families. *)

AllPorts == {0, 1}

E(f, p, t) == [from |-> f, port |-> p, to |-> t]

\* Node 1 is the trigger, node 2 a branch (two ports), the others have one
\* port.  Edges go from lower to higher numbers: every DAG up to renaming.
BranchPorts(N) == [n \in N |-> IF n = 2 THEN {0, 1} ELSE {0}]

Forward(N) == {e \in [from : N, port : AllPorts, to : N] :
                  e.from < e.to /\ e.port \in BranchPorts(N)[e.from]}

Flow(N, edges, onError, attempts) ==
    [nodes |-> N, triggers |-> {1}, edges |-> edges, ports |-> BranchPorts(N),
     registered |-> TRUE, on_error |-> onError, max_attempts |-> attempts,
     untimed |-> {}]

\* The workflow without the nodes S, and with nodes S that are calls to peers.
Without(w, S) ==
    [w EXCEPT !.nodes = @ \ S, !.edges = {e \in @ : {e.from, e.to} \cap S = {}}]

Calling(w, S) == [w EXCEPT !.untimed = S]

Always(N, x) == [n \in N |-> x]

\* Workflows that run_with_id must refuse.
Rejected(N) ==
    LET ok == Flow(N, {E(1, 0, 2)}, Always(N, "stop"), Always(N, 1)) IN
    {[ok EXCEPT !.edges = {E(1, 0, 2), E(2, 0, 3), E(3, 0, 2)}],
     [ok EXCEPT !.edges = {E(1, 0, 2), E(1, 1, 3)}],
     [ok EXCEPT !.edges = {E(2, 0, 1)}],
     [ok EXCEPT !.nodes = {1}],
     [ok EXCEPT !.triggers = {}],
     [ok EXCEPT !.triggers = {1, 3}],
     [ok EXCEPT !.registered = FALSE]}

\* One run over every DAG on four nodes; node 2 tolerates errors, node 3
\* retries once.  A workflow of three of them leaves the fourth out.
Four == 1..4
FourFlows ==
    {Flow(Four, g, [Always(Four, "stop") EXCEPT ![2] = "continue", ![4] = "route"],
          [Always(Four, 1) EXCEPT ![3] = 2]) : g \in SUBSET Forward(Four)}
        \cup {Without(Flow(Four, {E(1, 0, 2), E(2, 0, 3)}, Always(Four, "stop"),
                           Always(Four, 1)), {4})}
        \cup Rejected(Four)

\* Several runs that share the permits: fan-out, also to a peer that may stay
\* silent, an orphan, and a branch whose arms merge.
Three == 1..3
FanOut ==
    Flow(Three, {E(1, 0, 2), E(1, 0, 3)}, Always(Three, "stop"),
         [Always(Three, 0) EXCEPT ![2] = 2])

ThreeFlows ==
    {FanOut,
     Calling(FanOut, {3}),
     Flow(Three, {E(1, 0, 2), E(2, 0, 3), E(2, 1, 3)},
          [Always(Three, "continue") EXCEPT ![3] = "stop"], Always(Three, 1)),
     Flow(Three, {E(1, 0, 2)}, Always(Three, "route"), Always(Three, 1))}
=============================================================================
