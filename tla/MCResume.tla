------------------------------ MODULE MCResume ------------------------------
(* Instances of Resume for TLC. *)
EXTENDS Resume, MCEngine

\* Workflows that may replace each other between a run and its resumption:
\* other connections, other nodes, not valid, not executable.
EditedFlow(g) == Flow(Three, g, Always(Three, "continue"), Always(Three, 1))

EditedFlows ==
    {EditedFlow({E(1, 0, 2), E(2, 0, 3)}),
     EditedFlow({E(1, 0, 2), E(1, 0, 3), E(2, 1, 3)}),
     EditedFlow({E(1, 0, 2)}),
     Without(EditedFlow({E(1, 0, 2)}), {3}),
     Without(EditedFlow({E(1, 0, 3)}), {2})}
    \cup {Flow(Three, {E(1, 0, 2), E(2, 0, 3), E(3, 0, 2)},
               Always(Three, "stop"), Always(Three, 1)),
          [Flow(Three, {}, Always(Three, "stop"), Always(Three, 1))
              EXCEPT !.registered = FALSE]}
=============================================================================
