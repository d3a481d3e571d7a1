\* Two runs of one engine with a single permit (with_max_concurrency(0) is
\* clamped to 1): the shared semaphore, dropped runs, silent peers and liveness.
SPECIFICATION FairSpec
CONSTANTS
    Nodes <- Three
    Ports <- AllPorts
    Runs = {r1, r2}
    Workflows <- ThreeFlows
    MaxConcurrency = 0
    MaxItems = 1
INVARIANTS
    PermitsConserved
PROPERTIES
    EndedIsFinal
    EveryRunEnds
\* Both runs end, or wait for a silent peer.
CHECK_DEADLOCK FALSE
