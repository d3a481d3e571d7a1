\* One run over every four-node DAG with a two-port node 2: routing, orphans,
\* fan-in, error policies, retries and the promise of Dataflow.
SPECIFICATION Spec
CONSTANTS
    Nodes <- Four
    Ports <- AllPorts
    Runs = {r1}
    Workflows <- FourFlows
    MaxConcurrency = 2
    MaxItems = 1
INVARIANTS
    TypeOK
    ScheduleInv
    FiredOnInput
    NeverStalled
    LedgerAccounts
PROPERTIES
    CommittedOnce
    KeepsPromise
\* A run ends; nothing follows.
CHECK_DEADLOCK FALSE
