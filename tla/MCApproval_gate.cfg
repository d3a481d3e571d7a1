\* Two executions of one node and two decisions.
SPECIFICATION SortedSpec
CONSTANTS
    Executions <- Two
    Deciders <- Two
    Payloads = {p1}
    MaxItems = 2
    MaxPolls = 1
    Attempts = 2
INVARIANT GateKept
PROPERTY EveryExecutionEnds
\* Executions end; nothing follows.
CHECK_DEADLOCK FALSE
