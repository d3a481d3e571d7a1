SPECIFICATION ResumeSpec
CONSTANTS
    Nodes <- Three
    Ports <- AllPorts
    Runs = {r1, r2, r3}
    Original = r1
    Workflows <- EditedFlows
    MaxConcurrency = 1
    MaxItems = 1
INVARIANT ResumesTheRest
PROPERTY RecordKept
CHECK_DEADLOCK FALSE
