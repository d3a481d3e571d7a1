\* Any three PUTs and DELETEs over three workflows, and runs over two.
SPECIFICATION MCSpec
CONSTANTS
    Ids <- Three
    Requests <- Three
    MaxDepth = 3
    Cap = 3
    Inlined <- MCInlined
    OptedIn <- MCOptedIn
    Tolerant = {2}
    Attempts = 2
INVARIANTS ReferencesSound NestingSound
PROPERTIES DeletesUnreferenced EverythingEnds
\* Requests and the run end; nothing follows.
CHECK_DEADLOCK FALSE
