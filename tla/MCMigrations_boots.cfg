\* Any database of versions 0 to 7, three interruptions.
SPECIFICATION Spec
CONSTANTS
    Ids <- Two
    Keys <- OneKey
    MaxCrashes = 1
    MaxFaults = 2
INVARIANT SchemaSound
PROPERTIES KeysKept ComesUp
\* A server that is up stays up.
CHECK_DEADLOCK FALSE
