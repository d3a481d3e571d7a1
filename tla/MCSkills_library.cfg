\* Three clients of the library; and searches of up to four generations.
SPECIFICATION MCSpec
CONSTANTS
    c1 = c1
    c2 = c2
    c3 = c3
    Clients = {c1, c2, c3}
    Requests <- MCRequests
    Stored <- MCStored
    Stopwords = {"the"}
    Candidates = {1, 2, 3, 4, 5, 6}
    Seed = 3
    Operators = {"set", "insert", "remove"}
    Derived <- MCDerived
    Size <- MCSize
    Sound = {1, 2, 3, 4, 5}
    Behaviours <- MCBehaviours
    SearchRequests <- MCSearches
INVARIANTS LibrarySound RightIsPromoted SearchSound
\* A request that was answered is done.
CHECK_DEADLOCK FALSE
