\* Two producers, two consumers and a ring that is filled once, to the end of the file, or
\* for NK seconds, after which all threads are cancelled at any point.
SPECIFICATION FairSpec
CONSTANTS
    p1 = p1
    p2 = p2
    c1 = c1
    c2 = c2
    Producers = {p1, p2}
    Consumers = {c1, c2}
    N = 2
    NLines = 2
    LineLength <- MCLineLength2
    L = 2
    search_mode = 2
    NKs = {0, 1}
INVARIANTS
    LockTokens
PROPERTIES
    ImplementsLineQueue
    RunCompletes
CHECK_DEADLOCK FALSE
