\* Three producers, three consumers, a ring of two cells, four lines: the ring wraps
\* around, is full and is empty. pthread_cond_wait may return unprovoked, and the
\* program runs to the end of the file or is cut off at any point after NK seconds.
SPECIFICATION FairSpec
CONSTANTS
    p1 = p1
    p2 = p2
    p3 = p3
    c1 = c1
    c2 = c2
    c3 = c3
    Producers = {p1, p2, p3}
    Consumers = {c1, c2, c3}
    NoThread = NoThread
    N = 2
    NLines = 4
    LineLength <- MCLineLength4
    L = 2
    search_mode = 0
    NKs = {0, 1}
    SpuriousWakeups = TRUE
INVARIANTS
    NoLostWakeup
    EndMeansDrained
    FoundAll
PROPERTIES
    ImplementsLineQueue
    RunCompletes
CHECK_DEADLOCK FALSE
