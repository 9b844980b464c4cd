\* One thread of each kind and one line are enough for main to wait for ever.
SPECIFICATION FairSpec
CONSTANTS
    p1 = p1
    p2 = p2
    p3 = p3
    c1 = c1
    c2 = c2
    c3 = c3
    Producers = {p1}
    Consumers = {c1}
    NoThread = NoThread
    N = 1
    NLines = 3
    LineLength <- MCLineLength3
    L = 2
    search_mode = 0
    NKs = {0}
    SpuriousWakeups = FALSE
PROPERTIES
    ConsumersFinish
CHECK_DEADLOCK FALSE
