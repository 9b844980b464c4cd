\* The array starts as a build without optimisation finds it: all zeros.
SPECIFICATION L_Spec
CONSTANTS
    Scripts <- TestScript
    Items = 1
    Cap = 1
    Chunk = 2
    Garbage = {0}
    MaxLines = 2
INVARIANTS
    StreamArrives
CHECK_DEADLOCK FALSE
