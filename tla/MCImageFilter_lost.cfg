\* Two threads: the second one is never joined.
SPECIFICATION Spec
CONSTANTS
    Height = 2
    Width = 2
    FilterSize = 3
    ThreadNo = 2
    Image <- MCImage
    Weights <- MCWeights
INVARIANTS
    ResultInFile
CHECK_DEADLOCK FALSE
