\* Three threads for five rows.
SPECIFICATION FairSpec
CONSTANTS
    Height = 5
    Width = 2
    FilterSize = 3
    ThreadNo = 3
    Image <- MCImage
    Weights <- MCWeights
INVARIANTS
    EachRowOnce
    JoinedRowsInFile
CHECK_DEADLOCK FALSE
