\* Three static blocks of two characters.
SPECIFICATION A_Spec
CONSTANTS
    Letters = {1, 2}
    SoBlocks = 2
    NoBlocks = 3
    bl = 3
    MaxBlocks = 1
INVARIANTS
    StaticFindsNearest
CHECK_DEADLOCK FALSE
