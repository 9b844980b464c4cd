\* Two children, allowed in bulk or one by one; two numbers to draw from.
SPECIFICATION FairSpec
CONSTANTS
    a = a
    b = b
    rt1 = rt1
    rt2 = rt2
    Children = {a, b}
    Ks = {0, 1, 2}
    RealTime = {rt1, rt2}
INVARIANTS
    FlagIsPassedOn
    WorkIsCounted
PROPERTIES
    EveryoneWorksThenEnds
CHECK_DEADLOCK FALSE
