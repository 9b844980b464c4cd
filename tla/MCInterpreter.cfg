\* The script proba.txt, with limits its commands keep.
SPECIFICATION I_Spec
CONSTANTS
    Commands <- MCProba
    CpuLimit = 2
    MemoryLimits = {1}
INVARIANT
    ScriptIsRun
CHECK_DEADLOCK FALSE
