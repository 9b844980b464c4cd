\* Signals: every type of run, with none, one and several signals.
\* Records: every file of up to four records of two bytes, with three keys.
\* Blocks: up to three blocks of up to two characters (static: three of two);
\* drivers: all pairs of operations with up to two rounds, on one and three blocks.
\* Search: one tree, for a terminal, a small buffer and a large one.
\* Interpreters: limits within reach, at the sign bit and past the width of an int.
\* Ctrl-Z: up to five times. FIFO: two slaves with up to two lines, a buffer of 1 1/2 lines.
\* Pipelines: lines of up to four programs, the array of pipes empty at the start.
SPECIFICATION MCSpec
CONSTANTS
    Types = {1, 2, 3}
    Ls = {0, 1, 2, 6}
    Endless = 3
    SoR = 2
    RecordFiles <- MCRecordFiles
    Letters = {1, 2}
    SoBlocks = 2
    NoBlocks = 3
    bl = 3
    MaxBlocks = 3
    T_Ops <- MCOps
    T_Lengths = {1, 3}
    rep = 2
    Trees <- MCTrees
    Root = "root"
    Day <- MCDay
    BufferSizes = {1, 2, 9}
    Commands <- MCScripts
    CpuLimit = 2
    MemoryLimits = {1, 2048, 4096}
    MaxPresses = 5
    Slaves = {"s1", "s2"}
    F_Lines = {0, 1, 2}
    PipeBuf = 3
    Scripts <- MCPipelines
    Items = 4
    Cap = 1
    Chunk = 2
    Garbage <- MCNoDescriptor
    MaxLines = 8
INVARIANTS
    SignalsAccounted
    PingPongReportsAll
    RecordsSurviveStop
    SortedStably
    ArrayIsList
    NearestIsNearest
    
    EveryMatchListed
    ListedAgain
    EachOnItsOwn
    CtrlZToggles
    NothingLost
    StreamArrives
    LinesOnce
PROPERTIES
    TheyAllEnd
    NobodyLeftBehind
CHECK_DEADLOCK FALSE
