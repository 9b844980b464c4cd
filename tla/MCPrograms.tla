----------------------------- MODULE MCPrograms -----------------------------
(****************************************************************************)
(* The programs of a single flow of control, and those of a few processes   *)
(* with few states, for TLC.  They have nothing in common but the array and *)
(* its drivers, so a behaviour is one of them; the others stay in one       *)
(* initial state.                                                           *)
(****************************************************************************)
EXTENDS SignalCounting, RecordSort, ArrayDriver, DirectorySearch,
        Interpreter, StopContinue, Fifo, Pipeline

VARIABLE program

(* Files of up to four records that are told apart by their second byte.    *)
MCRecordFiles ==
    { [k \in 1..(2 * Len(f)) |-> IF k % 2 = 1 THEN f[(k + 1) \div 2] ELSE k \div 2] :
        f \in UNION {[1..n -> 1..3] : n \in 0..4} }

(* A directory in a directory, one that cannot be read, and entries that    *)
(* differ from the day in each of its parts.                                *)
MCDay == <<17, 4, 12>>
MCEntry(t, day, to) == [type |-> t, day |-> day, to |-> to]
MCTree ==
    ("root" :> << MCEntry("file", <<16, 5, 13>>, ""), MCEntry("dir", MCDay, "sub"),
                  MCEntry("link", <<17, 4, 11>>, ""), MCEntry("file", MCDay, ""),
                  MCEntry("dir", MCDay, "locked"),    MCEntry("file", <<17, 4, 13>>, "") >>)
    @@
    ("sub" :> << MCEntry("file", <<17, 3, 13>>, ""), MCEntry("file", <<18, 3, 11>>, ""),
                 MCEntry("dir", MCDay, "empty"),     MCEntry("other", MCDay, ""),
                 MCEntry("file", MCDay, ""),         MCEntry("dir", MCDay, "deep") >>)
    @@
    ("deep" :> << MCEntry("file", <<17, 4, 11>>, ""), MCEntry("file", <<17, 5, 11>>, "") >>)
    @@
    ("empty" :> <<>>)
MCTrees == {MCTree}

(* Pairs of operations on an array.                                         *)
MCOps == {[kind |-> k, n |-> n] : k \in {"a", "ar", "r"}, n \in 0..2}
             \union {[kind |-> "s", n |-> 1], [kind |-> "?", n |-> 0]}

(* Scripts of pipelines: with up to four programs, lines that are empty, and *)
(* programs that fail, are missing or leave the end of their input unread.  *)
MCPipelines ==
    { << <<"list", "copy", "copy">>, <<>>, <<"list", "head">> >>,
      << <<"list", "head">>, <<"list", "copy">> >>,
      << <<"list">>, <<"list", "copy", "false">>, <<"list">> >>,
      << <<"copy", "missing", "copy">>, <<"list">> >>,
      << <<"list", "copy", "copy", "copy">> >>,
      << <<"missing">>, <<"list">> >> }

(* The array of pipes holds no descriptors at the start.                    *)
MCNoDescriptor == {-1}

(* Scripts of up to three commands: within the limits, over each of them,   *)
(* without end, failing, not found, and no command at all.                  *)
MCCommand(k, cpu, memory) == [kind |-> k, cpu |-> cpu, memory |-> memory]
MCScripts ==
    LET commands == { MCCommand("ok", 1, 1), MCCommand("ok", 3, 1), MCCommand("ok", 1, 2),
                      MCCommand("loops", 0, 1), MCCommand("fails", 1, 1),
                      MCCommand("missing", 0, 0), MCCommand("blank", 0, 0) }
    IN  UNION {[1..n -> commands] : n \in 0..3}

-----------------------------------------------------------------------------
MCInit ==
    /\ program \in {"signals", "sort", "array", "driver", "search", "interpreter", "stop", "fifo",
                   "pipeline"}
    /\ program # "signals" => type = 2 /\ L = 0
    /\ program # "sort"    => R_original = <<>> /\ R_at = "copy" /\ R_io = "sys"
    /\ program \notin {"array", "driver"} => A_kind = "static"
    /\ program # "search"  => D_version = "call" /\ D_op = "<" /\ D_room = 1
    /\ program # "interpreter" => I_version = "zad2" /\ I_script = <<>> /\ I_memory = 1
    /\ program # "stop"    => Z_program = "zad1a"
    /\ program # "fifo"    => /\ F_lines = [s \in Slaves |-> 0]
                              /\ F_buf = [k \in 1..PipeBuf |-> End]
    /\ Init /\ R_Init /\ D_Init /\ I_Init /\ Z_Init /\ F_Init
    /\ IF program = "driver" THEN T_Init
       ELSE /\ A_Init
            /\ T_version = "zad2" /\ T_ops = <<>> /\ T_at = "none" /\ T_op = 1 /\ T_k = 0
            /\ T_al = 0 /\ T_first = 0
    /\ IF program = "pipeline" THEN L_Init
       ELSE /\ script = <<>> /\ offset = 0 /\ buffered = <<>> /\ ran = <<>> /\ rewound = FALSE
            /\ phase = "done" /\ line = <<>> /\ j = 0 /\ pipes = [n \in 0..1 |-> <<-1, -1>>]
            /\ fd = AllClosed /\ kids = <<>> /\ content = <<>>

MCNext ==
    /\ UNCHANGED program
    /\ \/ /\ program = "signals" /\ Next
          /\ UNCHANGED <<R_vars, T_vars, D_vars, I_vars, Z_vars, F_vars, L_vars>>
       \/ /\ program = "sort" /\ R_Next
          /\ UNCHANGED <<vars, T_vars, D_vars, I_vars, Z_vars, F_vars, L_vars>>
       \/ /\ program = "array" /\ A_Next
          /\ UNCHANGED <<vars, R_vars, T_own, D_vars, I_vars, Z_vars, F_vars, L_vars>>
       \/ /\ program = "driver" /\ T_Next
          /\ UNCHANGED <<vars, R_vars, D_vars, I_vars, Z_vars, F_vars, L_vars>>
       \/ /\ program = "search" /\ D_Next
          /\ UNCHANGED <<vars, R_vars, T_vars, I_vars, Z_vars, F_vars, L_vars>>
       \/ /\ program = "interpreter" /\ I_Next
          /\ UNCHANGED <<vars, R_vars, T_vars, D_vars, Z_vars, F_vars, L_vars>>
       \/ /\ program = "stop" /\ Z_Next
          /\ UNCHANGED <<vars, R_vars, T_vars, D_vars, I_vars, F_vars, L_vars>>
       \/ /\ program = "fifo" /\ F_Next
          /\ UNCHANGED <<vars, R_vars, T_vars, D_vars, I_vars, Z_vars, L_vars>>
       \/ /\ program = "pipeline" /\ L_Next
          /\ UNCHANGED <<vars, R_vars, T_vars, D_vars, I_vars, Z_vars, F_vars>>

MCvars == <<program, vars, R_vars, T_vars, D_vars, I_vars, Z_vars, F_vars, L_vars>>
Signals(A) == /\ program = "signals" /\ A
              /\ UNCHANGED <<program, R_vars, T_vars, D_vars, I_vars, Z_vars, F_vars, L_vars>>
NamedPipe(A) == /\ program = "fifo" /\ A
                /\ UNCHANGED <<program, vars, R_vars, T_vars, D_vars, I_vars, Z_vars, L_vars>>
Pipelines(A) == /\ program = "pipeline" /\ A
                /\ UNCHANGED <<program, vars, R_vars, T_vars, D_vars, I_vars, Z_vars, F_vars>>

(* FairSpec of the signal counters, F_Spec, L_FairSpec, and the others.     *)
MCSpec ==
    /\ MCInit /\ [][MCNext]_MCvars
    /\ WF_MCvars(Signals(Parent)) /\ WF_MCvars(Signals(Child)) /\ WF_MCvars(Signals(C_End))
    /\ WF_MCvars(NamedPipe(MasterStep))
    /\ \A s \in Slaves : WF_MCvars(NamedPipe(SlaveStep(s)))
    /\ WF_MCvars(Pipelines(Runner))
    /\ \A k \in KidNumbers : WF_MCvars(Pipelines(k \in DOMAIN kids /\ K_Step(k)))

(* The programs that wait for each other end: both processes of cw04/zad3,  *)
(* and the master and all slaves of cw05/zad2.                              *)
TheyAllEnd == BothEnd /\ EveryoneEnds
=============================================================================
