----------------------------- MODULE Interpreter -----------------------------
(****************************************************************************)
(* cw03/zad2 and cw03/zad3a: run the commands of a script one after the     *)
(* other, each in a child, and stop at the first that fails.  cw03/zad3a    *)
(* sets limits in the child and prints what each command has used, the      *)
(* difference of what all children had used before and after it.            *)
(*                                                                          *)
(* cw03/zad2 frees the line after each command, and getline goes on with    *)
(* the pointer: it writes into memory that was freed, and the next free is  *)
(* a second one of the same memory, which the allocator may notice.         *)
(*                                                                          *)
(* A command is told by how it ends, the CPU time and the memory it needs.  *)
(* Lines have fewer than ten words and fit into the first memory they get.  *)
(****************************************************************************)
EXTENDS Integers, Sequences, SequencesExt

CONSTANTS Commands,            \* sequences of commands, one for each script
          CpuLimit,            \* argv[2] of zad3a
          MemoryLimits         \* argv[3] of zad3a, in megabytes

Kinds == {"ok", "fails", "loops", "missing", "blank"}

ASSUME InterpreterConstants ==
    /\ CpuLimit \in Nat \ {0} /\ MemoryLimits \subseteq Nat
    /\ \A s \in Commands : s \in Seq([kind : Kinds, cpu : Nat, memory : Nat])

VARIABLES I_version,           \* "zad2" or "zad3a"
          I_script, I_pos,     \* the lines, and how many were read
          I_at,                \* the interpreter
          I_memory,            \* argv[3]
          I_block,             \* what line points to: "none", "used" or "freed"
          I_start,             \* usage of the children before the command
          I_child, I_status,   \* the child: place and exit status
          I_used,              \* usage of all children that were waited for
          I_ran,               \* history variable: how many commands were run
          I_reports            \* history variable: usages printed

I_args   == <<I_version, I_script, I_memory>>
I_line   == <<I_pos, I_block, I_start>>
I_kernel == <<I_child, I_status, I_used>>
I_vars   == <<I_args, I_line, I_kernel, I_at, I_ran, I_reports>>

I_Init ==
    /\ I_version \in {"zad2", "zad3a"}
    /\ I_script \in Commands /\ I_memory \in MemoryLimits
    /\ I_pos = 0 /\ I_at = "getline" /\ I_block = "none" /\ I_start = 0
    /\ I_child = "none" /\ I_status = 0 /\ I_used = 0
    /\ I_ran = 0 /\ I_reports = <<>>

Command == I_script[I_pos]
Limited == I_version = "zad3a"

(* RLIMIT_AS: an int is shifted by 20, and what is left of it made a rlim_t *)
(* of 64 bits: a negative number is a limit that nothing reaches.           *)
WithinMemory(c) == LET m == I_memory % 4096 IN m >= 2048 \/ c.memory <= m

(* What a command consumes, and whether it ends well.                       *)
Spent(c)  == IF c.kind \in {"missing", "blank"} \/ (Limited /\ ~ WithinMemory(c)) THEN 0
             ELSE IF Limited /\ (c.kind = "loops" \/ c.cpu > CpuLimit) THEN CpuLimit
             ELSE c.cpu
EndsWell(c) ==
    /\ c.kind = "ok"
    /\ Limited => c.cpu <= CpuLimit /\ WithinMemory(c)

-----------------------------------------------------------------------------
(* Seeded fault: the usage before the command is taken once, at the start.  *)
I_GetLine_StartOnce ==
    /\ I_at = "getline" /\ I_pos < Len(I_script)
    /\ I_pos' = I_pos + 1 /\ I_at' = "vfork"
    /\ I_block' = IF I_block = "none" THEN "used" ELSE I_block
    /\ UNCHANGED <<I_start, I_args, I_kernel, I_ran, I_reports>>

(* getline with the pointer it was given before, and the words of the line. *)
I_GetLine ==
    /\ I_at = "getline" /\ I_pos < Len(I_script)
    /\ I_pos' = I_pos + 1 /\ I_at' = "vfork"
    /\ I_block' = IF I_block = "none" THEN "used" ELSE I_block
    /\ I_start' = I_used
    /\ UNCHANGED <<I_args, I_kernel, I_ran, I_reports>>

I_Eof ==
    /\ I_at = "getline" /\ I_pos = Len(I_script)
    /\ I_at' = "done"
    /\ UNCHANGED <<I_args, I_line, I_kernel, I_ran, I_reports>>

(* vfork: the interpreter stands still until the child has called exec.     *)
I_Vfork ==
    /\ I_at = "vfork" /\ I_at' = "suspended"
    /\ I_child' = "exec"
    /\ UNCHANGED <<I_args, I_line, I_status, I_used, I_ran, I_reports>>

(* The child sets its limits and calls exec, or exits if there is no such   *)
(* program; a line without a word kills it.                                 *)
I_Exec ==
    /\ I_child = "exec" /\ I_at' = "wait"
    /\ IF Command.kind \in {"missing", "blank"}
       THEN I_child' = "zombie" /\ I_status' = 1 /\ UNCHANGED I_ran
       ELSE I_child' = "running" /\ I_ran' = I_ran + 1 /\ UNCHANGED I_status
    /\ UNCHANGED <<I_args, I_line, I_used, I_reports>>

(* The program ends by itself or is ended by a limit.                       *)
I_ProgramEnds ==
    /\ I_child = "running" /\ (Command.kind = "loops" => Limited)
    /\ I_child' = "zombie"
    /\ I_status' = IF EndsWell(Command) THEN 0 ELSE 1
    /\ UNCHANGED <<I_args, I_line, I_used, I_at, I_ran, I_reports>>

(* waitpid, the message if the program failed, and in zad3a the report.     *)
I_Wait ==
    /\ I_at = "wait" /\ I_child = "zombie"
    /\ I_child' = "none" /\ I_used' = I_used + Spent(Command)
    /\ I_at' = IF I_status # 0 THEN "stopped" ELSE IF Limited THEN "getline" ELSE "free"
    /\ I_reports' = IF Limited THEN Append(I_reports, I_used' - I_start) ELSE I_reports
    /\ UNCHANGED <<I_args, I_line, I_status, I_ran>>

(* free(line), in zad2; the second time it is undefined.                    *)
I_Free ==
    /\ I_at = "free" /\ I_block' = "freed"
    /\ I_at' = "getline" \/ (I_block = "freed" /\ I_at' = "aborted")
    /\ UNCHANGED <<I_args, I_pos, I_start, I_kernel, I_ran, I_reports>>

I_Next ==
    \/ I_GetLine \/ I_Eof  \/ I_Vfork \/ I_Exec
    \/ I_ProgramEnds \/ I_Wait \/ I_Free

I_Spec == I_Init /\ [][I_Next]_I_vars

-----------------------------------------------------------------------------
(* Properties                                                               *)

(* What a command does if the limits are what the user has asked for.       *)
AsAsked(c) ==
    /\ c.kind = "ok"
    /\ Limited => c.cpu <= CpuLimit /\ c.memory <= I_memory

(* A command is run only if all before it have ended well, and the usage    *)
(* that is printed for it is its own, also if a limit has ended it.  The    *)
(* limits are the ones asked for as long as these are below 2048 megabytes. *)
EachOnItsOwn ==
    /\ I_memory < 2048 \/ ~ Limited =>
          /\ \A n \in 1..(I_pos - 1) : AsAsked(I_script[n])
          /\ I_at = "stopped" => ~ AsAsked(Command)
    /\ I_reports = [n \in 1..Len(I_reports) |-> Spent(I_script[n])]

(* The commands of a script run up to the first that fails, as the script   *)
(* cw03/zad2/proba.txt expects, the fourth line of which is no program.     *)
ScriptIsRun ==
    I_at \in {"done", "stopped", "aborted"} =>
        \/ Len(I_script) = I_ran
        \/ ~ EndsWell(Command)
=============================================================================
