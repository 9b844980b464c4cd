-------------------------------- MODULE Fifo --------------------------------
(****************************************************************************)
(* cw05/zad2: the master makes a named FIFO and prints what it reads, until *)
(* it sees the end; slaves open the FIFO, write their lines, close it, and  *)
(* remove its name, as the master does.                                     *)
(*                                                                          *)
(* A line is two pieces, so that a read may end inside of one, and a write  *)
(* is atomic (the lines are shorter than PIPE_BUF).  The master prints its  *)
(* buffer as a string although nothing it reads ends with a terminator:     *)
(* what an earlier, longer read left behind is printed again.               *)
(****************************************************************************)
EXTENDS Integers, Sequences, FiniteSets, SequencesExt

CONSTANTS Slaves,
          F_Lines,        \* the numbers of lines a slave may be started with
          PipeBuf         \* PIPE_BUF, in pieces

ASSUME FifoConstants == F_Lines \subseteq Nat /\ PipeBuf \in Nat \ {0}

End       == <<"\\0", 0, 0>>     \* the terminator of a string
F_NoPiece == <<"nobody", 0, 0>>

VARIABLES F_name,         \* the name is in the file system
          F_content,      \* what the FIFO holds
          F_master, F_buf, F_got,
          F_slave,        \* place of each slave
          F_lines,        \* the argument of each slave
          F_i,            \* its loop variable
          F_written,      \* history variable: all pieces written, in order
          F_shown,        \* history variable: all pieces printed, in order
          F_late          \* history variable: slaves that opened the FIFO after
                          \* the master had seen its end

F_file       == <<F_name, F_content>>
F_masterVars == <<F_master, F_buf, F_got, F_shown>>
F_slaveVars  == <<F_slave, F_lines, F_i, F_written, F_late>>
F_vars       == <<F_file, F_masterVars, F_slaveVars>>

F_Init ==
    /\ F_name = FALSE /\ F_content = <<>>
    /\ F_master = "mkfifo" /\ F_got = 0
    /\ F_buf \in [1..PipeBuf -> {End, F_NoPiece}]
    /\ F_slave = [s \in Slaves |-> "begin"] /\ F_i = [s \in Slaves |-> 0]
    /\ F_lines \in [Slaves -> F_Lines]
    /\ F_written = <<>> /\ F_shown = <<>> /\ F_late = {}

(* Who has the FIFO open; open itself counts while it waits for the others. *)
Reading == F_master \in {"opening", "read", "print", "close"}

(* Seeded fault: the master opens the FIFO for writing as well (O_RDWR).    *)
Writers_WithMaster ==
    {s \in Slaves : F_slave[s] \in {"opening", "write"}}
        \union (IF Reading THEN {"the master"} ELSE {})

Writers == {s \in Slaves : F_slave[s] \in {"opening", "write"}}

-----------------------------------------------------------------------------
(* The master.                                                              *)

M_Mkfifo ==
    /\ F_master = "mkfifo" /\ F_master' = "open"
    /\ F_name' = TRUE
    /\ UNCHANGED <<F_content, F_buf, F_got, F_shown, F_slaveVars>>

(* open for reading lets the slaves go on that wait for it, and waits for   *)
(* one if there is none.  (No slave can have removed the name before.)      *)
M_Open ==
    /\ F_master = "open"
    /\ F_master' = IF Writers = {} THEN "opening" ELSE "read"
    /\ F_slave' = [s \in Slaves |-> IF F_slave[s] = "opening" THEN "write" ELSE F_slave[s]]
    /\ UNCHANGED <<F_file, F_buf, F_got, F_shown, F_lines, F_i, F_written, F_late>>

(* Seeded fault: read does not wait for the writers (O_NONBLOCK).           *)
M_Read_NonBlocking ==
    /\ F_master = "read"
    /\ LET k == IF Len(F_content) < PipeBuf THEN Len(F_content) ELSE PipeBuf IN
        /\ F_got' = k
        /\ F_buf' = [n \in 1..PipeBuf |-> IF n <= k THEN F_content[n] ELSE F_buf[n]]
        /\ F_content' = SubSeq(F_content, k + 1, Len(F_content))
        /\ F_master' = IF k = 0 THEN "close" ELSE "print"
    /\ UNCHANGED <<F_name, F_shown, F_slaveVars>>

(* read takes what there is; it waits for a writer, and sees the end if     *)
(* there is none left.                                                      *)
M_Read ==
    /\ F_master = "read" /\ (F_content # <<>> \/ Writers = {})
    /\ LET k == IF Len(F_content) < PipeBuf THEN Len(F_content) ELSE PipeBuf IN
        /\ F_got' = k
        /\ F_buf' = [n \in 1..PipeBuf |-> IF n <= k THEN F_content[n] ELSE F_buf[n]]
        /\ F_content' = SubSeq(F_content, k + 1, Len(F_content))
        /\ F_master' = IF k = 0 THEN "close" ELSE "print"
    /\ UNCHANGED <<F_name, F_shown, F_slaveVars>>

(* printf of the buffer, up to the first terminator or to its end; what may *)
(* follow in memory behind a full buffer is left out.                       *)
Printed ==
    LET ends == {k \in 1..PipeBuf : F_buf[k] = End}
    IN  SubSeq(F_buf, 1, IF ends = {} THEN PipeBuf ELSE Min(ends) - 1)

M_Print ==
    /\ F_master = "print" /\ F_master' = "read"
    /\ F_shown' = F_shown \o Printed
    /\ UNCHANGED <<F_file, F_buf, F_got, F_slaveVars>>

(* close: nobody will read what is still in the FIFO.                       *)
M_Close ==
    /\ F_master = "close" /\ F_master' = "remove"
    /\ F_content' = <<>>
    /\ UNCHANGED <<F_name, F_buf, F_got, F_shown, F_slaveVars>>

M_Remove ==
    /\ F_master = "remove" /\ F_master' = "done"
    /\ F_name' = FALSE
    /\ UNCHANGED <<F_content, F_buf, F_got, F_shown, F_slaveVars>>

-----------------------------------------------------------------------------
(* A slave.                                                                 *)

(* open for writing: there is no such name, or it waits for the master.     *)
S_Open(s) ==
    /\ F_slave[s] = "begin"
    /\ F_slave' = [F_slave EXCEPT ![s] = IF ~ F_name THEN "failed"
                                           ELSE IF Reading THEN "write" ELSE "opening"]
    /\ F_master' = IF F_name /\ F_master = "opening" THEN "read" ELSE F_master
    /\ F_late' = IF F_name /\ F_master \in {"close", "remove"} THEN F_late \union {s} ELSE F_late
    /\ UNCHANGED <<F_file, F_buf, F_got, F_shown, F_lines, F_i, F_written>>

(* write: nobody reads any more, and SIGPIPE kills the slave.               *)
S_Write(s) ==
    /\ F_slave[s] = "write" /\ F_i[s] < F_lines[s] /\ Reading
    /\ LET pieces == <<<<s, F_i[s], 1>>, <<s, F_i[s], 2>>>> IN
        /\ F_content' = F_content \o pieces
        /\ F_written' = F_written \o pieces
    /\ F_i' = [F_i EXCEPT ![s] = @ + 1]
    /\ UNCHANGED <<F_name, F_masterVars, F_slave, F_lines, F_late>>

S_Killed(s) ==
    /\ F_slave[s] = "write" /\ F_i[s] < F_lines[s] /\ ~ Reading
    /\ F_slave' = [F_slave EXCEPT ![s] = "killed"]
    /\ UNCHANGED <<F_file, F_masterVars, F_lines, F_i, F_written, F_late>>

S_Close(s) ==
    /\ F_slave[s] = "write" /\ F_i[s] = F_lines[s]
    /\ F_slave' = [F_slave EXCEPT ![s] = "remove"]
    /\ UNCHANGED <<F_file, F_masterVars, F_lines, F_i, F_written, F_late>>

S_Remove(s) ==
    /\ F_slave[s] = "remove"
    /\ F_slave' = [F_slave EXCEPT ![s] = "done"]
    /\ F_name' = FALSE
    /\ UNCHANGED <<F_content, F_masterVars, F_lines, F_i, F_written, F_late>>

-----------------------------------------------------------------------------
MasterStep == M_Mkfifo \/ M_Open \/ M_Read \/ M_Print \/ M_Close \/ M_Remove

SlaveStep(s) == S_Write(s) \/ S_Killed(s) \/ S_Close(s) \/ S_Remove(s)

F_Next == MasterStep \/ \E s \in Slaves : S_Open(s) \/ SlaveStep(s)

(* Whoever has been started runs; nobody has to start a slave.              *)
F_Spec == /\ F_Init /\ [][F_Next]_F_vars
          /\ WF_F_vars(MasterStep)
          /\ \A s \in Slaves : WF_F_vars(SlaveStep(s))

-----------------------------------------------------------------------------
(* Properties                                                               *)

(* What the master has read, printed or about to be, with the leftovers it  *)
(* prints again.                                                            *)
Read == F_shown \o IF F_master = "print" THEN SubSeq(F_buf, 1, F_got) ELSE <<>>

(* All that slaves write is read in the order in which it was written, also *)
(* where lines of two slaves meet in one read or one line in two: what was  *)
(* read is the beginning of what was written, each piece for the first time *)
(* after the one before it, and what is left is in the FIFO.  Only who      *)
(* opens the FIFO after the master has seen its end writes for nobody.      *)
NothingLost ==
    \E n \in 0..Len(F_written) :
        /\ ToSet(Read) \ {F_NoPiece} = {F_written[k] : k \in 1..n}
        /\ \A i \in DOMAIN Read, k \in 2..n :
              Read[i] = F_written[k] => \E h \in 1..(i - 1) : Read[h] = F_written[k - 1]
        /\ Reading => F_content = SubSeq(F_written, n + 1, Len(F_written))
        /\ \A k \in (n + 1)..Len(F_written) : Reading \/ F_written[k][1] \in F_late

(* The master ends when all slaves have, and every slave ends, although any *)
(* of them may find the name removed by another, be killed by SIGPIPE, or   *)
(* wait in open for a master that has already closed the FIFO.              *)
EveryoneEnds ==
    /\ (\E s \in Slaves : F_slave[s] \notin {"begin", "failed"}) ~> F_master = "done"
    /\ \A s \in Slaves :
          F_slave[s] # "begin"
              ~> \/ F_slave[s] \in {"done", "failed", "killed"}
                 \/ F_slave[s] = "opening" /\ s \in F_late
=============================================================================
