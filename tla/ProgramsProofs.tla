--------------------------- MODULE ProgramsProofs ---------------------------
(****************************************************************************)
(* What holds for the programs that are not servers or rooms of threads,    *)
(* for all values of their constants: no signal of cw04/zad3 is invented    *)
(* and no real-time signal lost; the interpreters of cw03 take each command *)
(* for itself; the sort of cw02/zad1 is stable and loses no record; the     *)
(* FIFO of cw05/zad2 loses no piece; the runner of cw05/zad1 runs every     *)
(* line once and passes on what the programs of a line write; the arrays of *)
(* cw01 hold the strings put into them, find the nearest ones, and their    *)
(* drivers know their length; the searches of cw02/zad2 and cw03/zad1 list  *)
(* every match.                                                             *)
(****************************************************************************)
EXTENDS SignalCounting, Interpreter, RecordSort, Fifo, Pipeline,
        ArrayDriver, DirectorySearch,
        SequenceTheorems, FiniteSetTheorems, WellFoundedInduction, TLAPS

-----------------------------------------------------------------------------
(* Signals that are counted (cw04/zad3).                                    *)

(* The signal, the handlers and the end of type 2 share a single token.     *)
OneUnderWay ==
    type = 2 /\ L > 0 =>
        /\ One(at = "send") + to_child + One(child # "pausing") + to_parent
             + One(handler # "none") + One(sentToChild = L) = 1
        /\ sentToChild <= L
        /\ recByPar = sentToChild + One(handler = "resend")
        /\ recByChild = One(child = "echo") + to_parent + One(handler = "count")
                        + recByPar

(* The child is only told to end after the last echo.                       *)
EndAfterAll ==
    type = 2 /\ L > 0 =>
        /\ at = "pause" => sentToChild = L
        /\ end_to_child \/ child_ended => at = "pause" \/ parent = "interrupted"
        /\ parent \in {"reporting", "reported"} => child_ended

IInv ==
    /\ SignalsTypeOK
    /\ handler = "resend" => type = 2
    /\ SignalsAccounted
    /\ OneUnderWay
    /\ EndAfterAll

(* The inductive invariant holds at the beginning.                          *)
LEMMA InitIInv == Init => IInv
<1> SUFFICES ASSUME Init
             PROVE  IInv
  OBVIOUS
<1>1. SignalsTypeOK
  BY DEF Init, SignalsTypeOK
<1>2. SignalsAccounted
  BY DEF Init, SignalsAccounted, One, Arrived, Echoed, Heard
<1>3. OneUnderWay
  BY SignalConstants DEF Init, OneUnderWay, One
<1>4. EndAfterAll
  BY DEF Init, EndAfterAll
<1> QED
  BY <1>1, <1>2, <1>3, <1>4 DEF Init, IInv

(* What one more signal is worth.                                           *)
LEMMA OneMoreBound ==
  ASSUME NEW n \in Nat
  PROVE  /\ OneMore(n) \in Nat /\ OneMore(n) <= n + 1
         /\ n = 0 \/ type = 3 => OneMore(n) = n + 1
  BY DEF OneMore

(* The state keeps its shape; only a ping-pong child sends back.            *)
LEMMA StepTypeOK == IInv /\ [Next]_vars => SignalsTypeOK' /\ (handler = "resend" => type = 2)'
<1> SUFFICES ASSUME IInv, [Next]_vars
             PROVE  SignalsTypeOK' /\ (handler = "resend" => type = 2)'
  OBVIOUS
<1> USE DEF IInv, SignalsTypeOK, InMain
<1>0. OneMore(to_child) \in Nat /\ OneMore(to_parent) \in Nat
  BY OneMoreBound
<1>1. CASE P_Send
  BY <1>0, <1>1 DEF P_Send, args, here, there, wires, counts
<1>2. CASE P_SendFirst
  BY <1>0, <1>2 DEF P_SendFirst, args, here, there, wires, counts
<1>3. CASE P_SendEnd
  BY <1>0, <1>3 DEF P_SendEnd, args, here, there, wires, counts
<1>4. CASE P_Catch
  BY <1>0, <1>4 DEF P_Catch, args, here, there, wires, counts
<1>5. CASE P_Count
  BY <1>0, <1>5 DEF P_Count, args, here, there, wires, counts
<1>6. CASE P_Resend
  BY <1>0, <1>6 DEF P_Resend, args, here, there, wires, counts
<1>7. CASE P_CatchChild
  BY <1>0, <1>7 DEF P_CatchChild, args, here, there, wires, counts
<1>8. CASE P_Report
  BY <1>0, <1>8 DEF P_Report, args, here, there, wires, counts
<1>9. CASE C_Catch
  BY <1>0, <1>9 DEF C_Catch, args, here, there, wires, counts
<1>10. CASE C_Count
  BY <1>0, <1>10 DEF C_Count, args, here, there, wires, counts
<1>11. CASE C_Echo
  BY <1>0, <1>11 DEF C_Echo, args, here, there, wires, counts
<1>12. CASE C_End
  BY <1>0, <1>12 DEF C_End, args, here, there, wires, counts
<1>13. CASE P_Interrupt
  BY <1>0, <1>13 DEF P_Interrupt, args, here, there, wires, counts
<1>14. CASE UNCHANGED vars
  BY <1>14 DEF vars, args, here, there, wires, counts
<1> QED
  BY <1>1, <1>2, <1>3, <1>4, <1>5, <1>6, <1>7, <1>8, <1>9, <1>10, <1>11, <1>12, <1>13,
     <1>14 DEF Next, Parent, Child

(* No step invents or loses a signal.                                       *)
LEMMA StepAccounted == IInv /\ [Next]_vars => SignalsAccounted'
<1> SUFFICES ASSUME IInv, [Next]_vars, type' # 2
             PROVE  SignalsAccounted'
  BY DEF SignalsAccounted
<1> USE DEF IInv, SignalsTypeOK, SignalsAccounted, Arrived, Echoed, Heard, One
<1>a. type # 2 /\ type' = type /\ handler # "resend"
  BY DEF Next, Parent, Child, P_Send, P_SendFirst, P_SendEnd, P_Catch, P_Count, P_Resend,
     P_CatchChild, P_Report, P_Interrupt, C_Catch, C_Count, C_Echo, C_End, vars, args
<1>b. /\ OneMore(to_child) \in Nat /\ OneMore(to_child) <= to_child + 1
      /\ OneMore(to_parent) \in Nat /\ OneMore(to_parent) <= to_parent + 1
      /\ type = 3 => /\ OneMore(to_child) = to_child + 1
                     /\ OneMore(to_parent) = to_parent + 1
  BY OneMoreBound
<1>1. CASE P_Send
  BY <1>1, <1>a, <1>b DEF P_Send, here, there, args
<1>2. CASE P_SendFirst
  BY <1>2, <1>a DEF P_SendFirst
<1>3. CASE P_SendEnd
  BY <1>3, <1>a DEF P_SendEnd, there, counts
<1>4. CASE P_Catch
  BY <1>4, <1>a DEF P_Catch, there, counts
<1>5. CASE P_Count
  BY <1>5, <1>a DEF P_Count, there, wires
<1>6. CASE P_Resend
  BY <1>6, <1>a DEF P_Resend
<1>7. CASE P_CatchChild \/ P_Report \/ P_Interrupt
  BY <1>7, <1>a DEF P_CatchChild, P_Report, P_Interrupt, there, wires, counts
<1>8. CASE C_Catch
  BY <1>8, <1>a DEF C_Catch, here, counts
<1>9. CASE C_Count
  BY <1>9, <1>a DEF C_Count, here, wires
<1>10. CASE C_Echo
  BY <1>10, <1>a, <1>b DEF C_Echo, here, counts
<1>11. CASE C_End
  BY <1>11, <1>a DEF C_End, here, counts
<1>12. CASE UNCHANGED vars
  BY <1>12, <1>a DEF vars, here, there, wires, counts
<1> QED
  BY <1>1, <1>2, <1>3, <1>4, <1>5, <1>6, <1>7, <1>8, <1>9, <1>10, <1>11, <1>12
     DEF Next, Parent, Child

(* The token of type 2 goes from one place to the next.                     *)
LEMMA StepPingPong == IInv /\ [Next]_vars => OneUnderWay' /\ EndAfterAll'
<1> SUFFICES ASSUME IInv, [Next]_vars, type' = 2, L' > 0
             PROVE  OneUnderWay' /\ EndAfterAll'
  BY DEF OneUnderWay, EndAfterAll
<1> USE DEF IInv, SignalsTypeOK, OneUnderWay, EndAfterAll, One
<1>a. type = 2 /\ L > 0 /\ L' = L /\ L \in Nat
  BY SignalConstants DEF Next, Parent, Child, P_Send, P_SendFirst, P_SendEnd, P_Catch,
     P_Count, P_Resend, P_CatchChild, P_Report, P_Interrupt, C_Catch, C_Count, C_Echo, C_End,
     vars, args
<1>b. /\ to_child = 0 => OneMore(to_child) = 1
      /\ to_parent = 0 => OneMore(to_parent) = 1
  BY OneMoreBound
<1>1. CASE P_Send
  BY <1>1, <1>a DEF P_Send
<1>2. CASE P_SendFirst
  BY <1>2, <1>a, <1>b DEF P_SendFirst, InMain, there, counts
<1>3. CASE P_SendEnd
  BY <1>3, <1>a DEF P_SendEnd, InMain, there, counts
<1>4. CASE P_Catch
  BY <1>4, <1>a DEF P_Catch, there, counts
<1>5. CASE P_Count
  BY <1>5, <1>a DEF P_Count, there, wires
<1>6. CASE P_Resend
  BY <1>6, <1>a, <1>b DEF P_Resend, there
<1>7. CASE P_CatchChild \/ P_Report \/ P_Interrupt
  BY <1>7, <1>a DEF P_CatchChild, P_Report, P_Interrupt, there, wires, counts
<1>8. CASE C_Catch
  BY <1>8, <1>a DEF C_Catch, here, counts
<1>9. CASE C_Count
  BY <1>9, <1>a DEF C_Count, here, wires
<1>10. CASE C_Echo
  BY <1>10, <1>a, <1>b DEF C_Echo, here, counts
<1>11. CASE C_End
  BY <1>11, <1>a DEF C_End, here, counts
<1>12. CASE UNCHANGED vars
  BY <1>12, <1>a DEF vars, here, there, wires, counts
<1> QED
  BY <1>1, <1>2, <1>3, <1>4, <1>5, <1>6, <1>7, <1>8, <1>9, <1>10, <1>11, <1>12
     DEF Next, Parent, Child

(* The inductive invariant holds in every reachable state.                  *)
LEMMA SpecIInv == Spec => []IInv
<1>1. IInv /\ [Next]_vars => IInv'
  BY StepTypeOK, StepAccounted, StepPingPong DEF IInv
<1> QED
  BY <1>1, InitIInv, PTL DEF Spec

(* For every L: signals sent at once are never invented, and real-time      *)
(* signals never lost, until the end finds them.                            *)
THEOREM Accounted == Spec => []SignalsAccounted
<1>1. IInv => SignalsAccounted
  BY DEF IInv
<1> QED
  BY <1>1, SpecIInv, PTL

(* For every L > 0: the report of a run of type 2 is exact.                 *)
THEOREM PingPongExact == Spec => []PingPongReportsAll
<1>1. IInv => PingPongReportsAll
  <2> SUFFICES ASSUME IInv, type = 2, L > 0, parent = "reported"
               PROVE  sentToChild = L /\ recByChild = L /\ recByPar = L
    BY DEF PingPongReportsAll
  <2>1. sentToChild = L /\ to_parent = 0 /\ child = "pausing" /\ handler = "none"
    BY SignalConstants DEF IInv, SignalsTypeOK, OneUnderWay, EndAfterAll, One
  <2> QED
    BY <2>1 DEF IInv, SignalsTypeOK, OneUnderWay, One
<1> QED
  BY <1>1, SpecIInv, PTL

-----------------------------------------------------------------------------
(* The interpreters of cw03.                                                *)

I_Command == [kind : Kinds, cpu : Nat, memory : Nat]

I_TypeOK ==
    /\ I_version \in {"zad2", "zad3a"} /\ I_script \in Seq(I_Command) /\ I_memory \in Nat
    /\ I_pos \in 0..Len(I_script)
    /\ I_at \in {"getline", "vfork", "suspended", "wait", "free", "done", "stopped", "aborted"}
    /\ I_start \in Nat /\ I_used \in Nat
    /\ I_child \in {"none", "exec", "running", "zombie"} /\ I_status \in Int
    /\ I_reports \in Seq(Int)

(* Between getline and waitpid there is one command and at most one child,  *)
(* and start is what all children before it have used.                      *)
Current ==
    /\ I_at \in {"vfork", "suspended", "wait"} => I_pos > 0 /\ I_start = I_used
    /\ I_at = "suspended" <=> I_child = "exec"
    /\ I_child \in {"running", "zombie"} => I_at = "wait"
    /\ I_at \in {"free", "stopped"} => I_pos > 0

(* All commands waited for have ended well, but the one that stopped it.    *)
Waited == IF I_at \in {"vfork", "suspended", "wait", "stopped"} THEN I_pos - 1 ELSE I_pos

EndedWell ==
    /\ \A n \in 1..Waited : EndsWell(I_script[n])
    /\ I_child = "zombie" => (I_status = 0 <=> EndsWell(Command))
    /\ I_at = "stopped" => ~ EndsWell(Command)

(* Every command waited for has its report, which is its own usage.         *)
Reported ==
    /\ Limited => Len(I_reports) = IF I_at \in {"vfork", "suspended", "wait"}
                                   THEN I_pos - 1 ELSE I_pos
    /\ ~ Limited => I_reports = <<>>
    /\ \A n \in 1..Len(I_reports) : I_reports[n] = Spent(I_script[n])

I_Inv == I_TypeOK /\ Current /\ EndedWell /\ Reported

(* In the beginning no command has been run.                                *)
LEMMA InitInterpreter == I_Init => I_Inv
  <1> SUFFICES ASSUME I_Init PROVE I_Inv
    OBVIOUS
  <1>1. I_TypeOK
    <2>1. I_script \in Seq(I_Command) /\ I_memory \in Nat
      BY InterpreterConstants DEF I_Init, I_Command
    <2> QED
      BY <2>1 DEF I_Init, I_TypeOK
  <1>2. Current /\ EndedWell /\ Reported
    BY DEF I_Init, Current, EndedWell, Reported, Waited, Command
  <1> QED
    BY <1>1, <1>2 DEF I_Inv

(* What a command consumes is a time.                                       *)
LEMMA SpentIsTime == ASSUME I_TypeOK, NEW c \in I_Command PROVE Spent(c) \in Nat
  BY InterpreterConstants DEF Spent, I_Command, I_TypeOK

(* The step that uses up a command: its report is the difference.           *)
LEMMA WaitKeeps == I_Inv /\ I_Wait => I_Inv'
  <1> SUFFICES ASSUME I_Inv, I_Wait PROVE I_Inv'
    OBVIOUS
  <1>0. /\ I_TypeOK /\ Current /\ EndedWell /\ Reported
        /\ I_at = "wait" /\ I_child = "zombie" /\ I_pos > 0 /\ I_start = I_used
    BY DEF I_Inv, I_Wait, Current
  <1>1. Command \in I_Command /\ Command = I_script[I_pos]
    BY <1>0 DEF I_TypeOK, Command
  <1>2. Spent(Command) \in Nat /\ I_used' - I_start = Spent(Command)
    BY <1>0, <1>1, SpentIsTime DEF I_Wait, I_TypeOK
  <1>3. /\ UNCHANGED <<I_version, I_script, I_memory, I_pos, I_start, I_status>>
        /\ \A c : Spent(c)' = Spent(c) /\ EndsWell(c)' = EndsWell(c)
        /\ Limited' = Limited
    BY DEF I_Wait, I_args, I_line, Spent, EndsWell, Limited, WithinMemory
  <1>4. I_at' = IF I_status # 0 THEN "stopped" ELSE IF Limited THEN "getline" ELSE "free"
    BY DEF I_Wait
  <1>5. I_reports' = IF Limited THEN Append(I_reports, Spent(Command)) ELSE I_reports
    BY <1>2 DEF I_Wait
  <1>6. I_TypeOK'
    BY <1>0, <1>2, <1>3, <1>4, <1>5 DEF I_TypeOK, I_Wait, Limited
  <1>7. Current'
    BY <1>0, <1>3, <1>4 DEF Current, I_Wait
  <1>8. EndedWell'
    <2>1. I_status = 0 <=> EndsWell(Command)
      BY <1>0 DEF EndedWell
    <2>2. \A n \in 1..(I_pos - 1) : EndsWell(I_script[n])
      BY <1>0 DEF EndedWell, Waited
    <2>3. Command' = Command /\ I_child' = "none"
      BY <1>3 DEF Command, I_Wait
    <2>4. \A n \in 1..Waited' : EndsWell(I_script[n])
      BY <1>0, <1>1, <1>3, <1>4, <2>1, <2>2 DEF Waited, I_TypeOK
    <2> QED
      BY <1>3, <1>4, <2>1, <2>3, <2>4 DEF EndedWell
  <1>9. Reported'
    <2>1. CASE ~ Limited
      BY <1>0, <1>3, <1>5, <2>1 DEF Reported
    <2>2. CASE Limited
      <3>1. Len(I_reports) = I_pos - 1 /\ I_reports \in Seq(Int)
        BY <1>0, <2>2 DEF Reported, I_TypeOK
      <3>2. /\ Len(I_reports') = I_pos /\ I_reports'[I_pos] = Spent(I_script[I_pos])
            /\ \A n \in 1..(I_pos - 1) : I_reports'[n] = I_reports[n]
        BY <1>0, <1>1, <1>2, <1>5, <2>2, <3>1 DEF I_TypeOK
      <3>3. \A n \in 1..Len(I_reports') : I_reports'[n] = Spent(I_script[n])
        BY <1>0, <3>1, <3>2 DEF Reported, I_TypeOK
      <3> QED
        BY <1>3, <1>4, <2>2, <3>2, <3>3 DEF Reported
    <2> QED
      BY <2>1, <2>2
  <1> QED
    BY <1>6, <1>7, <1>8, <1>9 DEF I_Inv

(* Every step keeps the invariant.                                          *)
LEMMA NextInterpreter == I_Inv /\ [I_Next]_I_vars => I_Inv'
  <1> SUFFICES ASSUME I_Inv, [I_Next]_I_vars PROVE I_Inv'
    OBVIOUS
  <1> USE DEF I_Inv, I_args, I_line, I_kernel
  <1>1. CASE I_Wait
    BY <1>1, WaitKeeps
  <1>2. CASE I_GetLine \/ I_Eof \/ I_Vfork \/ I_Free
    <2>0. I_TypeOK /\ Current /\ EndedWell /\ Reported
      OBVIOUS
    <2> USE <1>2 DEF I_GetLine, I_Eof, I_Vfork, I_Free
    <2>1. I_TypeOK' /\ Current'
      BY <2>0 DEF I_TypeOK, Current
    <2>2. /\ Waited' = Waited /\ UNCHANGED <<I_script, I_version, I_memory, I_reports>>
          /\ I_at' # "stopped" /\ I_child' # "zombie"
      BY <2>0 DEF I_TypeOK, Current, Waited
    <2>3. EndedWell' /\ Reported'
      BY <2>0, <2>2 DEF EndedWell, Reported, EndsWell, Spent, Limited, WithinMemory, I_TypeOK
    <2> QED
      BY <2>1, <2>3
  <1>3. CASE I_Exec \/ I_ProgramEnds
    <2>0. I_TypeOK /\ Current /\ EndedWell /\ Reported
      OBVIOUS
    <2> USE <1>3 DEF I_Exec, I_ProgramEnds
    <2>1. I_TypeOK' /\ Current'
      BY <2>0 DEF I_TypeOK, Current
    <2>2. /\ Waited' = Waited /\ UNCHANGED <<I_script, I_version, I_memory, I_reports, I_pos>>
          /\ I_at' = "wait" /\ I_at \in {"suspended", "wait"}
      BY <2>0 DEF I_TypeOK, Current, Waited
    <2>3. EndedWell'
      BY <2>0, <2>2 DEF EndedWell, EndsWell, Limited, WithinMemory, Command
    <2>4. Reported'
      BY <2>0, <2>2 DEF Reported, Spent, Limited, WithinMemory
    <2> QED
      BY <2>1, <2>3, <2>4
  <1>4. CASE UNCHANGED I_vars
    BY <1>4 DEF I_vars, I_TypeOK, Current, EndedWell, Reported, Waited, Spent, EndsWell,
                Limited, WithinMemory, Command
  <1> QED
    BY <1>1, <1>2, <1>3, <1>4 DEF I_Next

(* For every script and every limit: each command that has been waited for  *)
(* is reported with its own usage and not with that of the ones before,     *)
(* those that ended well are the ones the script goes on after, and the     *)
(* limits are the ones that were asked for as long as they are below 2048   *)
(* megabytes.                                                               *)
THEOREM EachAlone == I_Spec => []EachOnItsOwn
  <1>1. I_Inv => EachOnItsOwn
    <2> SUFFICES ASSUME I_Inv PROVE EachOnItsOwn
      OBVIOUS
    <2>0. I_TypeOK /\ EndedWell /\ Reported /\ Current
      BY DEF I_Inv
    <2>1. I_reports = [n \in 1..Len(I_reports) |-> Spent(I_script[n])]
      BY <2>0 DEF I_TypeOK, Reported
    <2>2. ASSUME I_memory < 2048 \/ ~ Limited, NEW c \in I_Command
          PROVE  AsAsked(c) <=> EndsWell(c)
      <3>1. ASSUME I_memory < 2048 PROVE WithinMemory(c) <=> c.memory <= I_memory
        <4>1. I_memory % 4096 = I_memory
          BY <2>0, <3>1 DEF I_TypeOK
        <4> QED
          BY <2>0, <3>1, <4>1 DEF I_TypeOK, WithinMemory
      <3> QED
        BY <2>2, <3>1 DEF AsAsked, EndsWell
    <2>3. /\ \A n \in 1..(I_pos - 1) : I_script[n] \in I_Command /\ EndsWell(I_script[n])
          /\ I_at = "stopped" => Command \in I_Command /\ ~ EndsWell(Command)
      BY <2>0 DEF I_TypeOK, EndedWell, Waited, Current, Command
    <2> QED
      BY <2>1, <2>2, <2>3 DEF EachOnItsOwn
  <1> QED
    BY <1>1, InitInterpreter, NextInterpreter, PTL DEF I_Spec

-----------------------------------------------------------------------------
(* Sorting the records of a file (cw02/zad1).                               *)

(* The first m of n records are in order, and no other one has moved.       *)
R_SortedUpTo(n, f, p, m) ==
    /\ \A r, s \in 1..n : r < s /\ s <= m => R_Before(f, p, r, s)
    /\ \A r \in 1..n : IF r <= m THEN p[r] <= m ELSE p[r] = r

(* Record m + 1 has come down to q; the m others are in order, those behind *)
(* it are greater.                                                          *)
R_Moving(n, f, p, m, q) ==
    /\ m < n /\ q \in 1..(m + 1) /\ p[q] = m + 1
    /\ \A r, s \in 1..(m + 1) \ {q} : r < s => R_Before(f, p, r, s)
    /\ \A s \in 1..(m + 1) : q < s => R_Records(f)[q][1] < R_Records(f)[s][1]
    /\ \A r \in 1..n :
          /\ r <= m + 1 /\ r # q => p[r] <= m
          /\ r > m + 1 => p[r] = r

R_TypeOK ==
    /\ R_original \in Seq(Nat) /\ Len(R_original) % SoR = 0
    /\ R_file \in Seq(Nat) /\ Len(R_file) = Len(R_original)
    /\ R_at \in {"for", "while", "if", "write", "write last", "end", "copy"}

(* The outer loop has done m records.                                       *)
R_AtFor(m, p) ==
    /\ R_i = m * SoR /\ R_Rearranged(R_file, R_original, p)
    /\ R_SortedUpTo(R_NoR, R_file, p, m)

(* The inner loop looks at record q and at the one before it.               *)
R_AtWhile(m, q, p) ==
    /\ R_i = m * SoR /\ q >= 2 /\ R_j = (q - 1) * SoR /\ R_pos = (q - 2) * SoR
    /\ R_a = R_Records(R_file)[q][1] /\ R_b = R_Records(R_file)[q - 1][1]
    /\ R_Rearranged(R_file, R_original, p) /\ R_Moving(R_NoR, R_file, p, m, q)
    /\ R_at = "if" /\ R_Wrong => q = 2

(* Between the writes the file would be right with B where the position is; *)
(* record m + 1 is before it.                                               *)
R_AtWrite(m, q, p) ==
    LET f == R_Put(R_file, R_pos, R_B)
    IN  /\ R_i = m * SoR /\ R_j = q * SoR /\ R_pos = q * SoR
        /\ R_B \in Seq(Nat) /\ Len(R_B) = SoR
        /\ R_Rearranged(f, R_original, p) /\ R_Moving(R_NoR, f, p, m, q)
        /\ R_a = R_Records(f)[q][1]
        /\ R_at = "write" => q >= 2
        /\ R_at = "write last" => q = 1

R_AtCopy ==
    /\ R_file = R_original /\ R_i \in Nat /\ R_i <= R_NoR
    /\ R_pos = R_i * SoR /\ R_to = SubSeq(R_original, 1, R_i * SoR)

R_Inv ==
    /\ R_TypeOK
    /\ R_at = "for" => \E m \in Nat \ {0}, p \in R_Orders : R_AtFor(m, p)
    /\ R_at \in {"while", "if"} =>
          \E m, q \in Nat \ {0}, p \in R_Orders : R_AtWhile(m, q, p)
    /\ R_at \in {"write", "write last"} =>
          \E m, q \in Nat \ {0}, p \in R_Orders : R_AtWrite(m, q, p)
    /\ R_at = "end" =>
          \E p \in R_Orders : /\ R_Rearranged(R_file, R_original, p)
                              /\ R_SortedUpTo(R_NoR, R_file, p, R_NoR)
    /\ R_at = "copy" => R_AtCopy

-----------------------------------------------------------------------------
(* Bytes and records.                                                       *)

(* Records lie one behind the other.                                        *)
LEMMA RecordPlaces ==
    /\ \A m \in Nat : m * SoR \in Nat /\ (m + 1) * SoR = m * SoR + SoR
    /\ \A m, n \in Nat : m < n => m * SoR + SoR <= n * SoR
  <1>1. \A s \in Nat \ {0}, r \in Nat : r * s \in Nat /\ (r + 1) * s = r * s + s
    OBVIOUS
  <1>2. \A s \in Nat \ {0}, r, q \in Nat : r < q => r * s + s <= q * s
    OBVIOUS
  <1> QED
    BY <1>1, <1>2, RecordConstants

(* A file without a rest is its records.                                    *)
LEMMA WholeRecords ==
    ASSUME NEW f, f \in Seq(Nat), Len(f) % SoR = 0
    PROVE  Len(f) \div SoR \in Nat /\ Len(f) = (Len(f) \div SoR) * SoR
  <1>1. \A s \in Nat \ {0}, l \in Nat : l % s = 0 => l \div s \in Nat /\ l = (l \div s) * s
    OBVIOUS
  <1> QED
    BY <1>1, RecordConstants

(* A function on an interval from 1 on is a sequence.                       *)
LEMMA FunctionIsSeq ==
    ASSUME NEW S, NEW l \in Nat, NEW g \in [1..l -> S]
    PROVE  g \in Seq(S) /\ Len(g) = l
  OBVIOUS

(* Every record is a sequence of SoR bytes of the file.                     *)
LEMMA RecordsAre ==
    ASSUME NEW n \in Nat, NEW f \in Seq(Nat), Len(f) = n * SoR
    PROVE  /\ R_Records(f) \in [1..n -> Seq(Nat)]
           /\ \A r \in 1..n :
                 /\ R_Records(f)[r] = R_Bytes(f, (r - 1) * SoR, SoR)
                 /\ Len(R_Records(f)[r]) = SoR
                 /\ R_Records(f)[r][1] \in Nat
                 /\ (r - 1) * SoR \in Nat /\ (r - 1) * SoR + SoR <= Len(f)
                 /\ \A k \in 1..SoR : R_Records(f)[r][k] = f[(r - 1) * SoR + k]
  <1>1. Len(f) \div SoR = n
    <2>1. \A s \in Nat \ {0}, l \in Nat : (l * s) \div s = l
      OBVIOUS
    <2> QED
      BY <2>1, RecordConstants
  <1>2. R_Records(f) = [r \in 1..n |-> SubSeq(f, (r - 1) * SoR + 1, (r - 1) * SoR + SoR)]
    BY <1>1 DEF R_Records, R_Record, R_Bytes
  <1>3. ASSUME NEW r \in 1..n
        PROVE  /\ R_Records(f)[r] \in Seq(Nat)
               /\ R_Records(f)[r] = R_Bytes(f, (r - 1) * SoR, SoR)
               /\ Len(R_Records(f)[r]) = SoR
               /\ R_Records(f)[r][1] \in Nat
               /\ (r - 1) * SoR \in Nat /\ (r - 1) * SoR + SoR <= Len(f)
               /\ \A k \in 1..SoR : R_Records(f)[r][k] = f[(r - 1) * SoR + k]
    <2> DEFINE b == (r - 1) * SoR
    <2>1. b \in Nat /\ b + SoR <= Len(f) /\ SoR \in Nat \ {0}
      BY RecordPlaces, RecordConstants, r - 1 \in Nat, r - 1 < n
    <2> HIDE DEF b
    <2>2. \A x, y \in Nat : x + y \in Nat /\ (x + y) - (x + 1) + 1 = y
      OBVIOUS
    <2>3. R_Records(f)[r] = SubSeq(f, b + 1, b + SoR)
      BY <1>2 DEF b
    <2>4. /\ SubSeq(f, b + 1, b + SoR) \in Seq(Nat)
          /\ Len(SubSeq(f, b + 1, b + SoR)) = SoR
          /\ \A k \in 1..SoR : SubSeq(f, b + 1, b + SoR)[k] = f[b + k]
      <3> DEFINE t == SubSeq(f, b + 1, b + SoR)
      <3>1. /\ t \in Seq(Nat)
            /\ Len(t) = IF b + 1 <= b + SoR THEN (b + SoR) - (b + 1) + 1 ELSE 0
            /\ \A k \in 1..((b + SoR) - (b + 1) + 1) : t[k] = f[(b + 1) + k - 1]
        BY <2>1, SubSeqProperties
      <3> HIDE DEF t
      <3>2. (b + SoR) - (b + 1) + 1 = SoR /\ b + 1 <= b + SoR
        BY <2>1
      <3>3. Len(t) = SoR /\ \A k \in 1..SoR : t[k] = f[(b + 1) + k - 1]
        BY <3>1, <3>2
      <3>4. \A k \in 1..SoR : (b + 1) + k - 1 = b + k
        BY <2>1
      <3>5. \A k \in 1..SoR : t[k] = f[b + k]
        BY <3>3, <3>4
      <3> QED
        BY <3>1, <3>3, <3>5 DEF t
    <2>5. SubSeq(f, b + 1, b + SoR)[1] \in Nat
      <3>1. PICK t \in Seq(Nat) : t = SubSeq(f, b + 1, b + SoR) /\ Len(t) = SoR
        BY <2>4
      <3>2. 1 \in 1..Len(t)
        BY <2>1, <3>1
      <3>3. t[1] \in Nat
        BY <3>2, ElementOfSeq
      <3> QED
        BY <3>1, <3>3, Zenon
    <2> QED
      BY <2>1, <2>3, <2>4, <2>5 DEF b, R_Bytes
  <1>4. R_Records(f) \in [1..n -> Seq(Nat)]
    BY <1>2, <1>3
  <1> QED
    BY <1>3, <1>4

(* Writing a record at its place changes that record and no other one.      *)
LEMMA PutRecord ==
    ASSUME NEW n \in Nat, NEW f \in Seq(Nat), Len(f) = n * SoR,
           NEW r \in 1..n, NEW s \in Seq(Nat), Len(s) = SoR
    PROVE  LET g == R_Put(f, (r - 1) * SoR, s)
           IN  /\ g \in Seq(Nat) /\ Len(g) = Len(f)
               /\ R_Records(g) = [R_Records(f) EXCEPT ![r] = s]
  <1> DEFINE b == (r - 1) * SoR
             g == R_Put(f, b, s)
  <1>1. SoR \in Nat \ {0} /\ b \in Nat /\ b + SoR <= Len(f)
    BY RecordsAre, RecordConstants
  <1>2. g = [k \in 1..Len(f) |-> IF b < k /\ k <= b + SoR THEN s[k - b] ELSE f[k]]
    BY <1>1 DEF R_Put
  <1>k. \A k \in 1..Len(f) : g[k] = IF b < k /\ k <= b + SoR THEN s[k - b] ELSE f[k]
    BY <1>2
  <1> HIDE DEF b, g
  <1>3. g \in Seq(Nat) /\ Len(g) = Len(f)
    <2>1. \A k \in 1..Len(f) : f[k] \in Nat
      BY ElementOfSeq
    <2>2. \A k \in 1..SoR : s[k] \in Nat
      BY ElementOfSeq
    <2>3. \A k \in 1..Len(f) : b < k /\ k <= b + SoR => k - b \in 1..SoR
      BY <1>1
    <2>4. g \in [1..Len(f) -> Nat]
      BY <1>2, <2>1, <2>2, <2>3
    <2>5. Len(f) \in Nat
      OBVIOUS
    <2> QED
      BY <2>4, <2>5, FunctionIsSeq
  <1>4. \A t \in 1..n : R_Records(g)[t] = IF t = r THEN s ELSE R_Records(f)[t]
    <2> TAKE t \in 1..n
    <2> DEFINE c == (t - 1) * SoR
               x == R_Records(g)[t]
               y == R_Records(f)[t]
    <2>1. /\ c \in Nat /\ c + SoR <= Len(f)
          /\ x \in Seq(Nat) /\ Len(x) = SoR /\ \A k \in 1..SoR : x[k] = g[c + k]
          /\ y \in Seq(Nat) /\ Len(y) = SoR /\ \A k \in 1..SoR : y[k] = f[c + k]
      <3>1. /\ c \in Nat /\ c + SoR <= Len(f)
            /\ y \in Seq(Nat) /\ Len(y) = SoR /\ \A k \in 1..SoR : y[k] = f[c + k]
        BY RecordsAre
      <3>2. g \in Seq(Nat) /\ Len(g) = n * SoR
        BY <1>3
      <3>3. x \in Seq(Nat) /\ Len(x) = SoR /\ \A k \in 1..SoR : x[k] = g[c + k]
        BY <3>2, RecordsAre
      <3> QED
        BY <3>1, <3>3
    <2>2. t < r => c + SoR <= b
      BY RecordPlaces, t - 1 \in Nat, r - 1 \in Nat, t < r => t - 1 < r - 1 DEF b
    <2>3. r < t => b + SoR <= c
      BY RecordPlaces, t - 1 \in Nat, r - 1 \in Nat, r < t => r - 1 < t - 1 DEF b
    <2>4. t = r => c = b
      BY DEF b
    <2> HIDE DEF c, x, y
    <2>5. ASSUME t = r
          PROVE  x = s
      <3>1. ASSUME NEW k \in 1..SoR
            PROVE  x[k] = s[k]
        <4>1. x[k] = g[b + k]
          BY <2>1, <2>4, <2>5
        <4>2. g[b + k] = s[k]
          <5> DEFINE w == b + k
          <5>1. w \in 1..Len(f) /\ b < w /\ w <= b + SoR /\ w - b = k
            BY <1>1
          <5> HIDE DEF w
          <5>2. g[w] = s[k]
            BY <1>k, <5>1
          <5> QED
            BY <5>2 DEF w
        <4> QED
          BY <4>1, <4>2
      <3> QED
        BY <2>1, <3>1, SeqEqual
    <2>6. ASSUME t # r
          PROVE  x = y
      <3>1. t < r \/ r < t
        BY <2>6
      <3>2. ASSUME NEW k \in 1..SoR
            PROVE  x[k] = y[k]
        <4>1. c + k \in 1..Len(f) /\ ~ (b < c + k /\ c + k <= b + SoR)
          BY <1>1, <2>1, <2>2, <2>3, <3>1
        <4>2. x[k] = g[c + k] /\ y[k] = f[c + k]
          BY <2>1
        <4>3. g[c + k] = f[c + k]
          BY <1>k, <4>1
        <4> QED
          BY <4>2, <4>3
      <3> QED
        BY <2>1, <3>2, SeqEqual
    <2> QED
      BY <2>5, <2>6 DEF x, y
  <1>5. R_Records(g) = [R_Records(f) EXCEPT ![r] = s]
    <2>1. R_Records(g) \in [1..n -> Seq(Nat)] /\ R_Records(f) \in [1..n -> Seq(Nat)]
      BY <1>3, RecordsAre
    <2> QED
      BY <1>4, <2>1
  <1> QED
    BY <1>3, <1>5 DEF g, b

-----------------------------------------------------------------------------
(* Moving a record down.                                                    *)

R_Swapped(h, q) == [h EXCEPT ![q - 1] = h[q], ![q] = h[q - 1]]

(* Two files with the same records are the same for R_Before.               *)
LEMMA SwapRearranges ==
    ASSUME NEW n \in Nat, NEW f, NEW g, NEW o, NEW p \in [1..n -> 1..n], NEW q \in 2..n,
           R_Records(f) \in [1..n -> Seq(Nat)],
           R_Rearranged(f, o, p), Len(g) = Len(f),
           R_Records(g) = R_Swapped(R_Records(f), q)
    PROVE  R_Swapped(p, q) \in [1..n -> 1..n] /\ R_Rearranged(g, o, R_Swapped(p, q))
  <1> DEFINE F == R_Records(f)
             G == R_Records(g)
             O == R_Records(o)
             w == R_Swapped(p, q)
  <1>1. q \in 1..n /\ q - 1 \in 1..n /\ q - 1 # q
    OBVIOUS
  <1>2. w \in [1..n -> 1..n]
    BY <1>1 DEF R_Swapped
  <1>3. \A r \in 1..n : w[r] = IF r = q THEN p[q - 1] ELSE IF r = q - 1 THEN p[q] ELSE p[r]
    BY <1>1 DEF R_Swapped
  <1>4. \A r \in 1..n : G[r] = IF r = q THEN F[q - 1] ELSE IF r = q - 1 THEN F[q] ELSE F[r]
    BY <1>1 DEF R_Swapped
  <1>5. \A r, s \in 1..n : p[r] = p[s] => r = s
    BY DEF R_Rearranged
  <1>6. \A r \in 1..n : F[r] = O[p[r]]
    BY DEF R_Rearranged
  <1>7. Len(g) = Len(o)
    BY DEF R_Rearranged
  <1> HIDE DEF F, G, O, w
  <1>8. \A r, s \in 1..n : w[r] = w[s] => r = s
    BY <1>1, <1>3, <1>5
  <1>9. \A r \in 1..n : G[r] = O[w[r]]
    BY <1>1, <1>3, <1>4, <1>6
  <1>10. R_Rearranged(g, o, w)
    BY <1>2, <1>7, <1>8, <1>9 DEF R_Rearranged, G, O
  <1> QED
    BY <1>2, <1>10 DEF w

(* The keys of the records are numbers.                                     *)
R_Keys(f, n) == \A r \in 1..n : R_Records(f)[r][1] \in Nat

(* The next record comes down from its own place.                           *)
LEMMA StartsMoving ==
    ASSUME NEW n \in Nat, NEW f, NEW p \in [1..n -> 1..n], NEW m \in Nat \ {0}, m < n,
           R_SortedUpTo(n, f, p, m)
    PROVE  R_Moving(n, f, p, m, m + 1)
  <1>1. /\ \A r, s \in 1..n : r < s /\ s <= m => R_Before(f, p, r, s)
        /\ \A r \in 1..n : IF r <= m THEN p[r] <= m ELSE p[r] = r
    BY DEF R_SortedUpTo
  <1>2. m + 1 \in 1..(m + 1) /\ m + 1 \in 1..n /\ ~ (m + 1 <= m)
    OBVIOUS
  <1>3. p[m + 1] = m + 1
    BY <1>1, <1>2
  <1>4. ASSUME NEW r \in 1..(m + 1) \ {m + 1}, NEW s \in 1..(m + 1) \ {m + 1}, r < s
        PROVE  R_Before(f, p, r, s)
    <2>1. r \in 1..n /\ s \in 1..n /\ s <= m
      OBVIOUS
    <2> QED
      BY <1>1, <1>4, <2>1
  <1>5. \A s \in 1..(m + 1) : ~ (m + 1 < s)
    OBVIOUS
  <1>6. ASSUME NEW r \in 1..n
        PROVE  (r <= m + 1 /\ r # m + 1 => p[r] <= m) /\ (r > m + 1 => p[r] = r)
    <2>1. (r <= m + 1 /\ r # m + 1 => r <= m) /\ (r > m + 1 => ~ (r <= m))
      OBVIOUS
    <2> QED
      BY <1>1, <2>1
  <1> QED
    BY <1>2, <1>3, <1>4, <1>5, <1>6 DEF R_Moving

(* It comes down by one while it is less than the record before it.         *)
LEMMA KeepsMoving ==
    ASSUME NEW n \in Nat, NEW f, NEW g, NEW p \in [1..n -> 1..n],
           NEW m \in Nat \ {0}, NEW q \in 2..n,
           R_Records(f) \in [1..n -> Seq(Nat)], R_Keys(f, n),
           R_Records(g) = R_Swapped(R_Records(f), q),
           R_Moving(n, f, p, m, q), R_Records(f)[q][1] < R_Records(f)[q - 1][1]
    PROVE  R_Moving(n, g, R_Swapped(p, q), m, q - 1)
  <1> DEFINE F == R_Records(f)
             G == R_Records(g)
             w == R_Swapped(p, q)
  <1>1. PICK u \in 1..n : u = q - 1
    BY q - 1 \in 1..n
  <1>2. \A r \in 1..n : w[r] = IF r = q THEN p[u] ELSE IF r = u THEN p[q] ELSE p[r]
    BY <1>1 DEF R_Swapped
  <1>3. \A r \in 1..n : G[r] = IF r = q THEN F[u] ELSE IF r = u THEN F[q] ELSE F[r]
    BY <1>1 DEF R_Swapped
  <1>4. \A r, s \in 1..(m + 1) \ {q} : r < s =>
           F[r][1] < F[s][1] \/ (F[r][1] = F[s][1] /\ p[r] < p[s])
    BY DEF R_Moving, R_Before
  <1>5. \A s \in 1..(m + 1) : q < s => F[q][1] < F[s][1]
    BY DEF R_Moving
  <1>6. \A r \in 1..n : (r <= m + 1 /\ r # q => p[r] <= m) /\ (r > m + 1 => p[r] = r)
    BY DEF R_Moving
  <1>7. F[q][1] < F[u][1]
    BY <1>1
  <1>8. m < n /\ q <= m + 1 /\ p[q] = m + 1 /\ q \in 1..n /\ q = u + 1 /\ m \in Nat
    BY <1>1 DEF R_Moving
  <1> HIDE DEF F, G, w
  <1>9. w[u] = m + 1 /\ u \in 1..(m + 1)
    BY <1>2, <1>8
  <1>10. ASSUME NEW r \in 1..n, NEW s \in 1..n, r # u, s # u, r < s, s <= m + 1
         PROVE  G[r][1] < G[s][1] \/ (G[r][1] = G[s][1] /\ w[r] < w[s])
    <2>1. PICK x \in 1..n : x = IF r = q THEN u ELSE r
      OBVIOUS
    <2>2. PICK y \in 1..n : y = IF s = q THEN u ELSE s
      OBVIOUS
    <2>3. x # q /\ y # q /\ x < y /\ y <= m + 1 /\ x <= m + 1
      <3>1. u < q /\ q <= m + 1
        BY <1>8
      <3>2. CASE r = q
        <4>1. x = u /\ y = s
          BY <1>8, <1>10, <2>1, <2>2, <3>2
        <4> QED
          BY <1>8, <1>10, <3>1, <3>2, <4>1
      <3>3. CASE s = q
        <4>1. x = r /\ y = u /\ r < u
          BY <1>8, <1>10, <2>1, <2>2, <3>3
        <4> QED
          BY <1>8, <1>10, <3>1, <3>3, <4>1
      <3>4. CASE r # q /\ s # q
        <4>1. x = r /\ y = s
          BY <2>1, <2>2, <3>4, Zenon
        <4> QED
          BY <1>8, <1>10, <3>4, <4>1
      <3> QED
        BY <3>2, <3>3, <3>4
    <2>4. x \in 1..(m + 1) \ {q} /\ y \in 1..(m + 1) \ {q}
      BY <2>3, <1>8
    <2>5. G[r] = F[x] /\ w[r] = p[x]
      BY <1>2, <1>3, <1>10, <2>1
    <2>6. G[s] = F[y] /\ w[s] = p[y]
      BY <1>2, <1>3, <1>10, <2>2
    <2>7. F[x][1] < F[y][1] \/ (F[x][1] = F[y][1] /\ p[x] < p[y])
      BY <1>4, <2>3, <2>4
    <2> QED
      BY <2>5, <2>6, <2>7
  <1>11. ASSUME NEW s \in 1..n, u < s, s <= m + 1
         PROVE  G[u][1] < G[s][1]
    <2>1. G[u] = F[q]
      BY <1>3, <1>8
    <2>2. CASE s = q
      BY <1>3, <1>7, <2>1, <2>2
    <2>3. CASE s # q
      <3>1. q < s /\ s \in 1..(m + 1) /\ s # u
        BY <1>8, <1>11, <2>3
      <3> QED
        BY <1>3, <1>5, <2>1, <2>3, <3>1
    <2> QED
      BY <2>2, <2>3
  <1>12. ASSUME NEW r \in 1..n
         PROVE  (r <= m + 1 /\ r # u => w[r] <= m) /\ (r > m + 1 => w[r] = r)
    <2>1. CASE r = q
      <3>1. w[q] = p[u]
        BY <1>2, <1>8
      <3>2. u <= m + 1 /\ u # q
        BY <1>8
      <3> QED
        BY <1>6, <1>8, <2>1, <3>1, <3>2
    <2>2. CASE r = u
      BY <1>8, <2>2
    <2>3. CASE r # q /\ r # u
      BY <1>2, <1>6, <2>3
    <2> QED
      BY <2>1, <2>2, <2>3
  <1>13. \A r \in 1..(m + 1) : r \in 1..n /\ r <= m + 1
    BY <1>8
  <1>14. R_Moving(n, g, w, m, u)
    BY <1>8, <1>9, <1>10, <1>11, <1>12, <1>13 DEF R_Moving, R_Before, G
  <1> QED
    BY <1>1, <1>14 DEF w

(* The order of the keys behind StopsMoving.                                *)
LEMMA InPlace ==
    ASSUME NEW n \in Nat, NEW p \in [1..n -> 1..n], NEW key \in [1..n -> Nat],
           NEW m \in Nat, NEW q \in 1..n, m < n, q <= m + 1, p[q] = m + 1
    PROVE  (/\ \A r, s \in 1..n : r # q /\ s # q /\ s <= m + 1 /\ r < s =>
                  key[r] < key[s] \/ (key[r] = key[s] /\ p[r] < p[s])
            /\ \A s \in 1..n : q < s /\ s <= m + 1 => key[q] < key[s]
            /\ \A r \in 1..n : r <= m + 1 /\ r # q => p[r] <= m
            /\ \A u \in 1..n : u + 1 = q => key[u] <= key[q])
           => \A r, s \in 1..n : r < s /\ s <= m + 1 =>
                  key[r] < key[s] \/ (key[r] = key[s] /\ p[r] < p[s])
  <1>1. SUFFICES
          ASSUME \A r, s \in 1..n : r # q /\ s # q /\ s <= m + 1 /\ r < s =>
                     key[r] < key[s] \/ (key[r] = key[s] /\ p[r] < p[s]),
                 \A s \in 1..n : q < s /\ s <= m + 1 => key[q] < key[s],
                 \A r \in 1..n : r <= m + 1 /\ r # q => p[r] <= m,
                 \A u \in 1..n : u + 1 = q => key[u] <= key[q]
          PROVE  \A r, s \in 1..n : r < s /\ s <= m + 1 =>
                     key[r] < key[s] \/ (key[r] = key[s] /\ p[r] < p[s])
    OBVIOUS
  <1>2. SUFFICES ASSUME NEW r \in 1..n, NEW s \in 1..n, r < s, s <= m + 1
                 PROVE  key[r] < key[s] \/ (key[r] = key[s] /\ p[r] < p[s])
    OBVIOUS
  <1>3. CASE s = q
    <2>1. PICK u \in 1..n : u + 1 = q
      <3>1. q - 1 \in 1..n /\ (q - 1) + 1 = q
        BY <1>2, <1>3
      <3> QED
        BY <3>1
    <2>2. r <= u /\ u < q /\ u <= m + 1 /\ r <= m + 1 /\ r # q
      BY <1>2, <1>3, <2>1
    <2>3. key[r] \in Nat /\ key[u] \in Nat /\ key[q] \in Nat
      OBVIOUS
    <2>4. p[r] \in 1..n /\ p[r] <= m
      BY <1>1, <2>2
    <2>5. key[r] <= key[u]
      <3>1. r # u => key[r] < key[u] \/ (key[r] = key[u] /\ p[r] < p[u])
        BY <1>1, <2>2
      <3>2. key[r] < key[u] \/ key[r] = key[u]
        BY <3>1, Zenon
      <3>3. \A a, b \in Nat : a < b \/ a = b => a <= b
        OBVIOUS
      <3> QED
        BY <2>3, <3>2, <3>3, Zenon
    <2>6. key[u] <= key[q]
      BY <1>1, <2>1
    <2>7. p[r] < p[q]
      BY <2>4
    <2>8. key[r] <= key[q]
      BY <2>3, <2>5, <2>6
    <2>9. key[r] < key[q] \/ key[r] = key[q]
      BY <2>3, <2>8
    <2> QED
      BY <1>3, <2>7, <2>9
  <1>4. CASE r = q
    BY <1>1, <1>2, <1>4
  <1>5. CASE r # q /\ s # q
    BY <1>1, <1>2, <1>5
  <1> QED
    BY <1>3, <1>4, <1>5

(* Where it is not less than the one before it, it is in its place.         *)
LEMMA StopsMoving ==
    ASSUME NEW n \in Nat, NEW f, NEW p \in [1..n -> 1..n],
           NEW m \in Nat \ {0}, NEW q \in 1..n, R_Keys(f, n),
           R_Moving(n, f, p, m, q),
           q > 1 => R_Records(f)[q - 1][1] <= R_Records(f)[q][1]
    PROVE  R_SortedUpTo(n, f, p, m + 1)
  <1> DEFINE F == R_Records(f)
             key == [r \in 1..n |-> F[r][1]]
  <1>1. m < n /\ q <= m + 1 /\ p[q] = m + 1 /\ m \in Nat
    BY DEF R_Moving
  <1>2. \A r, s \in 1..(m + 1) \ {q} : r < s =>
           F[r][1] < F[s][1] \/ (F[r][1] = F[s][1] /\ p[r] < p[s])
    BY DEF R_Moving, R_Before
  <1>3. \A s \in 1..(m + 1) : q < s => F[q][1] < F[s][1]
    BY DEF R_Moving
  <1>4. \A r \in 1..n : (r <= m + 1 /\ r # q => p[r] <= m) /\ (r > m + 1 => p[r] = r)
    BY DEF R_Moving
  <1>5. \A u \in 1..n : u + 1 = q => F[u][1] <= F[q][1]
    <2> SUFFICES ASSUME NEW u \in 1..n, u + 1 = q
                 PROVE  F[u][1] <= F[q][1]
      OBVIOUS
    <2>1. q > 1 /\ u = q - 1
      OBVIOUS
    <2> QED
      BY <2>1
  <1>6. key \in [1..n -> Nat] /\ \A r \in 1..n : key[r] = F[r][1]
    BY DEF R_Keys
  <1> HIDE DEF F, key
  <1>7. /\ \A r, s \in 1..n : r # q /\ s # q /\ s <= m + 1 /\ r < s =>
               key[r] < key[s] \/ (key[r] = key[s] /\ p[r] < p[s])
        /\ \A s \in 1..n : q < s /\ s <= m + 1 => key[q] < key[s]
        /\ \A u \in 1..n : u + 1 = q => key[u] <= key[q]
    <2>1. \A r \in 1..n : r <= m + 1 => r \in 1..(m + 1)
      OBVIOUS
    <2>2. ASSUME NEW r \in 1..n, NEW s \in 1..n, r # q, s # q, s <= m + 1, r < s
          PROVE  key[r] < key[s] \/ (key[r] = key[s] /\ p[r] < p[s])
      <3>1. r \in 1..(m + 1) \ {q} /\ s \in 1..(m + 1) \ {q}
        BY <2>2
      <3> QED
        BY <1>2, <1>6, <2>2, <3>1
    <2> QED
      BY <1>3, <1>5, <1>6, <2>1, <2>2
  <1>8. \A r, s \in 1..n : r < s /\ s <= m + 1 =>
           key[r] < key[s] \/ (key[r] = key[s] /\ p[r] < p[s])
    BY <1>1, <1>4, <1>6, <1>7, InPlace
  <1>9. \A r, s \in 1..n : r < s /\ s <= m + 1 => R_Before(f, p, r, s)
    BY <1>6, <1>8, Zenon DEF R_Before, F
  <1>10. \A r \in 1..n : IF r <= m + 1 THEN p[r] <= m + 1 ELSE p[r] = r
    <2> SUFFICES ASSUME NEW r \in 1..n
                 PROVE  IF r <= m + 1 THEN p[r] <= m + 1 ELSE p[r] = r
      OBVIOUS
    <2>1. p[r] \in 1..n /\ p[q] <= m + 1
      <3>1. p[r] \in 1..n
        BY Zenon
      <3>2. m + 1 <= m + 1
        BY <1>1
      <3> QED
        BY <1>1, <3>1, <3>2, Zenon
    <2>2. (r <= m + 1 /\ r # q => p[r] <= m) /\ (r > m + 1 => p[r] = r)
      BY <1>4
    <2>3. p[r] <= m => p[r] <= m + 1
      BY <1>1, <2>1
    <2>4. r <= m + 1 \/ r > m + 1
      BY <1>1
    <2> QED
      BY <2>1, <2>2, <2>3, <2>4, Zenon
  <1> QED
    BY <1>9, <1>10 DEF R_SortedUpTo

-----------------------------------------------------------------------------
(* The steps.                                                               *)

(* The keys of a file of n records.                                         *)
LEMMA KeysAre ==
    ASSUME NEW n \in Nat, NEW f \in Seq(Nat), Len(f) = n * SoR
    PROVE  /\ R_Records(f) \in [1..n -> Seq(Nat)] /\ R_Keys(f, n)
           /\ \A r \in 1..n : R_Records(f)[r][1] = f[(r - 1) * SoR + 1]
  <1>1. 1 \in 1..SoR
    BY RecordConstants
  <1> QED
    BY <1>1, RecordsAre DEF R_Keys

(* The file at every place is a whole number of records.                    *)
LEMMA SizesAre ==
    ASSUME R_TypeOK
    PROVE  /\ R_NoR \in Nat /\ Len(R_original) = R_NoR * SoR /\ Len(R_file) = R_NoR * SoR
           /\ R_original \in Seq(Nat) /\ R_file \in Seq(Nat)
  BY WholeRecords DEF R_TypeOK, R_NoR

(* A place in the file tells the record.                                    *)
LEMMA PlacesTell ==
    ASSUME NEW m \in Nat, NEW n \in Nat
    PROVE  m * SoR < n * SoR <=> m < n
  <1>1. m < n => m * SoR + SoR <= n * SoR
    BY RecordPlaces
  <1>2. n < m => n * SoR + SoR <= m * SoR
    BY RecordPlaces
  <1>3. m * SoR \in Nat /\ n * SoR \in Nat /\ SoR \in Nat \ {0}
    BY RecordPlaces, RecordConstants
  <1>4. m = n => m * SoR = n * SoR
    OBVIOUS
  <1>5. m < n \/ m = n \/ n < m
    OBVIOUS
  <1> QED
    BY <1>1, <1>2, <1>3, <1>4, <1>5

(* Writing two records in each other's place exchanges them.                *)
LEMMA RecordExchange ==
    ASSUME NEW n \in Nat, NEW f \in Seq(Nat), Len(f) = n * SoR, NEW q \in 2..n
    PROVE  LET A == R_Bytes(f, (q - 1) * SoR, SoR)
               B == R_Bytes(f, (q - 2) * SoR, SoR)
               h == R_Put(f, (q - 2) * SoR, A)
               g == R_Put(h, (q - 1) * SoR, B)
           IN  /\ B \in Seq(Nat) /\ Len(B) = SoR
               /\ h \in Seq(Nat) /\ Len(h) = Len(f)
               /\ g \in Seq(Nat) /\ Len(g) = Len(f)
               /\ R_Records(g) = R_Swapped(R_Records(f), q)
  <1> DEFINE A == R_Bytes(f, (q - 1) * SoR, SoR)
             B == R_Bytes(f, (q - 2) * SoR, SoR)
             h == R_Put(f, (q - 2) * SoR, A)
             g == R_Put(h, (q - 1) * SoR, B)
  <1>1. PICK u \in 1..n : u = q - 1
    BY q - 1 \in 1..n
  <1>2. q \in 1..n /\ u - 1 = q - 2 /\ u # q
    BY <1>1
  <1>3. A = R_Records(f)[q] /\ A \in Seq(Nat) /\ Len(A) = SoR
    <2>1. R_Records(f)[q] = R_Bytes(f, (q - 1) * SoR, SoR)
      BY <1>2, RecordsAre
    <2>2. R_Records(f)[q] \in Seq(Nat) /\ Len(R_Records(f)[q]) = SoR
      BY <1>2, RecordsAre
    <2> QED
      BY <2>1, <2>2
  <1>4. B = R_Records(f)[u] /\ B \in Seq(Nat) /\ Len(B) = SoR
    <2>1. R_Records(f)[u] = R_Bytes(f, (u - 1) * SoR, SoR)
      BY RecordsAre
    <2>2. R_Records(f)[u] \in Seq(Nat) /\ Len(R_Records(f)[u]) = SoR
      BY RecordsAre
    <2> QED
      BY <1>2, <2>1, <2>2
  <1>5. /\ h \in Seq(Nat) /\ Len(h) = Len(f)
        /\ R_Records(h) = [R_Records(f) EXCEPT ![u] = A]
    <2> HIDE DEF A
    <2>1. LET x == R_Put(f, (u - 1) * SoR, A)
          IN  /\ x \in Seq(Nat) /\ Len(x) = Len(f)
              /\ R_Records(x) = [R_Records(f) EXCEPT ![u] = A]
      BY <1>3, PutRecord
    <2> QED
      BY <1>2, <2>1
  <1>6. /\ g \in Seq(Nat) /\ Len(g) = Len(h)
        /\ R_Records(g) = [R_Records(h) EXCEPT ![q] = B]
    <2>1. Len(h) = n * SoR
      BY <1>5
    <2> HIDE DEF B, h
    <2>2. LET x == R_Put(h, (q - 1) * SoR, B)
          IN  /\ x \in Seq(Nat) /\ Len(x) = Len(h)
              /\ R_Records(x) = [R_Records(h) EXCEPT ![q] = B]
      <3>1. q \in 1..n /\ B \in Seq(Nat) /\ Len(B) = SoR /\ h \in Seq(Nat)
        BY <1>2, <1>4, <1>5
      <3> QED
        BY <2>1, <3>1, PutRecord
    <2> QED
      BY <2>2
  <1>7. R_Records(f) \in [1..n -> Seq(Nat)]
    BY RecordsAre
  <1>8. R_Records(g) = R_Swapped(R_Records(f), q)
    <2> DEFINE F == R_Records(f)
    <2>1. R_Records(g) = [[F EXCEPT ![u] = F[q]] EXCEPT ![q] = F[u]]
      BY <1>3, <1>4, <1>5, <1>6
    <2>2. R_Swapped(F, q) = [F EXCEPT ![u] = F[q], ![q] = F[u]]
      BY <1>1 DEF R_Swapped
    <2> QED
      BY <2>1, <2>2
  <1> QED
    BY <1>4, <1>5, <1>6, <1>8

(* The places of the neighbours of a record.                                *)
LEMMA Neighbours ==
    ASSUME NEW q \in Nat \ {0, 1}
    PROVE  /\ (q - 2) * SoR \in Nat
           /\ (q - 1) * SoR = (q - 2) * SoR + SoR
           /\ q * SoR = (q - 1) * SoR + SoR
           /\ (q - 1) * SoR - SoR = (q - 2) * SoR
           /\ (q - 2) * SoR + SoR = (q - 1) * SoR
  <1>1. PICK u \in Nat : u = q - 2
    BY q - 2 \in Nat
  <1>2. u + 1 = q - 1 /\ (u + 1) + 1 = q /\ u + 1 \in Nat
    BY <1>1
  <1>3. /\ u * SoR \in Nat /\ (u + 1) * SoR = u * SoR + SoR
        /\ ((u + 1) + 1) * SoR = (u + 1) * SoR + SoR
    BY <1>2, RecordPlaces
  <1>4. \A x, s \in Nat : (x + s) - s = x
    OBVIOUS
  <1>5. (u * SoR + SoR) - SoR = u * SoR
    BY <1>3, <1>4, RecordConstants
  <1> QED
    BY <1>1, <1>2, <1>3, <1>5

(* In the beginning no record has moved, and the first one is in order.     *)
LEMMA InitRInv == R_Init => R_Inv
  <1> SUFFICES ASSUME R_Init
               PROVE  R_Inv
    OBVIOUS
  <1>1. R_TypeOK
    BY RecordConstants DEF R_Init, R_TypeOK
  <1>2. R_NoR \in Nat
    BY <1>1, SizesAre
  <1>3. R_at = "for" => \E m \in Nat \ {0}, p \in R_Orders : R_AtFor(m, p)
    <2> SUFFICES ASSUME R_at = "for"
                 PROVE  \E m \in Nat \ {0}, p \in R_Orders : R_AtFor(m, p)
      OBVIOUS
    <2> DEFINE p == [r \in 1..R_NoR |-> r]
    <2>1. p \in R_Orders
      BY DEF R_Orders
    <2>2. R_i = 1 * SoR
      BY RecordConstants DEF R_Init
    <2>3. R_Rearranged(R_file, R_original, p)
      BY DEF R_Init, R_Rearranged
    <2>4. R_SortedUpTo(R_NoR, R_file, p, 1)
      BY <1>2 DEF R_SortedUpTo
    <2> QED
      BY <2>1, <2>2, <2>3, <2>4 DEF R_AtFor
  <1>4. R_at = "copy" => R_AtCopy
    <2> SUFFICES ASSUME R_at = "copy"
                 PROVE  R_AtCopy
      OBVIOUS
    <2>1. R_i = 0 /\ R_pos = 0 /\ 0 * SoR = 0
      BY RecordConstants DEF R_Init
    <2>2. SubSeq(R_original, 1, 0) = <<>>
      BY SubSeqEmpty
    <2> QED
      BY <1>2, <2>1, <2>2 DEF R_AtCopy, R_Init
  <1> QED
    BY <1>1, <1>3, <1>4 DEF R_Inv, R_Init

(* What no step changes.                                                    *)
LEMMA OriginalStays ==
    ASSUME R_original' = R_original
    PROVE  R_NoR' = R_NoR /\ R_Orders' = R_Orders
  BY DEF R_NoR, R_Orders

(* The outer loop takes the next record.                                    *)
LEMMA ForRInv == R_Inv /\ R_For => R_Inv'
  <1> SUFFICES ASSUME R_Inv, R_For
               PROVE  R_Inv'
    OBVIOUS
  <1>1. PICK m \in Nat \ {0}, p \in R_Orders : R_AtFor(m, p)
    BY DEF R_Inv, R_For
  <1>2. PICK q \in Nat \ {0, 1} : q = m + 1
    BY m + 1 \in Nat \ {0, 1}
  <1>3. R_TypeOK /\ R_TypeOK'
    BY DEF R_Inv, R_TypeOK, R_For
  <1>4. R_NoR \in Nat /\ Len(R_file) = R_NoR * SoR /\ R_file \in Seq(Nat)
    BY <1>3, SizesAre
  <1>5. m < R_NoR
    BY <1>1, <1>4, PlacesTell DEF R_For, R_AtFor
  <1>6. q \in 1..R_NoR /\ q - 1 \in 1..R_NoR /\ q - 1 = m /\ (q - 1) - 1 = q - 2
    BY <1>2, <1>4, <1>5
  <1>7. R_i = (q - 1) * SoR /\ R_i - SoR = (q - 2) * SoR
    BY <1>1, <1>2, <1>6, Neighbours DEF R_AtFor
  <1>8. /\ R_Records(R_file)[q][1] = R_file[(q - 1) * SoR + 1]
        /\ R_Records(R_file)[q - 1][1] = R_file[(q - 2) * SoR + 1]
    <2>1. \A r \in 1..R_NoR : R_Records(R_file)[r][1] = R_file[(r - 1) * SoR + 1]
      BY <1>4, KeysAre
    <2>2. R_Records(R_file)[q - 1][1] = R_file[((q - 1) - 1) * SoR + 1]
      BY <1>6, <2>1
    <2> QED
      BY <1>6, <2>1, <2>2
  <1>9. R_Moving(R_NoR, R_file, p, m, q)
    <2>1. R_SortedUpTo(R_NoR, R_file, p, m) /\ p \in [1..R_NoR -> 1..R_NoR]
      BY <1>1 DEF R_AtFor, R_Orders
    <2> QED
      BY <1>2, <1>4, <1>5, <2>1, StartsMoving
  <1>10. R_NoR' = R_NoR /\ R_Orders' = R_Orders
    BY OriginalStays DEF R_For
  <1>11. R_AtWhile(m, q, p)'
    <2>1. q >= 2 /\ R_Rearranged(R_file, R_original, p)
      BY <1>1 DEF R_AtFor
    <2>2. R_i' = m * SoR /\ R_j' = (q - 1) * SoR /\ R_pos' = (q - 2) * SoR
      BY <1>1, <1>7 DEF R_For, R_AtFor
    <2>3. R_a' = R_Records(R_file)[q][1] /\ R_b' = R_Records(R_file)[q - 1][1]
      BY <1>7, <1>8 DEF R_For
    <2>4. R_at' = "while" /\ R_file' = R_file /\ R_original' = R_original
      BY DEF R_For
    <2> QED
      BY <1>9, <1>10, <2>1, <2>2, <2>3, <2>4 DEF R_AtWhile
  <1> QED
    BY <1>3, <1>10, <1>11 DEF R_Inv, R_For

(* The outer loop is done when there is no next record.                     *)
LEMMA ForDoneRInv == R_Inv /\ R_ForDone => R_Inv'
  <1> SUFFICES ASSUME R_Inv, R_ForDone
               PROVE  R_Inv'
    OBVIOUS
  <1>1. PICK m \in Nat \ {0}, p \in R_Orders : R_AtFor(m, p)
    BY DEF R_Inv, R_ForDone
  <1>2. R_TypeOK /\ R_TypeOK'
    BY DEF R_Inv, R_TypeOK, R_ForDone
  <1>3. R_NoR \in Nat /\ R_NoR' = R_NoR /\ R_Orders' = R_Orders
    BY <1>2, SizesAre, OriginalStays DEF R_ForDone
  <1>4. R_NoR <= m
    <2>1. ~ (m * SoR < R_NoR * SoR)
      BY <1>1, <1>3, RecordPlaces DEF R_ForDone, R_AtFor
    <2> QED
      BY <1>3, <2>1, PlacesTell
  <1>5. R_SortedUpTo(R_NoR, R_file, p, R_NoR)
    <2>1. R_SortedUpTo(R_NoR, R_file, p, m) /\ p \in [1..R_NoR -> 1..R_NoR]
      BY <1>1 DEF R_AtFor, R_Orders
    <2>2. \A s \in 1..R_NoR : s <= m /\ s <= R_NoR
      BY <1>3, <1>4
    <2>3. \A r \in 1..R_NoR : p[r] <= R_NoR
      BY <1>3, <2>1
    <2> QED
      BY <2>1, <2>2, <2>3 DEF R_SortedUpTo
  <1>6. R_Rearranged(R_file, R_original, p)
    BY <1>1 DEF R_AtFor
  <1>7. R_at' = "end" /\ R_file' = R_file /\ R_original' = R_original
    BY DEF R_ForDone
  <1> QED
    BY <1>2, <1>3, <1>5, <1>6, <1>7 DEF R_Inv

(* The first write of an exchange: with the second one the record would be  *)
(* one place further down.                                                  *)
LEMMA FirstWrite ==
    ASSUME R_TypeOK, R_WriteA, NEW m \in Nat \ {0}, NEW q \in Nat \ {0}, NEW p \in R_Orders,
           R_AtWhile(m, q, p)
    PROVE  LET f == R_Put(R_file', R_pos', R_B')
           IN  /\ R_file' \in Seq(Nat) /\ Len(R_file') = Len(R_original)
               /\ R_i' = m * SoR /\ R_j' = (q - 1) * SoR /\ R_pos' = (q - 1) * SoR
               /\ R_B' \in Seq(Nat) /\ Len(R_B') = SoR
               /\ R_Swapped(p, q) \in R_Orders
               /\ R_Rearranged(f, R_original, R_Swapped(p, q))
               /\ R_Moving(R_NoR, f, R_Swapped(p, q), m, q - 1)
               /\ R_a' = R_Records(f)[q - 1][1]
  <1> DEFINE n == R_NoR
             A == R_Bytes(R_file, (q - 1) * SoR, SoR)
             B == R_Bytes(R_file, (q - 2) * SoR, SoR)
             h == R_Put(R_file, (q - 2) * SoR, A)
             g == R_Put(h, (q - 1) * SoR, B)
             F == R_Records(R_file)
  <1>1. /\ n \in Nat /\ Len(R_file) = n * SoR /\ R_file \in Seq(Nat)
        /\ Len(R_file) = Len(R_original)
    BY SizesAre DEF R_TypeOK
  <1>2. /\ R_i = m * SoR /\ q >= 2 /\ R_j = (q - 1) * SoR /\ R_pos = (q - 2) * SoR
        /\ R_a = F[q][1] /\ R_b = F[q - 1][1]
        /\ R_Rearranged(R_file, R_original, p) /\ R_Moving(n, R_file, p, m, q)
    BY DEF R_AtWhile
  <1>3. q \in 2..n /\ q \in Nat \ {0, 1}
    BY <1>1, <1>2 DEF R_Moving
  <1>4. R_j - SoR = (q - 2) * SoR /\ R_pos + SoR = (q - 1) * SoR
    BY <1>2, <1>3, Neighbours
  <1>5. R_A' = A /\ R_B' = B /\ R_file' = h /\ R_pos' = (q - 1) * SoR
    BY <1>2, <1>4 DEF R_WriteA
  <1>6. /\ B \in Seq(Nat) /\ Len(B) = SoR
        /\ h \in Seq(Nat) /\ Len(h) = Len(R_file)
        /\ g \in Seq(Nat) /\ Len(g) = Len(R_file)
        /\ R_Records(g) = R_Swapped(F, q)
    BY <1>1, <1>3, RecordExchange
  <1>7. R_Put(R_file', R_pos', R_B') = g
    BY <1>5
  <1>8. R_i' = m * SoR /\ R_j' = (q - 1) * SoR /\ R_a' = F[q][1] /\ F[q][1] < F[q - 1][1]
    BY <1>2 DEF R_WriteA, R_Wrong
  <1> HIDE DEF n, A, B, h, g
  <1>9. F \in [1..n -> Seq(Nat)] /\ R_Keys(R_file, n)
    BY <1>1, KeysAre
  <1>10. p \in [1..n -> 1..n]
    BY DEF R_Orders, n
  <1>11. R_Swapped(p, q) \in [1..n -> 1..n] /\ R_Rearranged(g, R_original, R_Swapped(p, q))
    BY <1>1, <1>2, <1>3, <1>6, <1>9, <1>10, SwapRearranges
  <1>12. R_Moving(n, g, R_Swapped(p, q), m, q - 1)
    BY <1>1, <1>2, <1>3, <1>6, <1>8, <1>9, <1>10, KeepsMoving
  <1>13. R_Records(g)[q - 1] = F[q]
    <2>1. PICK u \in 1..n : u = q - 1
      BY <1>1, <1>3, q - 1 \in 1..n
    <2>2. u # q
      BY <1>3, <2>1
    <2>3. R_Swapped(F, q)[u] = F[q]
      BY <1>9, <2>1, <2>2 DEF R_Swapped
    <2> QED
      BY <1>6, <2>1, <2>3
  <1>14. R_Swapped(p, q) \in R_Orders
    BY <1>11 DEF R_Orders, n
  <1> QED
    BY <1>1, <1>5, <1>6, <1>7, <1>8, <1>11, <1>12, <1>13, <1>14 DEF n

(* An exchange begins in the inner loop.                                    *)
LEMMA WhileRInv == R_Inv /\ R_While => R_Inv'
  <1> SUFFICES ASSUME R_Inv, R_While
               PROVE  R_Inv'
    OBVIOUS
  <1>1. PICK m \in Nat \ {0}, q \in Nat \ {0}, p \in R_Orders : R_AtWhile(m, q, p)
    BY DEF R_Inv, R_While
  <1>2. R_TypeOK /\ R_WriteA /\ R_original' = R_original
    BY DEF R_Inv, R_While, R_WriteA
  <1>3. R_NoR' = R_NoR /\ R_Orders' = R_Orders
    BY <1>2, OriginalStays
  <1>4. PICK u \in Nat : u = q - 1
    BY q - 1 \in Nat
  <1>5. u >= 2
    <2>1. ~ (u * SoR < 2 * SoR)
      <3>1. R_j >= 2 * SoR /\ R_j = u * SoR
        BY <1>1, <1>4 DEF R_While, R_AtWhile
      <3>2. u * SoR \in Nat /\ 2 * SoR \in Nat
        BY RecordPlaces
      <3> QED
        BY <3>1, <3>2
    <2> QED
      BY <2>1, PlacesTell
  <1> DEFINE w == R_Swapped(p, q)
             f == R_Put(R_file, R_pos, R_B)
  <1>6. /\ R_file' \in Seq(Nat) /\ Len(R_file') = Len(R_original)
        /\ R_i' = m * SoR /\ R_j' = u * SoR /\ R_pos' = u * SoR
        /\ R_B' \in Seq(Nat) /\ Len(R_B') = SoR
        /\ w \in R_Orders
        /\ R_Rearranged(f', R_original, w)
        /\ R_Moving(R_NoR, f', w, m, u)
        /\ R_a' = R_Records(f')[u][1]
    BY <1>1, <1>2, <1>4, FirstWrite
  <1>7. R_at' = "write"
    BY DEF R_While
  <1>8. R_TypeOK'
    BY <1>2, <1>6, <1>7 DEF R_TypeOK
  <1> HIDE DEF w
  <1>9. R_AtWrite(m, u, w)'
    BY <1>2, <1>3, <1>5, <1>6, <1>7 DEF R_AtWrite
  <1>10. u \in Nat \ {0}
    BY <1>5
  <1> QED
    BY <1>3, <1>6, <1>7, <1>8, <1>9, <1>10 DEF R_Inv

(* The exchange with the first record of the file.                          *)
LEMMA IfRInv == R_Inv /\ R_If => R_Inv'
  <1> SUFFICES ASSUME R_Inv, R_If
               PROVE  R_Inv'
    OBVIOUS
  <1>1. PICK m \in Nat \ {0}, q \in Nat \ {0}, p \in R_Orders : R_AtWhile(m, q, p)
    BY DEF R_Inv, R_If
  <1>2. R_TypeOK /\ R_WriteA /\ R_original' = R_original
    BY DEF R_Inv, R_If, R_WriteA
  <1>3. R_NoR' = R_NoR /\ R_Orders' = R_Orders
    BY <1>2, OriginalStays
  <1>4. q = 2 /\ 2 - 1 = 1
    <2>1. R_at = "if" /\ R_Wrong
      BY DEF R_If, R_WriteA
    <2>2. R_at = "if" /\ R_Wrong => q = 2
      BY <1>1, Zenon DEF R_AtWhile
    <2> QED
      BY <2>1, <2>2
  <1> DEFINE w == R_Swapped(p, q)
             f == R_Put(R_file, R_pos, R_B)
  <1>5. /\ R_file' \in Seq(Nat) /\ Len(R_file') = Len(R_original)
        /\ R_i' = m * SoR /\ R_j' = 1 * SoR /\ R_pos' = 1 * SoR
        /\ R_B' \in Seq(Nat) /\ Len(R_B') = SoR
        /\ w \in R_Orders
        /\ R_Rearranged(f', R_original, w)
        /\ R_Moving(R_NoR, f', w, m, 1)
        /\ R_a' = R_Records(f')[1][1]
    BY <1>1, <1>2, <1>4, FirstWrite
  <1>6. R_at' = "write last"
    BY DEF R_If
  <1>7. R_TypeOK'
    BY <1>2, <1>5, <1>6 DEF R_TypeOK
  <1> HIDE DEF w
  <1>8. R_AtWrite(m, 1, w)'
    BY <1>2, <1>3, <1>5, <1>6 DEF R_AtWrite
  <1>9. 1 \in Nat \ {0}
    OBVIOUS
  <1>10. \E x, y \in Nat \ {0}, z \in R_Orders : R_AtWrite(x, y, z)'
    BY <1>5, <1>8, <1>9
  <1> QED
    BY <1>3, <1>6, <1>7, <1>10 DEF R_Inv

(* Writing anywhere leaves a file of the same size.                         *)
LEMMA PutType ==
    ASSUME NEW f \in Seq(Nat), NEW s \in Seq(Nat), NEW b \in Nat
    PROVE  R_Put(f, b, s) \in Seq(Nat) /\ Len(R_Put(f, b, s)) = Len(f)
  <1>1. /\ Len(f) \in Nat /\ \A k \in 1..Len(f) : f[k] \in Nat
        /\ Len(s) \in Nat /\ \A k \in 1..Len(s) : s[k] \in Nat
    BY ElementOfSeq
  <1>2. ASSUME NEW k \in 1..Len(f)
        PROVE  (IF k - 1 \in b..(b + Len(s) - 1) THEN s[k - b] ELSE f[k]) \in Nat
    <2>1. k - 1 \in b..(b + Len(s) - 1) => k - b \in 1..Len(s)
      BY <1>1
    <2> QED
      BY <1>1, <2>1
  <1> DEFINE g == R_Put(f, b, s)
  <1>3. g \in [1..Len(f) -> Nat]
    BY <1>2 DEF R_Put
  <1>4. PICK l \in Nat : l = Len(f)
    BY <1>1
  <1> HIDE DEF g
  <1>5. g \in Seq(Nat) /\ Len(g) = Len(f)
    <2>1. g \in [1..l -> Nat]
      BY <1>3, <1>4
    <2>2. g \in Seq(Nat) /\ Len(g) = l
      BY <2>1
    <2> QED
      BY <1>4, <2>2
  <1> QED
    BY <1>5 DEF g

(* The second write of the inner loop.                                      *)
LEMMA WriteBRInv == R_Inv /\ R_WriteB => R_Inv'
  <1> SUFFICES ASSUME R_Inv, R_WriteB
               PROVE  R_Inv'
    OBVIOUS
  <1> DEFINE f == R_Put(R_file, R_pos, R_B)
  <1>1. PICK m \in Nat \ {0}, q \in Nat \ {0}, p \in R_Orders : R_AtWrite(m, q, p)
    BY DEF R_Inv, R_WriteB
  <1>2. R_TypeOK /\ R_original' = R_original /\ R_file' = f
    BY DEF R_Inv, R_WriteB
  <1>3. R_NoR' = R_NoR /\ R_Orders' = R_Orders /\ R_NoR \in Nat
    BY <1>2, OriginalStays, SizesAre
  <1>4. q >= 2 /\ q \in Nat \ {0, 1}
    BY <1>1 DEF R_WriteB, R_AtWrite
  <1>5. /\ R_i = m * SoR /\ R_j = q * SoR /\ R_pos = q * SoR /\ R_B \in Seq(Nat)
        /\ R_Rearranged(f, R_original, p) /\ R_Moving(R_NoR, f, p, m, q)
        /\ R_a = R_Records(f)[q][1]
    BY <1>1 DEF R_AtWrite
  <1>6. f \in Seq(Nat) /\ Len(f) = Len(R_file)
    BY <1>2, <1>5, PutType, RecordPlaces, SizesAre
  <1>7. Len(f) = R_NoR * SoR /\ Len(R_original) = R_NoR * SoR
    BY <1>2, <1>6, SizesAre
  <1>8. /\ R_j' = (q - 1) * SoR /\ R_pos' = (q - 2) * SoR
        /\ R_b' = f[(q - 2) * SoR + 1]
    <2>1. R_j' = R_j - SoR /\ R_pos' = R_j' - SoR /\ R_b' = R_file'[R_j' - SoR + 1]
      BY DEF R_WriteB
    <2>2. q * SoR - SoR = (q - 1) * SoR
      <3>1. \A x, s \in Nat : (x + s) - s = x
        OBVIOUS
      <3>2. (q - 1) * SoR \in Nat /\ q * SoR = (q - 1) * SoR + SoR
        BY <1>4, Neighbours, RecordPlaces, q - 1 \in Nat
      <3> QED
        BY <3>1, <3>2, RecordConstants
    <2>3. (q - 1) * SoR - SoR = (q - 2) * SoR
      BY <1>4, Neighbours
    <2> QED
      BY <1>2, <1>5, <2>1, <2>2, <2>3
  <1> HIDE DEF f
  <1>9. f[(q - 2) * SoR + 1] = R_Records(f)[q - 1][1]
    <2>1. q - 1 \in 1..R_NoR /\ (q - 1) - 1 = q - 2
      BY <1>3, <1>4, <1>5 DEF R_Moving
    <2>2. R_Records(f)[q - 1][1] = f[((q - 1) - 1) * SoR + 1]
      BY <1>3, <1>6, <1>7, <2>1, KeysAre
    <2> QED
      BY <2>1, <2>2
  <1>10. R_i' = R_i /\ R_a' = R_a /\ R_at' = "while"
    BY DEF R_WriteB
  <1>11. R_TypeOK'
    BY <1>2, <1>6, <1>10 DEF R_TypeOK
  <1>12. R_AtWhile(m, q, p)'
    <2>1. R_file' = f /\ R_original' = R_original /\ R_NoR' = R_NoR
      BY <1>2, <1>3
    <2>2. R_i' = m * SoR /\ R_a' = R_Records(f)[q][1] /\ R_b' = R_Records(f)[q - 1][1]
      BY <1>5, <1>8, <1>9, <1>10
    <2> QED
      BY <1>4, <1>5, <1>8, <1>10, <2>1, <2>2 DEF R_AtWhile
  <1> QED
    BY <1>3, <1>10, <1>11, <1>12 DEF R_Inv

(* The inner loop ends: what is in the wrong order now is at the beginning  *)
(* of the file.                                                             *)
LEMMA WhileDoneRInv == R_Inv /\ R_WhileDone => R_Inv'
  <1> SUFFICES ASSUME R_Inv, R_WhileDone
               PROVE  R_Inv'
    OBVIOUS
  <1>1. PICK m \in Nat \ {0}, q \in Nat \ {0}, p \in R_Orders : R_AtWhile(m, q, p)
    BY DEF R_Inv, R_WhileDone
  <1>2. /\ R_original' = R_original /\ R_file' = R_file /\ R_at' = "if"
        /\ R_i' = R_i /\ R_j' = R_j /\ R_pos' = R_pos /\ R_a' = R_a /\ R_b' = R_b
    BY DEF R_WhileDone, R_locals
  <1>3. R_NoR' = R_NoR /\ R_Orders' = R_Orders
    BY <1>2, OriginalStays
  <1>4. R_TypeOK'
    BY <1>2 DEF R_Inv, R_TypeOK
  <1>5. R_Wrong' => q = 2
    <2> SUFFICES ASSUME R_Wrong'
                 PROVE  q = 2
      OBVIOUS
    <2>1. R_Wrong
      BY <1>2 DEF R_Wrong
    <2>2. ~ (R_j >= 2 * SoR)
      BY <2>1 DEF R_WhileDone
    <2>3. PICK u \in Nat : u = q - 1
      BY q - 1 \in Nat
    <2>4. R_j = u * SoR /\ q >= 2
      BY <1>1, <2>3 DEF R_AtWhile
    <2>5. u * SoR < 2 * SoR
      BY <2>2, <2>4, RecordPlaces
    <2>6. u < 2
      BY <2>5, PlacesTell
    <2> QED
      BY <2>3, <2>4, <2>6
  <1>6. R_AtWhile(m, q, p)'
    <2>1. /\ R_i = m * SoR /\ q >= 2 /\ R_j = (q - 1) * SoR /\ R_pos = (q - 2) * SoR
          /\ R_a = R_Records(R_file)[q][1] /\ R_b = R_Records(R_file)[q - 1][1]
          /\ R_Rearranged(R_file, R_original, p) /\ R_Moving(R_NoR, R_file, p, m, q)
      BY <1>1 DEF R_AtWhile
    <2> QED
      BY <1>2, <1>3, <1>5, <2>1 DEF R_AtWhile
  <1> QED
    BY <1>2, <1>3, <1>4, <1>6 DEF R_Inv

(* The record has come down to the beginning of the file.                   *)
LEMMA WriteLastBRInv == R_Inv /\ R_WriteLastB => R_Inv'
  <1> SUFFICES ASSUME R_Inv, R_WriteLastB
               PROVE  R_Inv'
    OBVIOUS
  <1> DEFINE f == R_Put(R_file, R_pos, R_B)
  <1>1. PICK m \in Nat \ {0}, q \in Nat \ {0}, p \in R_Orders : R_AtWrite(m, q, p)
    BY DEF R_Inv, R_WriteLastB
  <1>2. R_TypeOK /\ R_original' = R_original /\ R_file' = f /\ R_at' = "for"
    BY DEF R_Inv, R_WriteLastB
  <1>3. R_NoR' = R_NoR /\ R_Orders' = R_Orders /\ R_NoR \in Nat
    BY <1>2, OriginalStays, SizesAre
  <1>4. q = 1
    BY <1>1 DEF R_WriteLastB, R_AtWrite
  <1>5. /\ R_i = m * SoR /\ R_pos = q * SoR /\ R_B \in Seq(Nat)
        /\ R_Rearranged(f, R_original, p) /\ R_Moving(R_NoR, f, p, m, q)
    BY <1>1 DEF R_AtWrite
  <1>6. f \in Seq(Nat) /\ Len(f) = Len(R_file)
    BY <1>2, <1>5, PutType, RecordPlaces, SizesAre
  <1>7. Len(f) = R_NoR * SoR /\ Len(R_original) = R_NoR * SoR
    BY <1>2, <1>6, SizesAre
  <1>8. R_i' = (m + 1) * SoR /\ m + 1 \in Nat \ {0}
    <2>1. (m + 1) * SoR = m * SoR + SoR
      BY RecordPlaces
    <2>2. R_i' = R_i + SoR
      BY DEF R_WriteLastB
    <2> QED
      BY <1>5, <2>1, <2>2
  <1> HIDE DEF f
  <1>9. R_SortedUpTo(R_NoR, f, p, m + 1)
    <2>1. p \in [1..R_NoR -> 1..R_NoR] /\ q \in 1..R_NoR /\ ~ (q > 1)
      BY <1>3, <1>4, <1>5 DEF R_Orders, R_Moving
    <2>2. R_Keys(f, R_NoR)
      BY <1>3, <1>6, <1>7, KeysAre
    <2> QED
      BY <1>3, <1>5, <2>1, <2>2, StopsMoving
  <1>10. R_TypeOK'
    BY <1>2, <1>6 DEF R_TypeOK
  <1>11. R_AtFor(m + 1, p)'
    BY <1>2, <1>3, <1>5, <1>8, <1>9 DEF R_AtFor
  <1>12. \E x \in Nat \ {0}, z \in R_Orders : R_AtFor(x, z)'
    BY <1>8, <1>11
  <1> QED
    BY <1>2, <1>3, <1>10, <1>12 DEF R_Inv

(* The record is in its place.                                              *)
LEMMA IfDoneRInv == R_Inv /\ R_IfDone => R_Inv'
  <1> SUFFICES ASSUME R_Inv, R_IfDone
               PROVE  R_Inv'
    OBVIOUS
  <1>1. PICK m \in Nat \ {0}, q \in Nat \ {0}, p \in R_Orders : R_AtWhile(m, q, p)
    BY DEF R_Inv, R_IfDone
  <1>2. R_TypeOK /\ R_original' = R_original /\ R_file' = R_file /\ R_at' = "for"
    BY DEF R_Inv, R_IfDone
  <1>3. R_NoR' = R_NoR /\ R_Orders' = R_Orders /\ R_NoR \in Nat
    BY <1>2, OriginalStays, SizesAre
  <1>4. /\ R_i = m * SoR /\ q >= 2
        /\ R_a = R_Records(R_file)[q][1] /\ R_b = R_Records(R_file)[q - 1][1]
        /\ R_Rearranged(R_file, R_original, p) /\ R_Moving(R_NoR, R_file, p, m, q)
    BY <1>1 DEF R_AtWhile
  <1>5. R_file \in Seq(Nat) /\ Len(R_file) = R_NoR * SoR
    BY <1>2, SizesAre
  <1>6. R_i' = (m + 1) * SoR /\ m + 1 \in Nat \ {0}
    BY <1>4, RecordPlaces DEF R_IfDone
  <1>7. R_SortedUpTo(R_NoR, R_file, p, m + 1)
    <2>1. p \in [1..R_NoR -> 1..R_NoR] /\ q \in 1..R_NoR /\ q - 1 \in 1..R_NoR
      <3>1. m < R_NoR /\ q \in 1..(m + 1)
        BY <1>4 DEF R_Moving
      <3>2. q >= 2 /\ q \in Nat /\ m \in Nat
        BY <1>4
      <3>3. q \in 1..R_NoR /\ q - 1 \in 1..R_NoR
        BY <1>3, <3>1, <3>2
      <3> QED
        BY <3>3 DEF R_Orders
    <2>2. R_Keys(R_file, R_NoR)
      BY <1>3, <1>5, KeysAre
    <2>3. R_a \in Nat /\ R_b \in Nat
      BY <1>4, <2>1, <2>2 DEF R_Keys
    <2>4. ~ (R_a < R_b)
      BY DEF R_IfDone, R_Wrong
    <2>5. R_b <= R_a
      BY <2>3, <2>4
    <2>6. R_Records(R_file)[q - 1][1] <= R_Records(R_file)[q][1]
      BY <1>4, <2>5
    <2> QED
      BY <1>3, <1>4, <2>1, <2>2, <2>6, StopsMoving
  <1>8. R_TypeOK'
    BY <1>2 DEF R_TypeOK
  <1>9. R_AtFor(m + 1, p)'
    BY <1>2, <1>3, <1>4, <1>6, <1>7 DEF R_AtFor
  <1>10. \E x \in Nat \ {0}, z \in R_Orders : R_AtFor(x, z)'
    BY <1>6, <1>9
  <1> QED
    BY <1>2, <1>3, <1>8, <1>10 DEF R_Inv

(* One more record is copied.                                               *)
LEMMA CopyRInv == R_Inv /\ R_Copy => R_Inv'
  <1> SUFFICES ASSUME R_Inv, R_Copy
               PROVE  R_Inv'
    OBVIOUS
  <1>1. R_TypeOK /\ R_TypeOK' /\ R_original' = R_original /\ R_file' = R_file
    BY DEF R_Inv, R_TypeOK, R_Copy
  <1>2. R_NoR' = R_NoR /\ R_NoR \in Nat
    BY <1>1, OriginalStays, SizesAre
  <1>3. R_AtCopy
    BY DEF R_Inv, R_Copy
  <1>4. R_original \in Seq(Nat) /\ Len(R_original) = R_NoR * SoR
    BY <1>1, SizesAre
  <1>5. R_i \in Nat /\ R_i < R_NoR /\ R_i' = R_i + 1 /\ R_pos = R_i * SoR
    BY <1>3 DEF R_Copy, R_AtCopy
  <1> DEFINE b == R_i * SoR
  <1>6. b \in Nat /\ b + SoR <= Len(R_original) /\ (R_i + 1) * SoR = b + SoR
    BY <1>2, <1>4, <1>5, RecordPlaces
  <1>7. R_to = SubSeq(R_original, 1, b) /\ R_to' = R_to \o SubSeq(R_original, b + 1, b + SoR)
    BY <1>3, <1>5 DEF R_Copy, R_AtCopy, R_Bytes
  <1> HIDE DEF b
  <1>8. R_to' = SubSeq(R_original, 1, b + SoR)
    <2> DEFINE x == SubSeq(R_original, 1, b)
               y == SubSeq(R_original, b + 1, b + SoR)
               z == SubSeq(R_original, 1, b + SoR)
               l == Len(R_original)
    <2>1. SoR \in Nat /\ l \in Nat /\ b + SoR <= l /\ b + SoR \in Nat
      BY <1>4, <1>6, RecordConstants
    <2>2. \A k \in 1..l : R_original[k] \in Nat
      BY <1>4, ElementOfSeq
    <2>3. x \in Seq(Nat) /\ Len(x) = b /\ \A k \in 1..b : x[k] = R_original[k]
      BY <1>6, <2>1, <2>2, SubSeqProperties
    <2>4. /\ y \in Seq(Nat) /\ Len(y) = SoR
          /\ \A k \in 1..SoR : y[k] = R_original[b + k]
      BY <1>6, <2>1, <2>2, SubSeqProperties
    <2>5. /\ z \in Seq(Nat) /\ Len(z) = b + SoR
          /\ \A k \in 1..(b + SoR) : z[k] = R_original[k]
      BY <1>6, <2>1, <2>2, SubSeqProperties
    <2> HIDE DEF x, y, z
    <2>6. /\ x \o y \in Seq(Nat) /\ Len(x \o y) = b + SoR
          /\ \A k \in 1..(b + SoR) : (x \o y)[k] = IF k <= b THEN x[k] ELSE y[k - b]
      <3>1. x \in Seq(Nat) /\ y \in Seq(Nat) /\ Len(x) = b /\ Len(y) = SoR
        BY <2>3, <2>4
      <3> QED
        BY <3>1, ConcatProperties
    <2>7. ASSUME NEW k \in 1..(b + SoR)
          PROVE  (x \o y)[k] = z[k]
      <3>1. CASE k <= b
        <4>1. k \in 1..b
          BY <1>6, <2>1, <3>1
        <4> QED
          BY <2>3, <2>5, <2>6, <3>1, <4>1
      <3>2. CASE ~ (k <= b)
        <4>1. k - b \in 1..SoR /\ b + (k - b) = k
          BY <1>6, <2>1, <3>2
        <4>2. y[k - b] = R_original[b + (k - b)]
          BY <2>4, <4>1
        <4> QED
          BY <2>5, <2>6, <3>2, <4>1, <4>2
      <3> QED
        BY <3>1, <3>2
    <2>8. x \o y = z
      BY <2>5, <2>6, <2>7, SeqEqual
    <2> QED
      BY <1>7, <2>8 DEF x, y, z
  <1>9. R_AtCopy'
    <2>1. R_i' \in Nat /\ R_i' <= R_NoR /\ R_i' * SoR = b + SoR
      BY <1>2, <1>5, <1>6
    <2>2. R_pos' = b + SoR
      BY <1>5 DEF R_Copy, b
    <2>3. R_file' = R_original'
      BY <1>1, <1>3 DEF R_AtCopy
    <2> QED
      BY <1>1, <1>2, <1>8, <2>1, <2>2, <2>3 DEF R_AtCopy
  <1> QED
    BY <1>1, <1>9 DEF R_Inv, R_Copy

(* A step that changes nothing.                                             *)
LEMMA StutterRInv == R_Inv /\ UNCHANGED R_vars => R_Inv'
  <1> SUFFICES ASSUME R_Inv, UNCHANGED R_vars
               PROVE  R_Inv'
    OBVIOUS
  <1>1. /\ R_original' = R_original /\ R_file' = R_file /\ R_at' = R_at /\ R_to' = R_to
        /\ R_i' = R_i /\ R_j' = R_j /\ R_pos' = R_pos /\ R_a' = R_a /\ R_b' = R_b
        /\ R_B' = R_B
    BY DEF R_vars, R_locals
  <1>2. R_NoR' = R_NoR /\ R_Orders' = R_Orders
    BY <1>1, OriginalStays
  <1>3. R_TypeOK'
    BY <1>1 DEF R_Inv, R_TypeOK
  <1>4. \A m, p : R_AtFor(m, p) => R_AtFor(m, p)'
    BY <1>1, <1>2 DEF R_AtFor
  <1>5. \A m, q, p : R_AtWhile(m, q, p) => R_AtWhile(m, q, p)'
    BY <1>1, <1>2 DEF R_AtWhile, R_Wrong
  <1>6. \A m, q, p : R_AtWrite(m, q, p) => R_AtWrite(m, q, p)'
    BY <1>1, <1>2 DEF R_AtWrite
  <1>7. R_AtCopy => R_AtCopy'
    BY <1>1, <1>2 DEF R_AtCopy
  <1> QED
    BY <1>1, <1>2, <1>3, <1>4, <1>5, <1>6, <1>7 DEF R_Inv

(* Every step keeps the invariant.                                          *)
LEMMA NextRInv == R_Inv /\ [R_Next]_R_vars => R_Inv'
  BY ForRInv, ForDoneRInv, WhileRInv, WriteBRInv, WhileDoneRInv, IfRInv, WriteLastBRInv,
     IfDoneRInv, CopyRInv, StutterRInv DEF R_Next, R_Sort

(* The invariant says what the two properties say.                          *)
LEMMA RInvImplies == R_Inv => RecordsSurviveStop /\ SortedStably
  <1> SUFFICES ASSUME R_Inv
               PROVE  RecordsSurviveStop /\ SortedStably
    OBVIOUS
  <1>1. R_TypeOK
    BY DEF R_Inv
  <1>2. R_NoR \in Nat
    BY <1>1, SizesAre
  <1>3. R_at = "for" => \E p \in R_Orders : R_Rearranged(R_file, R_original, p)
    BY DEF R_Inv, R_AtFor
  <1>4. R_at \in {"while", "if"} => \E p \in R_Orders : R_Rearranged(R_file, R_original, p)
    BY DEF R_Inv, R_AtWhile
  <1>5. R_at = "end" => \E p \in R_Orders : R_Rearranged(R_file, R_original, p)
    BY DEF R_Inv
  <1>6. R_at = "copy" =>
           /\ \E p \in R_Orders : R_Rearranged(R_file, R_original, p)
           /\ R_to = R_Bytes(R_original, 0, R_i * SoR)
    <2> SUFFICES ASSUME R_at = "copy"
                 PROVE  /\ \E p \in R_Orders : R_Rearranged(R_file, R_original, p)
                        /\ R_to = R_Bytes(R_original, 0, R_i * SoR)
      OBVIOUS
    <2>1. R_AtCopy
      BY DEF R_Inv
    <2> DEFINE p == [r \in 1..R_NoR |-> r]
    <2>2. p \in R_Orders
      BY DEF R_Orders
    <2>3. R_Rearranged(R_file, R_original, p)
      BY <2>1 DEF R_AtCopy, R_Rearranged
    <2>4. R_i * SoR \in Nat
      BY <2>1, RecordPlaces DEF R_AtCopy
    <2>5. R_to = R_Bytes(R_original, 0, R_i * SoR)
      BY <2>1, <2>4 DEF R_AtCopy, R_Bytes
    <2> QED
      BY <2>2, <2>3, <2>5
  <1>7. R_at \in {"write", "write last"} =>
           \E p \in R_Orders : R_Rearranged(R_Put(R_file, R_pos, R_B), R_original, p)
    BY DEF R_Inv, R_AtWrite
  <1>8. RecordsSurviveStop
    BY <1>1, <1>3, <1>4, <1>5, <1>6, <1>7 DEF RecordsSurviveStop, R_TypeOK
  <1>9. SortedStably
    <2> SUFFICES ASSUME R_at = "end"
                 PROVE  \E p \in R_Orders :
                           /\ R_Rearranged(R_file, R_original, p)
                           /\ \A r, s \in 1..R_NoR : r < s => R_Before(R_file, p, r, s)
      BY DEF SortedStably
    <2>1. PICK p \in R_Orders : /\ R_Rearranged(R_file, R_original, p)
                                /\ R_SortedUpTo(R_NoR, R_file, p, R_NoR)
      BY DEF R_Inv
    <2>2. \A s \in 1..R_NoR : s <= R_NoR
      BY <1>2
    <2>3. \A r, s \in 1..R_NoR : r < s => R_Before(R_file, p, r, s)
      BY <2>1, <2>2 DEF R_SortedUpTo
    <2> QED
      BY <2>1, <2>3
  <1> QED
    BY <1>8, <1>9

(* For every size of a record and every file: wherever the program is       *)
(* stopped, no record is lost or doubled but between the two writes of an   *)
(* exchange, and what has been copied is the beginning of the original.     *)
THEOREM RecordsAreKept == R_Spec => []RecordsSurviveStop
  <1>1. R_Spec => []R_Inv
    BY InitRInv, NextRInv, PTL DEF R_Spec
  <1>2. R_Inv => RecordsSurviveStop
    BY RInvImplies
  <1> QED
    BY <1>1, <1>2, PTL

(* For every size of a record and every file: when the sort ends, the       *)
(* records are in the order of their first bytes, equal ones in the order   *)
(* they had.                                                                *)
THEOREM SortIsStable == R_Spec => []SortedStably
  <1>1. R_Spec => []R_Inv
    BY InitRInv, NextRInv, PTL DEF R_Spec
  <1>2. R_Inv => SortedStably
    BY RInvImplies
  <1> QED
    BY <1>1, <1>2, PTL

-----------------------------------------------------------------------------
(* The master and the slaves of cw05/zad2.                                  *)

F_Pieces == Slaves \X Nat \X {1, 2}

F_TypeOK ==
    /\ F_name \in BOOLEAN /\ F_content \in Seq(F_Pieces) /\ F_written \in Seq(F_Pieces)
    /\ F_master \in {"mkfifo", "open", "opening", "read", "print", "close", "remove", "done"}
    /\ F_buf \in [1..PipeBuf -> F_Pieces \union {End, F_NoPiece}] /\ F_got \in 0..PipeBuf
    /\ F_shown \in Seq(F_Pieces \union {F_NoPiece})
    /\ F_slave \in [Slaves -> {"begin", "failed", "opening", "write", "killed", "remove", "done"}]
    /\ F_i \in [Slaves -> Nat] /\ F_lines \in [Slaves -> Nat] /\ F_late \subseteq Slaves

(* Nothing is written before the master opens the FIFO, and after it has    *)
(* seen its end only those write that came later.                           *)
F_Places ==
    /\ F_master \in {"mkfifo", "open"} => F_written = <<>> /\ F_content = <<>> /\ F_shown = <<>>
    /\ F_master = "close" => Writers \subseteq F_late

(* A slave does not write the same piece twice.                             *)
F_Distinct ==
    /\ \A k \in 1..Len(F_written) : F_written[k][2] < F_i[F_written[k][1]]
    /\ \A k, m \in 1..Len(F_written) : F_written[k] = F_written[m] => k = m

(* R has the first n pieces that were written, each for the first time      *)
(* after the one before it.                                                 *)
HasFirst(R, n) ==
    /\ \A i \in 1..Len(R) : R[i] = F_NoPiece \/ \E k \in 1..n : R[i] = F_written[k]
    /\ \A k \in 1..n : \E i \in 1..Len(R) : R[i] = F_written[k]
    /\ \A i \in 1..Len(R), k \in 2..n :
          R[i] = F_written[k] => \E h \in 1..(i - 1) : R[h] = F_written[k - 1]

(* The buffer has what the last read brought, and behind it only what was   *)
(* read before.                                                             *)
BufferHas(n) ==
    /\ \A i \in 1..PipeBuf :
          F_buf[i] \in {End, F_NoPiece} \/ \E k \in 1..n : F_buf[i] = F_written[k]
    /\ F_master = "print" =>
          F_got <= n /\ \A i \in 1..F_got : F_buf[i] = F_written[n - F_got + i]

F_Flow(n) ==
    /\ HasFirst(Read, n) /\ BufferHas(n)
    /\ Reading => F_content = SubSeq(F_written, n + 1, Len(F_written))
    /\ \A k \in (n + 1)..Len(F_written) :
          F_master \in {"opening", "read", "print"} \/ F_written[k][1] \in F_late

F_Inv ==
    /\ F_TypeOK /\ F_Places /\ F_Distinct
    /\ \E n \in 0..Len(F_written) : F_Flow(n)

(* Pieces are neither terminators nor what memory had before.               *)
LEMMA PiecesAre == \A p \in F_Pieces : p # End /\ p # F_NoPiece /\ p[1] \in Slaves /\ p[2] \in Nat
  BY DEF F_Pieces, End, F_NoPiece

(* A set of natural numbers has a least element.                            *)
LEMMA HasLeast ==
    ASSUME NEW S \in SUBSET Nat, S # {}
    PROVE  \E m \in S : \A y \in S : m <= y
  <1>1. IsWellFoundedOn(OpToRel(<, Nat), Nat)
    BY NatLessThanWellFounded
  <1>2. PICK m \in S : \A y \in S : ~ (<<y, m>> \in OpToRel(<, Nat))
    BY <1>1, WFMin
  <1>3. \A y \in S : ~ (y < m)
    BY <1>2 DEF OpToRel
  <1> QED
    BY <1>3

(* What is printed starts with what was read, as long as that has no        *)
(* terminator.                                                              *)
LEMMA PrintedIs ==
    ASSUME F_TypeOK, NEW n \in 0..Len(F_written), BufferHas(n), F_master = "print"
    PROVE  \E q \in F_got..PipeBuf :
              /\ Printed = SubSeq(F_buf, 1, q)
              /\ \A i \in 1..q : F_buf[i] # End
  <1> DEFINE ends == {k \in 1..PipeBuf : F_buf[k] = End}
  <1>0. PipeBuf \in Nat /\ F_got \in 0..PipeBuf
    BY FifoConstants DEF F_TypeOK
  <1>1. CASE ends = {}
    <2>1. Printed = SubSeq(F_buf, 1, PipeBuf)
      BY <1>1 DEF Printed
    <2>2. \A i \in 1..PipeBuf : F_buf[i] # End
      BY <1>1
    <2> QED
      BY <1>0, <2>1, <2>2
  <1>2. CASE ends # {}
    <2>1. ends \in SUBSET Nat /\ ends \subseteq 1..PipeBuf
      OBVIOUS
    <2> HIDE DEF ends
    <2>2. PICK m \in ends : \A y \in ends : m <= y
      BY <1>2, <2>1, HasLeast
    <2>3. Min(ends) \in ends /\ \A y \in ends : Min(ends) <= y
      <3>1. Min(ends) = CHOOSE z \in ends : \A y \in ends : z <= y
        BY DEF Min
      <3> QED
        BY <2>2, <3>1, Zenon
    <2> DEFINE q == Min(ends) - 1
    <2>4. Printed = SubSeq(F_buf, 1, q)
      BY <1>2 DEF Printed, ends
    <2>5. \A i \in 1..F_got : i \notin ends
      <3>1. SUFFICES ASSUME NEW i \in 1..F_got PROVE F_buf[i] # End
        BY DEF ends
      <3>2. F_buf[i] = F_written[n - F_got + i] /\ n - F_got + i \in 1..Len(F_written)
        BY <1>0 DEF BufferHas, F_TypeOK
      <3>3. F_written[n - F_got + i] \in F_Pieces
        BY <3>2 DEF F_TypeOK
      <3> QED
        BY <3>2, <3>3, PiecesAre
    <2>6. Min(ends) \in 1..PipeBuf /\ ~ (Min(ends) <= F_got)
      <3>1. Min(ends) \in 1..PipeBuf
        BY <2>1, <2>3
      <3>2. Min(ends) \notin 1..F_got
        BY <2>3, <2>5
      <3> QED
        BY <1>0, <3>1, <3>2
    <2> HIDE DEF q
    <2>7. q \in F_got..PipeBuf /\ \A i \in 1..q : i \in 1..PipeBuf /\ i < Min(ends)
      BY <1>0, <2>6 DEF q
    <2>8. \A i \in 1..q : F_buf[i] # End
      <3>1. \A i \in 1..q : i \notin ends
        <4>1. \A i \in 1..PipeBuf : i < Min(ends) => ~ (Min(ends) <= i)
          BY <1>0, <2>6
        <4> QED
          BY <2>3, <2>7, <4>1
      <3> QED
        BY <2>7, <3>1 DEF ends
    <2> QED
      BY <2>4, <2>7, <2>8
  <1> QED
    BY <1>1, <1>2

(* More was read of what was written, or something again.                   *)
LEMMA ReadGrows ==
    ASSUME F_TypeOK, F_Distinct, NEW n \in 0..Len(F_written), NEW S, NEW R \in Seq(S),
           HasFirst(R, n), NEW t \in Seq(S), n + Len(t) <= Len(F_written),
           \A i \in 1..Len(t) : t[i] = F_written[n + i]
    PROVE  HasFirst(R \o t, n + Len(t))
  <1> DEFINE Q == R \o t
             m == n + Len(t)
  <1>0. /\ n \in Nat /\ Len(R) \in Nat /\ Len(t) \in Nat /\ Len(F_written) \in Nat /\ m \in Nat
        /\ Len(Q) = Len(R) + Len(t)
        /\ \A i \in 1..Len(R) : Q[i] = R[i]
        /\ \A i \in 1..Len(t) : Q[Len(R) + i] = F_written[n + i]
    BY DEF F_TypeOK
  <1>1. \A i \in 1..Len(Q) : i \in 1..Len(R) \/ \E x \in 1..Len(t) : i = Len(R) + x
    <2>1. SUFFICES ASSUME NEW i \in 1..Len(Q), i \notin 1..Len(R)
                   PROVE  \E x \in 1..Len(t) : i = Len(R) + x
      OBVIOUS
    <2>2. i - Len(R) \in 1..Len(t) /\ i = Len(R) + (i - Len(R))
      BY <1>0, <2>1
    <2> QED
      BY <2>2
  <1>2. /\ \A k \in 1..n : k \in 1..m
        /\ \A k \in 1..m : k \in 1..Len(F_written)
        /\ \A x \in 1..Len(t) : n + x \in 1..m
        /\ \A k \in 1..m : k \in 1..n \/ (k - n \in 1..Len(t) /\ k = n + (k - n))
    BY <1>0
  <1> HIDE DEF Q, m
  <1>3. ASSUME NEW i \in 1..Len(Q)
        PROVE  Q[i] = F_NoPiece \/ \E k \in 1..m : Q[i] = F_written[k]
    <2>1. CASE i \in 1..Len(R)
      <3>1. R[i] = F_NoPiece \/ \E k \in 1..n : R[i] = F_written[k]
        BY <2>1 DEF HasFirst
      <3>2. Q[i] = R[i]
        BY <1>0, <2>1
      <3> QED
        BY <1>2, <3>1, <3>2
    <2>2. ASSUME NEW x \in 1..Len(t), i = Len(R) + x
          PROVE  \E k \in 1..m : Q[i] = F_written[k]
      BY <1>0, <1>2, <2>2
    <2> QED
      BY <1>1, <2>1, <2>2
  <1>4. ASSUME NEW k \in 1..m
        PROVE  \E i \in 1..Len(Q) : Q[i] = F_written[k]
    <2>1. CASE k \in 1..n
      <3>1. PICK i \in 1..Len(R) : R[i] = F_written[k]
        BY <2>1 DEF HasFirst
      <3>2. i \in 1..Len(Q)
        BY <1>0
      <3> QED
        BY <1>0, <3>1, <3>2
    <2>2. CASE k - n \in 1..Len(t) /\ k = n + (k - n)
      <3>1. Len(R) + (k - n) \in 1..Len(Q)
        BY <1>0, <2>2
      <3>2. Q[Len(R) + (k - n)] = F_written[n + (k - n)]
        BY <1>0, <2>2
      <3> QED
        BY <2>2, <3>1, <3>2
    <2> QED
      BY <1>2, <2>1, <2>2
  <1>5. ASSUME NEW i \in 1..Len(Q), NEW k \in 2..m, Q[i] = F_written[k]
        PROVE  \E h \in 1..(i - 1) : Q[h] = F_written[k - 1]
    <2>0. k \in 1..m /\ k \in 1..Len(F_written) /\ k - 1 \in 1..m
      BY <1>0, <1>2
    <2>1. CASE i \in 1..Len(R)
      <3>1. Q[i] # F_NoPiece
        <4>1. F_written[k] \in F_Pieces
          BY <2>0 DEF F_TypeOK
        <4> QED
          BY <1>5, <4>1, PiecesAre
      <3>2. PICK x \in 1..n : R[i] = F_written[x]
        BY <1>0, <2>1, <3>1 DEF HasFirst
      <3>3. x \in 1..Len(F_written) /\ F_written[x] = F_written[k]
        BY <1>0, <1>2, <1>5, <2>1, <3>2
      <3>4. x = k
        BY <2>0, <3>3 DEF F_Distinct
      <3>5. k \in 2..n
        BY <1>0, <3>4
      <3>6. PICK h \in 1..(i - 1) : R[h] = F_written[k - 1]
        BY <2>1, <3>2, <3>4, <3>5 DEF HasFirst
      <3>7. h \in 1..Len(R)
        BY <1>0, <2>1
      <3> QED
        BY <1>0, <3>6, <3>7
    <2>2. ASSUME NEW x \in 1..Len(t), i = Len(R) + x
          PROVE  \E h \in 1..(i - 1) : Q[h] = F_written[k - 1]
      <3>1. F_written[n + x] = F_written[k] /\ n + x \in 1..Len(F_written)
        BY <1>0, <1>2, <1>5, <2>2
      <3>2. n + x = k
        BY <2>0, <3>1 DEF F_Distinct
      <3>3. CASE x = 1
        <4>1. k - 1 = n /\ n \in 1..n
          BY <1>0, <3>2, <3>3
        <4>2. PICK h \in 1..Len(R) : R[h] = F_written[n]
          BY <4>1 DEF HasFirst
        <4>3. h \in 1..(i - 1)
          BY <1>0, <2>2, <3>3
        <4> QED
          BY <1>0, <4>1, <4>2, <4>3
      <3>4. CASE x # 1
        <4>1. x - 1 \in 1..Len(t) /\ n + (x - 1) = k - 1 /\ Len(R) + (x - 1) \in 1..(i - 1)
          BY <1>0, <2>2, <3>2, <3>4
        <4>2. Q[Len(R) + (x - 1)] = F_written[n + (x - 1)]
          BY <1>0, <4>1
        <4> QED
          BY <4>1, <4>2
      <3> QED
        BY <3>3, <3>4
    <2> QED
      BY <1>1, <2>1, <2>2
  <1> QED
    BY <1>3, <1>4, <1>5 DEF HasFirst, Q, m

(* What the master prints once more changes nothing of what it has.         *)
LEMMA ReadRepeats ==
    ASSUME F_TypeOK, NEW n \in 0..Len(F_written), NEW S, NEW R \in Seq(S),
           HasFirst(R, n), NEW t \in Seq(S),
           \A i \in 1..Len(t) : t[i] = F_NoPiece \/ \E k \in 1..n : t[i] = F_written[k]
    PROVE  HasFirst(R \o t, n)
  <1> DEFINE Q == R \o t
  <1>0. /\ n \in Nat /\ Len(R) \in Nat /\ Len(t) \in Nat
        /\ Len(Q) = Len(R) + Len(t)
        /\ \A i \in 1..Len(R) : Q[i] = R[i]
        /\ \A i \in 1..Len(t) : Q[Len(R) + i] = t[i]
    BY DEF F_TypeOK
  <1>1. \A i \in 1..Len(Q) :
           i \in 1..Len(R) \/ (i > Len(R) /\ \E x \in 1..Len(t) : i = Len(R) + x)
    <2>1. SUFFICES ASSUME NEW i \in 1..Len(Q), i \notin 1..Len(R)
                   PROVE  i > Len(R) /\ \E x \in 1..Len(t) : i = Len(R) + x
      OBVIOUS
    <2>2. i - Len(R) \in 1..Len(t) /\ i = Len(R) + (i - Len(R)) /\ i > Len(R)
      BY <1>0, <2>1
    <2> QED
      BY <2>2
  <1> HIDE DEF Q
  <1>2. ASSUME NEW i \in 1..Len(Q)
        PROVE  Q[i] = F_NoPiece \/ \E k \in 1..n : Q[i] = F_written[k]
    <2>1. CASE i \in 1..Len(R)
      <3>1. R[i] = F_NoPiece \/ \E k \in 1..n : R[i] = F_written[k]
        BY <2>1 DEF HasFirst
      <3> QED
        BY <1>0, <2>1, <3>1
    <2>2. ASSUME NEW x \in 1..Len(t), i = Len(R) + x
          PROVE  Q[i] = F_NoPiece \/ \E k \in 1..n : Q[i] = F_written[k]
      BY <1>0, <2>2
    <2> QED
      BY <1>1, <2>1, <2>2
  <1>3. \A k \in 1..n : \E i \in 1..Len(Q) : Q[i] = F_written[k]
    <2> SUFFICES ASSUME NEW k \in 1..n PROVE \E i \in 1..Len(Q) : Q[i] = F_written[k]
      OBVIOUS
    <2>1. PICK i \in 1..Len(R) : R[i] = F_written[k]
      BY DEF HasFirst
    <2>2. i \in 1..Len(Q)
      BY <1>0
    <2> QED
      BY <1>0, <2>1, <2>2
  <1>4. ASSUME NEW i \in 1..Len(Q), NEW k \in 2..n, Q[i] = F_written[k]
        PROVE  \E h \in 1..(i - 1) : Q[h] = F_written[k - 1]
    <2>1. CASE i \in 1..Len(R)
      <3>1. PICK h \in 1..(i - 1) : R[h] = F_written[k - 1]
        BY <1>0, <1>4, <2>1 DEF HasFirst
      <3>2. h \in 1..Len(R)
        BY <1>0, <2>1
      <3> QED
        BY <1>0, <3>1, <3>2
    <2>2. CASE i > Len(R)
      <3>1. k - 1 \in 1..n
        BY <1>0
      <3>2. PICK h \in 1..Len(R) : R[h] = F_written[k - 1]
        BY <3>1 DEF HasFirst
      <3>3. h \in 1..(i - 1)
        BY <1>0, <2>2
      <3> QED
        BY <1>0, <3>2, <3>3
    <2> QED
      BY <1>1, <2>1, <2>2
  <1> QED
    BY <1>2, <1>3, <1>4 DEF HasFirst, Q

(* What the master prints is among what it prints elements of.              *)
LEMMA PrintedType ==
    ASSUME F_TypeOK, NEW n \in 0..Len(F_written), BufferHas(n), F_master = "print"
    PROVE  \E t \in Seq(F_Pieces \union {F_NoPiece}) :
              /\ Printed = SubSeq(F_buf, 1, F_got) \o t
              /\ SubSeq(F_buf, 1, F_got) \in Seq(F_Pieces \union {F_NoPiece})
              /\ \A i \in 1..Len(t) : t[i] = F_NoPiece \/ \E k \in 1..n : t[i] = F_written[k]
  <1> DEFINE S == F_Pieces \union {F_NoPiece}
  <1>0. PipeBuf \in Nat /\ F_got \in 0..PipeBuf /\ F_got \in Nat
    BY FifoConstants DEF F_TypeOK
  <1>1. PICK q \in F_got..PipeBuf :
           Printed = SubSeq(F_buf, 1, q) /\ \A i \in 1..q : F_buf[i] # End
    BY PrintedIs
  <1>2. q \in Nat /\ F_got <= q /\ \A i \in 1..q : i \in 1..PipeBuf
    BY <1>0
  <1>3. \A i \in 1..q : F_buf[i] \in S
                        /\ (F_buf[i] = F_NoPiece \/ \E k \in 1..n : F_buf[i] = F_written[k])
    BY <1>1, <1>2 DEF F_TypeOK, BufferHas
  <1> DEFINE a == SubSeq(F_buf, 1, F_got)
             t == SubSeq(F_buf, F_got + 1, q)
             b == SubSeq(F_buf, 1, q)
  <1> HIDE DEF S
  <1>4. /\ a \in Seq(S) /\ Len(a) = F_got /\ \A i \in 1..F_got : a[i] = F_buf[i]
    <2>1. \A i \in 1..F_got : F_buf[i] \in S
      BY <1>0, <1>2, <1>3
    <2> QED
      BY <1>0, <2>1, SubSeqProperties
  <1>5. /\ t \in Seq(S) /\ Len(t) = q - F_got /\ \A i \in 1..(q - F_got) : t[i] = F_buf[F_got + i]
    <2>1. \A i \in (F_got + 1)..q : F_buf[i] \in S
      BY <1>0, <1>2, <1>3
    <2>2. /\ t \in Seq(S) /\ Len(t) = (IF F_got + 1 <= q THEN q - (F_got + 1) + 1 ELSE 0)
          /\ \A i \in 1..(q - (F_got + 1) + 1) : t[i] = F_buf[F_got + 1 + i - 1]
      BY <1>0, <1>2, <2>1, SubSeqProperties
    <2> HIDE DEF t
    <2> QED
      BY <1>0, <1>2, <2>2
  <1>6. /\ b \in Seq(S) /\ Len(b) = q /\ \A i \in 1..q : b[i] = F_buf[i]
    BY <1>2, <1>3, SubSeqProperties
  <1> HIDE DEF a, b, t
  <1>7. b = a \o t
    <2>1. a \o t \in Seq(S) /\ Len(a \o t) = q
      <3>1. F_got + (q - F_got) = q
        BY <1>0, <1>2
      <3> QED
        BY <1>4, <1>5, <3>1, ConcatProperties
    <2>2. \A i \in 1..q : b[i] = (a \o t)[i]
      <3> SUFFICES ASSUME NEW i \in 1..q PROVE b[i] = (a \o t)[i]
        OBVIOUS
      <3>1. CASE i <= F_got
        BY <1>0, <1>2, <1>4, <1>5, <1>6, <3>1
      <3>2. CASE i > F_got
        <4>1. i - F_got \in 1..(q - F_got) /\ F_got + (i - F_got) = i
          BY <1>0, <1>2, <3>2
        <4>2. (a \o t)[i] = t[i - F_got]
          BY <1>0, <1>2, <1>4, <1>5, <3>2
        <4> QED
          BY <1>5, <1>6, <4>1, <4>2
      <3>3. i <= F_got \/ i > F_got
        BY <1>0, <1>2
      <3> QED
        BY <3>1, <3>2, <3>3
    <2> QED
      BY <1>6, <2>1, <2>2, SeqEqual
  <1>8. \A i \in 1..Len(t) : t[i] = F_NoPiece \/ \E k \in 1..n : t[i] = F_written[k]
    <2>1. \A i \in 1..Len(t) : F_got + i \in 1..q /\ t[i] = F_buf[F_got + i]
      BY <1>0, <1>2, <1>5
    <2> QED
      BY <1>3, <2>1
  <1> QED
    BY <1>1, <1>4, <1>5, <1>7, <1>8 DEF S, a, b

(* What read takes.                                                         *)
LEMMA ReadTakes ==
    ASSUME F_TypeOK, M_Read
    PROVE  \E c \in 0..Len(F_content) :
              /\ c <= PipeBuf /\ F_got' = c
              /\ c = 0 => F_content = <<>>
              /\ F_buf' = [i \in 1..PipeBuf |-> IF i <= c THEN F_content[i] ELSE F_buf[i]]
              /\ F_content' = SubSeq(F_content, c + 1, Len(F_content))
              /\ F_content' \in Seq(F_Pieces)
              /\ F_master = "read" /\ F_master' = IF c = 0 THEN "close" ELSE "print"
              /\ c = 0 => Writers = {}
              /\ UNCHANGED <<F_name, F_shown, F_slaveVars>>
  <1> DEFINE c == IF Len(F_content) < PipeBuf THEN Len(F_content) ELSE PipeBuf
  <1>1. F_content \in Seq(F_Pieces) /\ Len(F_content) \in Nat /\ PipeBuf \in Nat \ {0}
    BY FifoConstants DEF F_TypeOK
  <1>2. c \in 0..Len(F_content) /\ c <= PipeBuf /\ (c = 0 => Len(F_content) = 0)
    BY <1>1
  <1>3. c = 0 => F_content = <<>>
    BY <1>1, <1>2
  <1>4. SubSeq(F_content, c + 1, Len(F_content)) \in Seq(F_Pieces)
    BY <1>1, <1>2
  <1>5. /\ F_got' = c
        /\ F_buf' = [i \in 1..PipeBuf |-> IF i <= c THEN F_content[i] ELSE F_buf[i]]
        /\ F_content' = SubSeq(F_content, c + 1, Len(F_content))
        /\ F_master = "read" /\ F_master' = IF c = 0 THEN "close" ELSE "print"
        /\ F_content # <<>> \/ Writers = {}
        /\ UNCHANGED <<F_name, F_shown, F_slaveVars>>
    BY DEF M_Read
  <1> HIDE DEF c
  <1> QED
    BY <1>2, <1>3, <1>4, <1>5

(* Types.                                                                   *)
LEMMA NextFTypeOK == ASSUME F_Inv, F_Next PROVE F_TypeOK'
  <1>0. F_TypeOK /\ PipeBuf \in Nat \ {0}
    BY FifoConstants DEF F_Inv
  <1>1. CASE M_Mkfifo \/ M_Open \/ M_Close \/ M_Remove
    <2>1. CASE M_Mkfifo \/ M_Remove
      BY <1>0, <2>1 DEF M_Mkfifo, M_Remove, F_TypeOK, F_slaveVars, F_file
    <2>2. CASE M_Open
      BY <1>0, <2>2 DEF M_Open, F_TypeOK, F_file
    <2>3. CASE M_Close
      BY <1>0, <2>3 DEF M_Close, F_TypeOK, F_slaveVars, F_file
    <2> QED
      BY <1>1, <2>1, <2>2, <2>3
  <1>2. CASE M_Read
    <2>1. PICK c \in 0..Len(F_content) :
              /\ c <= PipeBuf /\ F_got' = c
              /\ F_buf' = [i \in 1..PipeBuf |-> IF i <= c THEN F_content[i] ELSE F_buf[i]]
              /\ F_content' \in Seq(F_Pieces)
              /\ F_master' = IF c = 0 THEN "close" ELSE "print"
              /\ UNCHANGED <<F_name, F_shown, F_slaveVars>>
      BY <1>0, <1>2, ReadTakes
    <2>2. F_got' \in 0..PipeBuf
      BY <1>0, <2>1 DEF F_TypeOK
    <2>3. F_buf' \in [1..PipeBuf -> F_Pieces \union {End, F_NoPiece}]
      <3>1. \A i \in 1..PipeBuf : i <= c => F_content[i] \in F_Pieces
        BY <1>0 DEF F_TypeOK
      <3> QED
        BY <1>0, <2>1, <3>1 DEF F_TypeOK
    <2> QED
      BY <1>0, <2>1, <2>2, <2>3 DEF F_TypeOK, F_slaveVars
  <1>3. CASE M_Print
    <2>1. PICK n \in 0..Len(F_written) : F_Flow(n)
      BY DEF F_Inv
    <2>2. F_master = "print" /\ BufferHas(n)
      BY <1>3, <2>1 DEF M_Print, F_Flow
    <2>3. Printed \in Seq(F_Pieces \union {F_NoPiece})
      <3>1. PICK t \in Seq(F_Pieces \union {F_NoPiece}) :
               /\ Printed = SubSeq(F_buf, 1, F_got) \o t
               /\ SubSeq(F_buf, 1, F_got) \in Seq(F_Pieces \union {F_NoPiece})
        BY <1>0, <2>2, PrintedType
      <3> QED
        BY <3>1, ConcatProperties
    <2>4. F_shown' \in Seq(F_Pieces \union {F_NoPiece})
      BY <1>0, <1>3, <2>3 DEF M_Print, F_TypeOK
    <2> QED
      BY <1>0, <1>3, <2>4 DEF M_Print, F_TypeOK, F_slaveVars, F_file
  <1>4. ASSUME NEW s \in Slaves, S_Open(s) PROVE F_TypeOK'
    BY <1>0, <1>4 DEF S_Open, F_TypeOK, F_file
  <1>5. ASSUME NEW s \in Slaves, S_Write(s) PROVE F_TypeOK'
    <2>1. <<s, F_i[s], 1>> \in F_Pieces /\ <<s, F_i[s], 2>> \in F_Pieces
      BY <1>0 DEF F_TypeOK, F_Pieces
    <2>2. F_content' \in Seq(F_Pieces) /\ F_written' \in Seq(F_Pieces)
      BY <1>0, <1>5, <2>1 DEF S_Write, F_TypeOK
    <2>3. F_i' \in [Slaves -> Nat]
      BY <1>0, <1>5 DEF S_Write, F_TypeOK
    <2> QED
      BY <1>0, <1>5, <2>2, <2>3 DEF S_Write, F_TypeOK, F_masterVars
  <1>6. ASSUME NEW s \in Slaves, S_Killed(s) \/ S_Close(s) \/ S_Remove(s) PROVE F_TypeOK'
    BY <1>0, <1>6 DEF S_Killed, S_Close, S_Remove, F_TypeOK, F_file, F_masterVars
  <1> QED
    BY <1>1, <1>2, <1>3, <1>4, <1>5, <1>6 DEF F_Next, MasterStep, SlaveStep

(* Before the first read and after the last one.                            *)
LEMMA NextFPlaces == ASSUME F_Inv, F_Next PROVE F_Places'
  <1>0. F_TypeOK /\ F_Places
    BY DEF F_Inv
  <1>1. CASE M_Mkfifo \/ M_Open \/ M_Print \/ M_Close \/ M_Remove
    BY <1>0, <1>1
    DEF M_Mkfifo, M_Open, M_Print, M_Close, M_Remove, F_Places, F_slaveVars, F_file
  <1>2. CASE M_Read
    BY <1>0, <1>2, ReadTakes DEF F_Places, Writers, F_slaveVars
  <1>3. ASSUME NEW s \in Slaves, S_Open(s) PROVE F_Places'
    BY <1>0, <1>3 DEF S_Open, F_Places, F_TypeOK, F_file, Writers, Reading
  <1>4. ASSUME NEW s \in Slaves, S_Write(s) PROVE F_Places'
    BY <1>0, <1>4 DEF S_Write, F_Places, F_masterVars, Writers, Reading
  <1>5. ASSUME NEW s \in Slaves, S_Killed(s) \/ S_Close(s) \/ S_Remove(s) PROVE F_Places'
    BY <1>0, <1>5 DEF S_Killed, S_Close, S_Remove, F_Places, F_TypeOK, F_file,
                        F_masterVars, Writers
  <1> QED
    BY <1>1, <1>2, <1>3, <1>4, <1>5 DEF F_Next, MasterStep, SlaveStep

(* A line goes behind everything else.                                      *)
LEMMA WriteAppends ==
    ASSUME F_TypeOK, NEW s \in Slaves, S_Write(s)
    PROVE  /\ Len(F_written') = Len(F_written) + 2 /\ Len(F_content') = Len(F_content) + 2
           /\ \A k \in 1..Len(F_written) : F_written'[k] = F_written[k]
           /\ \A k \in 1..Len(F_content) : F_content'[k] = F_content[k]
           /\ \A x \in 1..2 : /\ F_written'[Len(F_written) + x] = <<s, F_i[s], x>>
                              /\ F_content'[Len(F_content) + x] = <<s, F_i[s], x>>
           /\ F_written' \in Seq(F_Pieces) /\ F_content' \in Seq(F_Pieces)
  <1> DEFINE t == <<<<s, F_i[s], 1>>, <<s, F_i[s], 2>>>>
  <1>1. F_written \in Seq(F_Pieces) /\ F_content \in Seq(F_Pieces)
    BY DEF F_TypeOK
  <1>2. t \in Seq(F_Pieces) /\ Len(t) = 2 /\ \A x \in 1..2 : t[x] = <<s, F_i[s], x>>
    <2>1. <<s, F_i[s], 1>> \in F_Pieces /\ <<s, F_i[s], 2>> \in F_Pieces
      BY DEF F_TypeOK, F_Pieces
    <2> QED
      BY <2>1
  <1>3. F_written' = F_written \o t /\ F_content' = F_content \o t
    BY DEF S_Write
  <1> HIDE DEF t
  <1>4. \A u \in Seq(F_Pieces) :
           /\ u \o t \in Seq(F_Pieces) /\ Len(u \o t) = Len(u) + 2
           /\ \A k \in 1..Len(u) : (u \o t)[k] = u[k]
           /\ \A x \in 1..2 : (u \o t)[Len(u) + x] = t[x]
    <2> SUFFICES ASSUME NEW u \in Seq(F_Pieces)
                 PROVE  /\ u \o t \in Seq(F_Pieces) /\ Len(u \o t) = Len(u) + 2
                        /\ \A k \in 1..Len(u) : (u \o t)[k] = u[k]
                        /\ \A x \in 1..2 : (u \o t)[Len(u) + x] = t[x]
      OBVIOUS
    <2>1. /\ u \o t \in Seq(F_Pieces) /\ Len(u \o t) = Len(u) + 2 /\ Len(u) \in Nat
          /\ \A i \in 1..(Len(u) + 2) : (u \o t)[i] = IF i <= Len(u) THEN u[i] ELSE t[i - Len(u)]
      <3>1. /\ u \o t \in Seq(F_Pieces) /\ Len(u \o t) = Len(u) + Len(t)
            /\ \A i \in 1..(Len(u) + Len(t)) :
                  (u \o t)[i] = IF i <= Len(u) THEN u[i] ELSE t[i - Len(u)]
        BY <1>2, ConcatProperties
      <3> QED
        BY <1>2, <3>1
    <2>2. \A k \in 1..Len(u) : k \in 1..(Len(u) + 2) /\ k <= Len(u)
      BY <2>1
    <2>3. \A x \in 1..2 : /\ Len(u) + x \in 1..(Len(u) + 2) /\ ~ (Len(u) + x <= Len(u))
                          /\ Len(u) + x - Len(u) = x
      BY <2>1
    <2> QED
      BY <2>1, <2>2, <2>3
  <1> QED
    BY <1>1, <1>2, <1>3, <1>4

(* No piece is written twice.                                               *)
LEMMA NextFDistinct == ASSUME F_Inv, F_Next PROVE F_Distinct'
  <1>0. F_TypeOK /\ F_Distinct
    BY DEF F_Inv
  <1>1. CASE MasterStep
    <2>1. UNCHANGED <<F_written, F_i>>
      BY <1>1 DEF MasterStep, M_Mkfifo, M_Open, M_Read, M_Print, M_Close, M_Remove, F_slaveVars
    <2> QED
      BY <1>0, <2>1 DEF F_Distinct
  <1>2. ASSUME NEW s \in Slaves, S_Open(s) \/ S_Killed(s) \/ S_Close(s) \/ S_Remove(s)
        PROVE  F_Distinct'
    <2>1. UNCHANGED <<F_written, F_i>>
      BY <1>2 DEF S_Open, S_Killed, S_Close, S_Remove
    <2> QED
      BY <1>0, <2>1 DEF F_Distinct
  <1>3. ASSUME NEW s \in Slaves, S_Write(s)
        PROVE  F_Distinct'
    <2> DEFINE l == Len(F_written)
    <2>1. /\ Len(F_written') = l + 2 /\ \A k \in 1..l : F_written'[k] = F_written[k]
          /\ \A x \in 1..2 : F_written'[l + x] = <<s, F_i[s], x>>
      BY <1>0, <1>3, WriteAppends
    <2>2. /\ l \in Nat /\ F_i[s] \in Nat /\ F_i'[s] = F_i[s] + 1
          /\ \A r \in Slaves : r # s => F_i'[r] = F_i[r]
      BY <1>0, <1>3 DEF F_TypeOK, S_Write
    <2>3. \A k \in 1..l : F_written[k][1] \in Slaves /\ F_written[k][2] \in Nat
                          /\ F_written[k][2] < F_i[F_written[k][1]]
      <3>1. \A k \in 1..l : F_written[k] \in F_Pieces
        BY <1>0 DEF F_TypeOK
      <3> QED
        BY <1>0, <3>1, PiecesAre DEF F_Distinct
    <2>4. \A k \in 1..Len(F_written') : k \in 1..l \/ \E x \in 1..2 : k = l + x
      BY <2>1, <2>2
    <2> HIDE DEF l
    <2>5. \A k \in 1..Len(F_written') : F_written'[k][2] < F_i'[F_written'[k][1]]
      <3> SUFFICES ASSUME NEW k \in 1..Len(F_written')
                   PROVE  F_written'[k][2] < F_i'[F_written'[k][1]]
        OBVIOUS
      <3>1. CASE k \in 1..l
        <4>1. F_written[k][1] = s \/ F_written[k][1] # s
          OBVIOUS
        <4> QED
          BY <2>1, <2>2, <2>3, <3>1, <4>1
      <3>2. ASSUME NEW x \in 1..2, k = l + x PROVE F_written'[k][2] < F_i'[F_written'[k][1]]
        BY <2>1, <2>2, <3>2
      <3> QED
        BY <2>4, <3>1, <3>2
    <2>6. ASSUME NEW k \in 1..Len(F_written'), NEW m \in 1..Len(F_written'),
                 F_written'[k] = F_written'[m]
          PROVE  k = m
      <3>1. ASSUME NEW a \in 1..l, NEW x \in 1..2 PROVE F_written'[a] # F_written'[l + x]
        <4>1. F_written'[l + x] = <<s, F_i[s], x>> /\ F_written'[a] = F_written[a]
          BY <2>1
        <4>2. F_written[a] = <<s, F_i[s], x>> => F_i[s] < F_i[s]
          BY <2>3
        <4> QED
          BY <2>2, <4>1, <4>2
      <3>2. CASE k \in 1..l /\ m \in 1..l
        BY <1>0, <2>1, <2>6, <3>2 DEF F_Distinct, l
      <3>3. ASSUME NEW x \in 1..2, NEW y \in 1..2, k = l + x, m = l + y PROVE k = m
        <4>1. <<s, F_i[s], x>> = <<s, F_i[s], y>>
          BY <2>1, <2>6, <3>3
        <4> QED
          BY <3>3, <4>1
      <3> QED
        BY <2>4, <2>6, <3>1, <3>2, <3>3
    <2> QED
      BY <2>5, <2>6 DEF F_Distinct
  <1> QED
    BY <1>1, <1>2, <1>3 DEF F_Next, SlaveStep

(* What was read stays the beginning of what was written.                   *)
LEMMA NextFFlow ==
    ASSUME F_Inv, F_Next, NEW n \in 0..Len(F_written), F_Flow(n)
    PROVE  \E m \in 0..Len(F_written') : F_Flow(m)'
  <1> DEFINE total == Len(F_written)
  <1>0. /\ F_TypeOK /\ F_Places /\ F_Distinct /\ PipeBuf \in Nat \ {0} /\ n \in Nat /\ n <= total
        /\ total \in Nat /\ F_written \in Seq(F_Pieces) /\ F_content \in Seq(F_Pieces)
        /\ HasFirst(Read, n) /\ BufferHas(n)
    BY FifoConstants DEF F_Inv, F_TypeOK, F_Flow
  <1>1. ASSUME UNCHANGED <<F_written, F_content, F_buf, F_got, Read>>,
               F_late \subseteq F_late', F_master # "close",
               F_master' = "print" <=> F_master = "print",
               Reading' => Reading \/ (F_content = <<>> /\ F_written = <<>>),
               F_master \in {"opening", "read", "print"} =>
                   F_master' \in {"opening", "read", "print"}
        PROVE  F_Flow(n)'
    <2>1. HasFirst(Read, n)' /\ BufferHas(n)'
      <3>1. BufferHas(n)'
        BY <1>0, <1>1 DEF BufferHas
      <3>2. Read' = Read /\ F_written' = F_written
        BY <1>1
      <3> HIDE DEF Read
      <3>3. HasFirst(Read, n)'
        BY <1>0, <3>2 DEF HasFirst
      <3> QED
        BY <3>1, <3>3
    <2>2. Reading' => F_content' = SubSeq(F_written', n + 1, Len(F_written'))
      BY <1>0, <1>1 DEF F_Flow
    <2> QED
      BY <1>1, <2>1, <2>2 DEF F_Flow
  <1>2. CASE M_Mkfifo \/ M_Open
    <2>1. /\ UNCHANGED <<F_written, F_content, F_buf, F_got, F_shown, F_late>>
          /\ F_master \in {"mkfifo", "open"} /\ F_master' \in {"open", "opening", "read"}
      BY <1>2 DEF M_Mkfifo, M_Open, F_slaveVars, F_file
    <2>2. Read' = Read
      BY <2>1 DEF Read
    <2> QED
      BY <1>0, <1>1, <2>1, <2>2 DEF F_Places
  <1>3. CASE M_Remove
    <2>1. /\ UNCHANGED <<F_written, F_content, F_buf, F_got, F_shown, F_late>>
          /\ F_master = "remove" /\ F_master' = "done"
      BY <1>3 DEF M_Remove, F_slaveVars, F_file
    <2>2. Read' = Read
      BY <2>1 DEF Read
    <2> QED
      BY <1>0, <1>1, <2>1, <2>2 DEF Reading
  <1>4. CASE M_Close
    <2>1. /\ UNCHANGED <<F_written, F_buf, F_got, F_shown, F_late>>
          /\ F_master = "close" /\ F_master' = "remove"
      BY <1>4 DEF M_Close, F_slaveVars
    <2>2. Read' = Read
      BY <2>1 DEF Read
    <2>3. HasFirst(Read, n)' /\ BufferHas(n)'
      BY <1>0, <2>1, <2>2 DEF HasFirst, BufferHas
    <2>4. ~ Reading'
      BY <2>1 DEF Reading
    <2>5. F_Flow(n)'
      BY <2>1, <2>3, <2>4 DEF F_Flow
    <2> QED
      BY <2>1, <2>5
  <1>5. CASE M_Print
    <2>1. /\ UNCHANGED <<F_written, F_content, F_buf, F_got, F_late>>
          /\ F_master = "print" /\ F_master' = "read" /\ F_shown' = F_shown \o Printed
      BY <1>5 DEF M_Print, F_slaveVars, F_file
    <2> DEFINE S == F_Pieces \union {F_NoPiece}
               a == SubSeq(F_buf, 1, F_got)
    <2>2. PICK t \in Seq(S) :
             /\ Printed = a \o t /\ a \in Seq(S)
             /\ \A i \in 1..Len(t) : t[i] = F_NoPiece \/ \E k \in 1..n : t[i] = F_written[k]
      BY <1>0, <2>1, PrintedType
    <2>3. Read = F_shown \o a /\ F_shown \in Seq(S)
      BY <1>0, <2>1 DEF Read, F_TypeOK
    <2> HIDE DEF S, a
    <2>4. F_shown' = Read \o t /\ Read \in Seq(S)
      <3>0. F_shown \in Seq(S) /\ a \in Seq(S) /\ t \in Seq(S)
        BY <2>2, <2>3
      <3>1. F_shown \o a \in Seq(S)
        BY <3>0, ConcatProperties
      <3>2. F_shown \o (a \o t) = (F_shown \o a) \o t
        BY <3>0, ConcatAssociative
      <3> QED
        BY <2>1, <2>2, <2>3, <3>1, <3>2
    <2>5. HasFirst(Read \o t, n)
      BY <1>0, <2>2, <2>4, ReadRepeats
    <2>6. Read' = Read \o t
      <3>1. F_shown' \in Seq(S)
        BY <2>2, <2>4, ConcatProperties
      <3> QED
        BY <2>1, <2>4, <3>1, ConcatEmptySeq DEF Read
    <2>7. HasFirst(Read, n)' /\ BufferHas(n)'
      <3>1. BufferHas(n)'
        BY <1>0, <2>1 DEF BufferHas
      <3>2. HasFirst(Read, n)'
        BY <2>1, <2>5, <2>6 DEF HasFirst
      <3> QED
        BY <3>1, <3>2
    <2>8. F_Flow(n)'
      BY <2>1, <2>7 DEF F_Flow, Reading
    <2> QED
      BY <2>1, <2>8
  <1>6. ASSUME NEW s \in Slaves, S_Killed(s) \/ S_Close(s) \/ S_Remove(s) \/ S_Open(s)
        PROVE  F_Flow(n)' /\ F_written' = F_written
    <2>1. /\ UNCHANGED <<F_written, F_content, F_buf, F_got, F_shown>> /\ F_late \subseteq F_late'
          /\ F_master' = F_master \/ (F_master = "opening" /\ F_master' = "read")
      BY <1>6 DEF S_Killed, S_Close, S_Remove, S_Open, F_file, F_masterVars
    <2>2. Read' = Read /\ (Reading' <=> Reading)
      BY <2>1 DEF Read, Reading
    <2>3. HasFirst(Read, n)' /\ BufferHas(n)'
      BY <1>0, <2>1, <2>2 DEF HasFirst, BufferHas
    <2> QED
      BY <2>1, <2>2, <2>3 DEF F_Flow
  <1>7. \A i \in 1..(total - n) :
           n + i \in 1..total /\ (Reading => F_content[i] = F_written[n + i])
    <2>1. \A i \in 1..(total - n) :
               n + i \in 1..total /\ SubSeq(F_written, n + 1, total)[i] = F_written[n + i]
      BY <1>0
    <2> QED
      BY <2>1 DEF F_Flow
  <1>8. Reading => Len(F_content) = total - n
    BY <1>0 DEF F_Flow
  <1>9. ASSUME NEW s \in Slaves, S_Write(s)
        PROVE  F_Flow(n)' /\ n \in 0..Len(F_written')
    <2>1. /\ UNCHANGED <<F_master, F_buf, F_got, F_shown, F_late>> /\ Reading
          /\ F_slave[s] = "write"
      BY <1>9 DEF S_Write, F_masterVars
    <2>2. /\ Len(F_written') = total + 2 /\ Len(F_content') = Len(F_content) + 2
          /\ \A k \in 1..total : F_written'[k] = F_written[k]
          /\ \A k \in 1..Len(F_content) : F_content'[k] = F_content[k]
          /\ \A x \in 1..2 : /\ F_written'[total + x] = <<s, F_i[s], x>>
                             /\ F_content'[Len(F_content) + x] = <<s, F_i[s], x>>
          /\ F_written' \in Seq(F_Pieces) /\ F_content' \in Seq(F_Pieces)
      BY <1>0, <1>9, WriteAppends
    <2>3. Read' = Read /\ Reading'
      BY <2>1 DEF Read, Reading
    <2>4. \A k \in 1..n : F_written'[k] = F_written[k]
      BY <1>0, <2>2
    <2>5. HasFirst(Read, n)'
      <3>1. \A k \in 2..n : k \in 1..n /\ k - 1 \in 1..n
        BY <1>0
      <3>2. \A i \in 1..Len(Read) : Read[i] = F_NoPiece \/ \E k \in 1..n : Read[i] = F_written'[k]
        <4>1. \A i \in 1..Len(Read) :
                 Read[i] = F_NoPiece \/ \E k \in 1..n : Read[i] = F_written[k]
          BY <1>0 DEF HasFirst
        <4> QED
          BY <2>4, <4>1
      <3>3. \A k \in 1..n : \E i \in 1..Len(Read) : Read[i] = F_written'[k]
        <4>1. \A k \in 1..n : \E i \in 1..Len(Read) : Read[i] = F_written[k]
          BY <1>0 DEF HasFirst
        <4> QED
          BY <2>4, <4>1
      <3>4. \A i \in 1..Len(Read), k \in 2..n :
               Read[i] = F_written'[k] => \E h \in 1..(i - 1) : Read[h] = F_written'[k - 1]
        <4>1. \A i \in 1..Len(Read), k \in 2..n :
                 Read[i] = F_written[k] => \E h \in 1..(i - 1) : Read[h] = F_written[k - 1]
          BY <1>0 DEF HasFirst
        <4> QED
          BY <2>4, <3>1, <4>1
      <3> QED
        BY <2>3, <3>2, <3>3, <3>4 DEF HasFirst
    <2>6. BufferHas(n)'
      <3>1. F_got <= n => \A i \in 1..F_got : n - F_got + i \in 1..n
        BY <1>0 DEF F_TypeOK
      <3> QED
        BY <1>0, <2>1, <2>4, <3>1 DEF BufferHas
    <2>7. F_content' = SubSeq(F_written', n + 1, Len(F_written'))
      <3> DEFINE u == SubSeq(F_written', n + 1, total + 2)
      <3>1. /\ u \in Seq(F_Pieces) /\ Len(u) = total - n + 2
            /\ \A i \in 1..(total - n + 2) : u[i] = F_written'[n + i]
        BY <1>0, <2>2
      <3> HIDE DEF u
      <3>2. Len(F_content') = total - n + 2
        BY <1>8, <2>1, <2>2
      <3>3. \A i \in 1..(total - n + 2) : F_content'[i] = u[i]
        <4> SUFFICES ASSUME NEW i \in 1..(total - n + 2) PROVE F_content'[i] = F_written'[n + i]
          BY <3>1
        <4>1. CASE i \in 1..(total - n)
          BY <1>7, <1>8, <2>1, <2>2, <4>1
        <4>2. CASE i \notin 1..(total - n)
          <5> DEFINE h == i - (total - n)
          <5>1. h \in 1..2 /\ total - n + h = i /\ total + h = n + i
            BY <1>0, <4>2
          <5> HIDE DEF h
          <5>2. F_content'[total - n + h] = F_written'[total + h]
            BY <1>8, <2>1, <2>2, <5>1
          <5> QED
            BY <5>1, <5>2
        <4> QED
          BY <4>1, <4>2
      <3> QED
        BY <2>2, <3>1, <3>2, <3>3, SeqEqual DEF u
    <2>8. ASSUME NEW k \in (n + 1)..Len(F_written')
          PROVE  F_master \in {"opening", "read", "print"} \/ F_written'[k][1] \in F_late
      <3>1. CASE k \in (n + 1)..total
        <4>1. F_written'[k] = F_written[k]
          BY <1>0, <2>2, <3>1
        <4> QED
          BY <3>1, <4>1 DEF F_Flow
      <3>2. CASE k \notin (n + 1)..total
        <4>1. k - total \in 1..2 /\ total + (k - total) = k
          BY <1>0, <2>2, <3>2
        <4>2. F_written'[k][1] = s
          BY <2>2, <4>1
        <4>3. F_master # "close" => F_master \in {"opening", "read", "print"}
          BY <2>1 DEF Reading
        <4>4. s \in Writers
          BY <2>1 DEF Writers
        <4> QED
          BY <1>0, <4>2, <4>3, <4>4 DEF F_Places
      <3> QED
        BY <3>1, <3>2
    <2> QED
      BY <1>0, <2>1, <2>2, <2>3, <2>5, <2>6, <2>7, <2>8 DEF F_Flow
  <1>10. CASE M_Read
    <2>1. PICK c \in 0..Len(F_content) :
              /\ c <= PipeBuf /\ F_got' = c
              /\ c = 0 => F_content = <<>>
              /\ F_buf' = [i \in 1..PipeBuf |-> IF i <= c THEN F_content[i] ELSE F_buf[i]]
              /\ F_content' = SubSeq(F_content, c + 1, Len(F_content))
              /\ F_content' \in Seq(F_Pieces)
              /\ F_master = "read" /\ F_master' = IF c = 0 THEN "close" ELSE "print"
              /\ UNCHANGED <<F_shown, F_slaveVars>>
      BY <1>0, <1>10, ReadTakes
    <2>2. Reading /\ F_written' = F_written /\ F_late' = F_late /\ c \in Nat
      BY <1>0, <2>1 DEF Reading, F_slaveVars
    <2>3. PICK m : m = n + c
      OBVIOUS
    <2>4. m \in 0..total /\ m \in Nat /\ c <= total - n
      BY <1>0, <1>8, <2>1, <2>2, <2>3
    <2>5. \A i \in 1..c : /\ i \in 1..PipeBuf /\ F_buf'[i] = F_content[i] /\ n + i \in 1..m
                          /\ F_content[i] = F_written[n + i] /\ F_buf'[i] \in F_Pieces
      <3>1. \A i \in 1..c : i \in 1..PipeBuf /\ i <= c /\ i \in 1..(total - n) /\ n + i \in 1..m
        BY <1>0, <2>1, <2>2, <2>3, <2>4
      <3>2. \A i \in 1..c : F_buf'[i] = F_content[i] /\ F_content[i] \in F_Pieces
        BY <1>0, <1>8, <2>1, <2>2, <3>1
      <3> QED
        BY <1>7, <2>2, <3>1, <3>2
    <2> DEFINE S == F_Pieces \union {F_NoPiece}
               t == SubSeq(F_buf', 1, c)
    <2>6. t \in Seq(S) /\ Len(t) = c /\ \A i \in 1..c : t[i] = F_written[n + i]
      <3>1. \A i \in 1..c : F_buf'[i] \in S
        BY <2>5
      <3>2. /\ t \in Seq(S) /\ Len(t) = (IF 1 <= c THEN c - 1 + 1 ELSE 0)
            /\ \A i \in 1..(c - 1 + 1) : t[i] = F_buf'[1 + i - 1]
        BY <2>2, <3>1, SubSeqProperties
      <3> HIDE DEF t
      <3>3. /\ c - 1 + 1 = c /\ (IF 1 <= c THEN c - 1 + 1 ELSE 0) = c
            /\ \A i \in 1..c : 1 + i - 1 = i
        BY <2>2
      <3> QED
        BY <2>5, <3>2, <3>3
    <2> HIDE DEF t, S
    <2>7. Read = F_shown /\ F_shown \in Seq(S)
      <3>1. F_shown \in Seq(S)
        BY <1>0 DEF F_TypeOK, S
      <3> QED
        BY <2>1, <3>1, ConcatEmptySeq DEF Read
    <2>8. Read' = F_shown \o t
      <3>1. CASE c = 0
        <4>1. t = <<>>
          BY <2>6, <3>1
        <4> QED
          BY <2>1, <3>1, <4>1 DEF Read
      <3>2. CASE c # 0
        BY <2>1, <3>2 DEF Read, t
      <3> QED
        BY <3>1, <3>2
    <2>9. HasFirst(Read, m)'
      <3>1. HasFirst(F_shown \o t, n + Len(t))
        <4>1. n + Len(t) <= Len(F_written)
          BY <1>0, <2>3, <2>4, <2>6
        <4>2. HasFirst(F_shown, n)
          BY <1>0, <2>7
        <4>3. n \in 0..Len(F_written) /\ \A i \in 1..Len(t) : t[i] = F_written[n + i]
          BY <2>6
        <4>4. F_TypeOK /\ F_Distinct
          BY <1>0
        <4> QED
          BY <2>6, <2>7, <4>1, <4>2, <4>3, <4>4, ReadGrows
      <3> QED
        BY <2>2, <2>3, <2>6, <2>8, <3>1 DEF HasFirst
    <2>10. BufferHas(m)'
      <3>1. ASSUME NEW i \in 1..PipeBuf
            PROVE  F_buf'[i] \in {End, F_NoPiece} \/ \E k \in 1..m : F_buf'[i] = F_written[k]
        <4>1. CASE i <= c
          <5>1. i \in 1..c
            BY <2>2, <4>1
          <5> QED
            BY <2>5, <5>1
        <4>2. CASE ~ (i <= c)
          <5>1. F_buf'[i] = F_buf[i] /\ \A k \in 1..n : k \in 1..m
            BY <1>0, <2>1, <2>2, <2>3, <4>2
          <5> QED
            BY <1>0, <5>1 DEF BufferHas
        <4> QED
          BY <4>1, <4>2
      <3>2. c <= m /\ \A i \in 1..c : m - c + i = n + i
        BY <1>0, <2>2, <2>3
      <3> QED
        BY <2>1, <2>2, <2>5, <3>1, <3>2 DEF BufferHas
    <2>11. F_content' = SubSeq(F_written, m + 1, total)
      <3> DEFINE u == SubSeq(F_written, m + 1, total)
                 v == SubSeq(F_content, c + 1, Len(F_content))
      <3>1. /\ u \in Seq(F_Pieces) /\ Len(u) = total - m
            /\ \A i \in 1..(total - m) : u[i] = F_written[m + i]
        BY <1>0, <2>4
      <3>2. /\ v \in Seq(F_Pieces) /\ Len(v) = total - n - c
            /\ \A i \in 1..(total - n - c) : v[i] = F_content[c + i]
        <4>1. Len(F_content) = total - n
          BY <1>8, <2>2
        <4>2. \A i \in (c + 1)..(total - n) : F_content[i] \in F_Pieces
          BY <1>0, <2>2, <4>1
        <4>3. /\ v \in Seq(F_Pieces)
              /\ Len(v) = IF c + 1 <= total - n THEN total - n - (c + 1) + 1 ELSE 0
              /\ \A i \in 1..(total - n - (c + 1) + 1) : v[i] = F_content[c + 1 + i - 1]
          BY <1>0, <2>2, <4>1, <4>2, SubSeqProperties
        <4> HIDE DEF v
        <4>4. total - n - (c + 1) + 1 = total - n - c /\ (c + 1 <= total - n \/ total - n - c = 0)
          BY <1>0, <2>2, <2>4
        <4>5. Len(v) = total - n - c
          BY <4>3, <4>4
        <4>6. \A i \in 1..(total - n - c) :
                 v[i] = F_content[c + 1 + i - 1] /\ c + 1 + i - 1 = c + i
          <5>1. \A i \in 1..(total - n - c) : v[i] = F_content[c + 1 + i - 1]
            BY <4>3, <4>4
          <5>2. \A i \in Int : c + 1 + i - 1 = c + i
            BY <2>2
          <5>3. \A i \in 1..(total - n - c) : i \in Int
            OBVIOUS
          <5> QED
            BY <5>1, <5>2, <5>3, Zenon
        <4> QED
          BY <4>3, <4>5, <4>6
      <3> HIDE DEF u, v
      <3>3. \A i \in 1..(total - m) : /\ i \in 1..(total - n - c) /\ c + i \in 1..(total - n)
                                  /\ n + (c + i) = m + i
        BY <1>0, <2>2, <2>3, <2>4
      <3>4. total - n - c = total - m
        BY <1>0, <2>2, <2>3
      <3>5. \A i \in 1..(total - m) : u[i] = v[i]
        BY <1>7, <2>2, <3>1, <3>2, <3>3
      <3>6. u = v
        BY <3>1, <3>2, <3>4, <3>5, SeqEqual
      <3> QED
        BY <2>1, <3>6 DEF u, v
    <2>12. ASSUME NEW k \in (m + 1)..total
           PROVE  F_master' \in {"opening", "read", "print"} \/ F_written[k][1] \in F_late
      <3>1. c # 0
        <4>1. c = 0 => total - n = 0
          BY <1>8, <2>1, <2>2
        <4> QED
          BY <1>0, <2>3, <2>4, <2>12, <4>1
      <3> QED
        BY <2>1, <3>1
    <2>13. F_Flow(m)'
      BY <2>2, <2>9, <2>10, <2>11, <2>12 DEF F_Flow
    <2> QED
      BY <2>2, <2>4, <2>13
  <1> QED
    BY <1>2, <1>3, <1>4, <1>5, <1>6, <1>9, <1>10 DEF F_Next, MasterStep, SlaveStep

(* Nothing has been read or written at the start.                           *)
LEMMA InitFInv == F_Init => F_Inv
  <1> SUFFICES ASSUME F_Init PROVE F_Inv
    OBVIOUS
  <1>0. /\ F_content = <<>> /\ F_written = <<>> /\ F_shown = <<>> /\ F_master = "mkfifo"
        /\ F_buf \in [1..PipeBuf -> {End, F_NoPiece}] /\ PipeBuf \in Nat \ {0}
    BY FifoConstants DEF F_Init
  <1>1. F_TypeOK
    <2>1. F_lines \in [Slaves -> Nat] /\ F_i \in [Slaves -> Nat]
      BY FifoConstants DEF F_Init
    <2>2. /\ <<>> \in Seq(F_Pieces) /\ <<>> \in Seq(F_Pieces \union {F_NoPiece})
          /\ F_got \in 0..PipeBuf
      BY <1>0 DEF F_Init
    <2> QED
      BY <1>0, <2>1, <2>2 DEF F_Init, F_TypeOK
  <1>2. F_Places /\ F_Distinct
    BY <1>0 DEF F_Places, F_Distinct
  <1>3. Read = <<>>
    BY <1>0 DEF Read
  <1>4. F_Flow(0)
    BY <1>0, <1>3 DEF F_Flow, HasFirst, BufferHas, Reading
  <1>5. 0 \in 0..Len(F_written)
    BY <1>0
  <1> QED
    BY <1>1, <1>2, <1>4, <1>5 DEF F_Inv

(* Every step keeps the invariant.                                          *)
LEMMA NextFInv == F_Inv /\ [F_Next]_F_vars => F_Inv'
  <1> SUFFICES ASSUME F_Inv, [F_Next]_F_vars PROVE F_Inv'
    OBVIOUS
  <1>1. CASE F_Next
    <2>1. PICK n \in 0..Len(F_written) : F_Flow(n)
      BY DEF F_Inv
    <2>2. \E m \in 0..Len(F_written') : F_Flow(m)'
      BY <1>1, <2>1, NextFFlow
    <2> QED
      BY <1>1, <2>2, NextFTypeOK, NextFPlaces, NextFDistinct DEF F_Inv
  <1>2. CASE UNCHANGED F_vars
    <2> USE <1>2 DEF F_vars, F_file, F_masterVars, F_slaveVars
    <2>1. F_TypeOK' /\ F_Places' /\ F_Distinct'
      BY DEF F_Inv, F_TypeOK, F_Places, F_Distinct, Writers
    <2>2. PICK n \in 0..Len(F_written) : F_Flow(n)
      BY DEF F_Inv
    <2>3. F_Flow(n)'
      <3>0. Read' = Read
        BY DEF Read
      <3>1. HasFirst(Read, n) => HasFirst(Read, n)'
        BY <3>0 DEF HasFirst
      <3>2. BufferHas(n) => BufferHas(n)'
        BY DEF BufferHas
      <3> QED
        BY <2>2, <3>1, <3>2 DEF F_Flow, Reading
    <2>4. n \in 0..Len(F_written')
      BY <2>2
    <2> QED
      BY <2>1, <2>3, <2>4 DEF F_Inv
  <1> QED
    BY <1>1, <1>2

(* The invariant says what the property asks.                               *)
LEMMA FInvImplies == F_Inv => NothingLost
  <1> SUFFICES ASSUME F_Inv PROVE NothingLost
    OBVIOUS
  <1>1. PICK n \in 0..Len(F_written) : F_Flow(n)
    BY DEF F_Inv
  <1>2. F_TypeOK /\ HasFirst(Read, n)
    BY <1>1 DEF F_Inv, F_Flow
  <1>3. DOMAIN Read = 1..Len(Read)
    <2> DEFINE S == F_Pieces \union {End, F_NoPiece}
               a == SubSeq(F_buf, 1, F_got)
    <2>1. F_shown \in Seq(S)
      BY <1>2 DEF F_TypeOK
    <2>2. a \in Seq(S)
      <3>1. F_got \in Int /\ \A i \in 1..F_got : F_buf[i] \in S
        BY <1>2, FifoConstants DEF F_TypeOK
      <3> QED
        BY <3>1, SubSeqProperties
    <2> HIDE DEF S, a
    <2>3. Read \in Seq(S)
      <3>1. F_shown \o a \in Seq(S) /\ F_shown \o <<>> \in Seq(S)
        BY <2>1, <2>2, ConcatProperties, ConcatEmptySeq
      <3> QED
        BY <3>1 DEF Read, a
    <2> QED
      BY <2>3
  <1>4. \A k \in 1..n : F_written[k] # F_NoPiece
    <2>1. \A k \in 1..n : F_written[k] \in F_Pieces
      BY <1>2 DEF F_TypeOK
    <2> QED
      BY <2>1, PiecesAre
  <1>5. ToSet(Read) \ {F_NoPiece} = {F_written[k] : k \in 1..n}
    <2>1. ToSet(Read) = {Read[i] : i \in 1..Len(Read)}
      BY <1>3 DEF ToSet
    <2>2. ASSUME NEW i \in 1..Len(Read), Read[i] # F_NoPiece
          PROVE  Read[i] \in {F_written[k] : k \in 1..n}
      BY <1>2, <2>2 DEF HasFirst
    <2>3. ASSUME NEW k \in 1..n
          PROVE  F_written[k] \in {Read[i] : i \in 1..Len(Read)}
      <3>1. PICK i \in 1..Len(Read) : Read[i] = F_written[k]
        BY <1>2 DEF HasFirst
      <3> QED
        BY <3>1
    <2> QED
      BY <1>4, <2>1, <2>2, <2>3
  <1>6. \A i \in DOMAIN Read, k \in 2..n :
           Read[i] = F_written[k] => \E h \in 1..(i - 1) : Read[h] = F_written[k - 1]
    BY <1>2, <1>3 DEF HasFirst
  <1>7. \A k \in (n + 1)..Len(F_written) : Reading \/ F_written[k][1] \in F_late
    BY <1>1 DEF F_Flow, Reading
  <1>8. Reading => F_content = SubSeq(F_written, n + 1, Len(F_written))
    BY <1>1 DEF F_Flow
  <1> QED
    BY <1>5, <1>6, <1>7, <1>8 DEF NothingLost

(* The FIFO of cw05/zad2: for any number of slaves and lines, every size of *)
(* the buffer and everything that may have been in it, what slaves write    *)
(* reaches the master in order, and only a slave that opens the FIFO after  *)
(* the master has seen its end writes for nobody.                           *)
THEOREM FifoLosesNothing == F_Spec => []NothingLost
  <1> QED
    BY InitFInv, NextFInv, FInvImplies, PTL DEF F_Spec

-----------------------------------------------------------------------------
(* The runner of pipelines.                                                 *)

L_Ends == {"closed", "tty", "script", "read", "write"} \X Nat
L_Tables == [FDs -> L_Ends]

(* What pipes[n] may hold: what was there on entry, or what pipe returns.   *)
L_Pairs == {<<g, g>> : g \in Garbage} \union {PipeFds(t) : t \in L_Tables}

L_Kids ==
    [line : Nat, n : Nat, of : Nat, at : {"forked", "runs", "ended"}, fd : L_Tables,
     pipes : [0..1 -> L_Pairs], left : Nat, program : Programs, todo : Nat, got : Nat,
     printed : Nat, status : Nat, own : Nat]

L_TypeOK ==
    /\ script \in Scripts /\ offset \in Nat /\ offset <= Len(script)
    /\ buffered \in Seq(1..Len(script)) /\ ran \in Seq(1..Len(script))
    /\ phase \in {"getline", "vfork", "build", "wait", "done"}
    /\ line \in Seq(Programs) /\ j \in Nat
    /\ pipes \in [0..1 -> L_Pairs] /\ fd \in L_Tables
    /\ kids \in Seq(L_Kids) /\ content \in Seq(Nat) /\ rewound \in BOOLEAN

(* A child is one of the programs of a line,                                *)
IsOfLine(kid) ==
    /\ kid.line \in 1..Len(script) /\ kid.of = Len(script[kid.line])
    /\ kid.n < kid.of /\ kid.program = script[kid.line][kid.n + 1]

(* the next program of the same line,                                       *)
Follows(kid, prev) ==
    /\ kid.line = prev.line /\ kid.of = prev.of /\ kid.n = prev.n + 1 /\ kid.own = prev.own + 1

(* and all of them are started in this order, each with a pipe of its own.  *)
RunnerInOrder ==
    /\ phase = "vfork" => Len(line) = 1
    /\ phase = "build" => Len(line) > 1 /\ j <= Len(line)
    /\ phase \in {"vfork", "build"} => ran # <<>> /\ line = script[Last(ran)]
    /\ phase = "build" /\ j > 0 =>
          /\ kids # <<>> /\ kids[Len(kids)].n = j - 1 /\ kids[Len(kids)].of = Len(line)
          /\ kids[Len(kids)].line = Last(ran) /\ kids[Len(kids)].own = Len(content)
    /\ phase = "wait" => kids # <<>> /\ kids[Len(kids)].n = kids[Len(kids)].of - 1
KidInOrder(k) ==
    /\ IsOfLine(kids[k])
    /\ kids[k].own <= Len(content) /\ (kids[k].own = 0 <=> kids[k].of = 1)
    /\ kids[k].n > 0 => k > 1 /\ Follows(kids[k], kids[k - 1])
    /\ kids[k].n < kids[k].of - 1 =>
          \/ k < Len(kids) /\ Follows(kids[k + 1], kids[k])
          \/ k = Len(kids) /\ phase = "build" /\ j = kids[k].n + 1
PipesInOrder ==
    \A k, m \in 1..Len(kids) : k < m /\ kids[m].own > 0 => kids[k].own < kids[m].own
L_Order == RunnerInOrder /\ (\A k \in 1..Len(kids) : KidInOrder(k)) /\ PipesInOrder

(* Lines are run in order, and the last program of each of them has         *)
(* succeeded or is the one the runner waits for or gave up at.              *)
LinesInOrder ==
    ~ rewound =>
        /\ offset = Len(ran) + Len(buffered)
        /\ \A n \in 1..Len(ran) : ran[n] = n
        /\ \A n \in 1..Len(buffered) : buffered[n] = Len(ran) + n
LastSucceeded ==
    \A k \in 1..Len(kids) : kids[k].n = kids[k].of - 1 =>
        \/ kids[k].at = "ended" /\ kids[k].status = 0
        \/ /\ k = Len(kids) /\ ran # <<>> /\ kids[k].line = Last(ran)
           /\ phase \in {"wait", "done"} \/ (phase = "build" /\ j = kids[k].of)
L_Lines == LinesInOrder /\ LastSucceeded

(* The descriptors of the runner when the pipes with numbers a and b, or    *)
(* none for 0, are open: 4 and 5 are those of one, 6 and 7 of the other.    *)
Table(a, b) ==
    [f \in FDs |-> IF f \in 0..2 THEN Tty ELSE IF f = 3 THEN <<"script", 0>>
                   ELSE IF f = 4 /\ a > 0 THEN RdEnd(a) ELSE IF f = 5 /\ a > 0 THEN WrEnd(a)
                   ELSE IF f = 6 /\ b > 0 THEN RdEnd(b) ELSE IF f = 7 /\ b > 0 THEN WrEnd(b)
                   ELSE Closed]
Pair(x) == IF x = 0 THEN <<4, 5>> ELSE <<6, 7>>

(* They change places from one program of a line to the next.               *)
TableOf(n, own) ==
    IF n % 2 = 0 THEN Table(own, IF n > 0 THEN own - 1 ELSE 0) ELSE Table(own - 1, own)

(* What a child inherits, and what it has made of that when it runs.        *)
L_Wiring(kid) ==
    /\ kid.at = "forked" =>
          IF kid.of = 1 THEN kid.fd = Table(0, 0)
          ELSE /\ kid.fd = TableOf(kid.n, kid.own) /\ kid.pipes[kid.n % 2] = Pair(kid.n % 2)
               /\ kid.n > 0 => kid.pipes[(kid.n + 1) % 2] = Pair((kid.n + 1) % 2)
    /\ kid.at = "runs" =>
          /\ kid.fd[0] = IF kid.n = 0 THEN Tty ELSE RdEnd(kid.own - 1)
          /\ kid.fd[1] = IF kid.n = kid.of - 1 THEN Tty ELSE WrEnd(kid.own)

RunnerTable ==
    /\ \A x \in 0..1 : pipes[x] = Pair(x) \/ \E g \in Garbage : pipes[x] = <<g, g>>
    /\ phase \in {"getline", "vfork", "wait"} => fd = Table(0, 0)
    /\ phase = "build" =>
          IF j = 0 THEN fd = Table(0, 0)
          ELSE /\ fd = TableOf(j - 1, Len(content)) /\ pipes[(j - 1) % 2] = Pair((j - 1) % 2)
               /\ j > 1 => pipes[j % 2] = Pair(j % 2)
L_Descriptors == RunnerTable /\ \A k \in 1..Len(kids) : L_Wiring(kids[k])

(* Lines of one program that writes and others that pass on: what one of    *)
(* them has written is with the next or in the pipe between them.           *)
Flows(kid) ==
    /\ script[kid.line][1] = "list"
    /\ \A m \in 2..kid.of : script[kid.line][m] = "copy"
Passed(kid) == (IF kid.program = "list" THEN Items ELSE kid.got) - kid.todo

FlowOf(k) ==
    Flows(kids[k]) =>
        /\ kids[k].at = "ended" => kids[k].todo = 0 /\ Passed(kids[k]) = Items
        /\ kids[k].at = "ended" /\ kids[k].n > 0 => kids[k - 1].at = "ended"
        /\ kids[k].n = kids[k].of - 1 => kids[k].printed = Passed(kids[k])
        /\ kids[k].n < kids[k].of - 1 =>
              Passed(kids[k]) = content[kids[k].own]
                                + (IF k < Len(kids) THEN kids[k + 1].got ELSE 0)
L_Flow == \A k \in 1..Len(kids) : FlowOf(k)

Lines_Inv == L_TypeOK /\ L_Order /\ L_Lines
Flow_Inv == L_Descriptors /\ L_Flow

(* What no step of a child changes in it.                                   *)
SameKid(x, y) ==
    /\ y.line = x.line /\ y.n = x.n /\ y.of = x.of /\ y.own = x.own /\ y.left = x.left
    /\ y.program = x.program /\ y.pipes = x.pipes

SameCounts(x, y) == y.todo = x.todo /\ y.got = x.got /\ y.printed = x.printed

(* The records a step makes of a child's.                                   *)
LEMMA KidUpdates ==
    ASSUME NEW x \in L_Kids
    PROVE  /\ \A t \in L_Tables : LET y == [x EXCEPT !.at = "runs", !.fd = t] IN
                 /\ y \in L_Kids /\ SameKid(x, y) /\ y.at = "runs" /\ y.fd = t
                 /\ SameCounts(x, y)
           /\ \A s \in Nat : LET y == Kill(x, s) IN
                 /\ y \in L_Kids /\ SameKid(x, y) /\ y.at = "ended" /\ y.status = s
                 /\ SameCounts(x, y)
           /\ x.todo > 0 => LET y == [x EXCEPT !.todo = @ - 1, !.printed = @ + 1] IN
                 /\ y \in L_Kids /\ SameKid(x, y) /\ y.at = x.at /\ y.fd = x.fd
                 /\ y.todo = x.todo - 1 /\ y.got = x.got /\ y.printed = x.printed + 1
           /\ x.todo > 0 => LET y == [x EXCEPT !.todo = @ - 1] IN
                 /\ y \in L_Kids /\ SameKid(x, y) /\ y.at = x.at /\ y.fd = x.fd
                 /\ y.todo = x.todo - 1 /\ y.got = x.got /\ y.printed = x.printed
           /\ LET y == [x EXCEPT !.todo = 1, !.got = @ + 1] IN
                 /\ y \in L_Kids /\ SameKid(x, y) /\ y.at = x.at /\ y.fd = x.fd
                 /\ y.todo = 1 /\ y.got = x.got + 1 /\ y.printed = x.printed
  <1>1. AllClosed \in L_Tables
    BY DEF AllClosed, L_Tables, Closed, L_Ends
  <1>2. \A t \in L_Tables : LET y == [x EXCEPT !.at = "runs", !.fd = t] IN
                 /\ y \in L_Kids /\ SameKid(x, y) /\ y.at = "runs" /\ y.fd = t
                 /\ SameCounts(x, y)
    BY DEF L_Kids, SameKid, SameCounts
  <1>3. \A s \in Nat : LET y == Kill(x, s) IN
                 /\ y \in L_Kids /\ SameKid(x, y) /\ y.at = "ended" /\ y.status = s
                 /\ SameCounts(x, y)
    BY <1>1 DEF L_Kids, SameKid, Kill, SameCounts
  <1>4. x.todo > 0 => LET y == [x EXCEPT !.todo = @ - 1, !.printed = @ + 1] IN
                 /\ y \in L_Kids /\ SameKid(x, y) /\ y.at = x.at /\ y.fd = x.fd
                 /\ y.todo = x.todo - 1 /\ y.got = x.got /\ y.printed = x.printed + 1
    <2>1. \A a, b \in Nat : LET y == [x EXCEPT !.todo = a, !.printed = b] IN
                 /\ y \in L_Kids /\ SameKid(x, y) /\ y.at = x.at /\ y.fd = x.fd
                 /\ y.todo = a /\ y.got = x.got /\ y.printed = b
      BY DEF L_Kids, SameKid
    <2>2. x.todo > 0 => x.todo - 1 \in Nat /\ x.printed + 1 \in Nat
      BY DEF L_Kids
    <2> QED
      BY <2>1, <2>2
  <1>5. x.todo > 0 => LET y == [x EXCEPT !.todo = @ - 1] IN
                 /\ y \in L_Kids /\ SameKid(x, y) /\ y.at = x.at /\ y.fd = x.fd
                 /\ y.todo = x.todo - 1 /\ y.got = x.got /\ y.printed = x.printed
    BY DEF L_Kids, SameKid
  <1>6. LET y == [x EXCEPT !.todo = 1, !.got = @ + 1] IN
                 /\ y \in L_Kids /\ SameKid(x, y) /\ y.at = x.at /\ y.fd = x.fd
                 /\ y.todo = 1 /\ y.got = x.got + 1 /\ y.printed = x.printed
    <2>1. \A a, b \in Nat : LET y == [x EXCEPT !.todo = a, !.got = b] IN
                 /\ y \in L_Kids /\ SameKid(x, y) /\ y.at = x.at /\ y.fd = x.fd
                 /\ y.todo = a /\ y.got = b /\ y.printed = x.printed
      BY DEF L_Kids, SameKid
    <2>2. x.got + 1 \in Nat /\ 1 \in Nat
      BY DEF L_Kids
    <2> QED
      BY <2>1, <2>2
  <1> QED
    BY <1>2, <1>3, <1>4, <1>5, <1>6

(* The smallest of a set of numbers.                                        *)
LEMMA MinIs ==
    ASSUME NEW S \in SUBSET Int, NEW x \in S, \A y \in S : x <= y
    PROVE  Min(S) = x
  <1>1. \A z \in S : (\A y \in S : z <= y) => z = x
    OBVIOUS
  <1>2. \E z \in S : \A y \in S : z <= y
    OBVIOUS
  <1>3. Min(S) = CHOOSE z \in S : \A y \in S : z <= y
    BY DEF Min
  <1>4. Min(S) \in S /\ \A y \in S : Min(S) <= y
    BY <1>2, <1>3, Zenon
  <1> QED
    BY <1>1, <1>4

(* Closing and duplicating descriptors gives tables again, the wiring of a  *)
(* child too.                                                               *)
LEMMA TablesOfCalls ==
    /\ AllClosed \in L_Tables /\ Opened \in L_Tables
    /\ \A f : \A t \in L_Tables : Close(t, f) \in L_Tables
    /\ \A g : \A t \in L_Tables, f \in FDs : Dup2(t, f, g) \in L_Tables
  BY DEF L_Tables, L_Ends, AllClosed, Opened, Close, Dup2, Closed, Tty

(* So does the wiring of a child.                                           *)
LEMMA WiredIsTable ==
    ASSUME NEW x \in L_Kids, x.n < x.of, CanWire(x) PROVE Wired(x) \in L_Tables
  <1> DEFINE prev == x.pipes[(x.n + 1) % 2]
             own == x.pipes[x.n % 2]
             t == IF x.n = 0 THEN x.fd ELSE Dup2(Close(x.fd, prev[2]), prev[1], 0)
  <1>1. x.fd \in L_Tables /\ x.n \in Nat /\ (x.n # 0 => x.n > 0)
    BY DEF L_Kids
  <1>2. x.n # 0 => prev[1] \in FDs
    BY <1>1 DEF CanWire, InUse
  <1>3. t \in L_Tables
    BY <1>1, <1>2, TablesOfCalls
  <1>4. x.n # x.of - 1 => own[2] \in FDs
    BY <1>1 DEF CanWire, InUse, L_Kids
  <1>5. Wired(x) = IF x.n = x.of - 1 THEN t ELSE Dup2(Close(t, own[1]), own[2], 1)
    BY DEF Wired
  <1> HIDE DEF t, own
  <1> QED
    BY <1>3, <1>4, <1>5, TablesOfCalls

(* What a step of a child makes of its record.                              *)
LEMMA KidStep ==
    ASSUME L_TypeOK, L_Order, NEW k \in 1..Len(kids), K_Step(k)
    PROVE  LET x == kids[k]
               y == kids'[k]
           IN  /\ kids' \in Seq(L_Kids) /\ Len(kids') = Len(kids)
               /\ \A m \in 1..Len(kids) : m # k => kids'[m] = kids[m]
               /\ SameKid(x, y) /\ x.at # "ended"
               /\ K_Exec(k) => y.at = "runs" /\ y.fd = Wired(x) /\ SameCounts(x, y)
               /\ K_NoExec(k) \/ K_BrokenPipe(k) \/ K_End(k) => y.at = "ended" /\ SameCounts(x, y)
               /\ K_Print(k) => y.at = x.at /\ y.fd = x.fd /\ y.todo = x.todo - 1
                                /\ y.got = x.got /\ y.printed = x.printed + 1
               /\ K_Write(k) => y.at = x.at /\ y.fd = x.fd /\ y.todo = x.todo - 1
                                /\ y.got = x.got /\ y.printed = x.printed
               /\ K_Read(k) => y.at = x.at /\ y.fd = x.fd /\ y.todo = 1
                               /\ y.got = x.got + 1 /\ y.printed = x.printed
  <1> DEFINE x == kids[k]
             y == kids'[k]
  <1>0. x \in L_Kids /\ kids \in Seq(L_Kids) /\ x.n < x.of /\ k \in DOMAIN kids
    <2>1. kids \in Seq(L_Kids)
      BY DEF L_TypeOK
    <2> QED
      BY <2>1 DEF L_Order, KidInOrder, IsOfLine
  <1> DEFINE Is(z) == kids' = [kids EXCEPT ![k] = z]
             Rest == /\ kids' \in Seq(L_Kids) /\ Len(kids') = Len(kids)
                     /\ \A m \in 1..Len(kids) : m # k => kids'[m] = kids[m]
  <1>1. \A z \in L_Kids : Is(z) => Rest /\ y = z
    BY <1>0
  <1>2. ASSUME K_Exec(k)
        PROVE  /\ Rest /\ SameKid(x, y) /\ x.at # "ended"
               /\ y.at = "runs" /\ y.fd = Wired(x) /\ SameCounts(x, y)
    <2> DEFINE z == [x EXCEPT !.at = "runs", !.fd = Wired(x)]
    <2>1. Is(z) /\ CanWire(x) /\ x.at = "forked"
      BY <1>0, <1>2 DEF K_Exec
    <2>2. Wired(x) \in L_Tables
      BY <1>0, <2>1, WiredIsTable
    <2>3. z \in L_Kids /\ SameKid(x, z) /\ z.at = "runs" /\ z.fd = Wired(x) /\ SameCounts(x, z)
      BY <1>0, <2>2, KidUpdates
    <2> HIDE DEF x, y, z, Is
    <2> QED
      BY <1>1, <2>1, <2>3
  <1>3. ASSUME K_NoExec(k) \/ K_BrokenPipe(k) \/ K_End(k)
        PROVE  /\ Rest /\ SameKid(x, y) /\ x.at # "ended"
               /\ y.at = "ended" /\ SameCounts(x, y)
    <2>1. PICK s \in Nat : Is(Kill(x, s)) /\ x.at # "ended"
      BY <1>0, <1>3 DEF K_NoExec, K_BrokenPipe, K_End, K_Writing
    <2> DEFINE z == Kill(x, s)
    <2>3. z \in L_Kids /\ SameKid(x, z) /\ z.at = "ended" /\ SameCounts(x, z)
      BY <1>0, <2>1, KidUpdates
    <2> HIDE DEF x, y, z, Is
    <2> QED
      BY <1>1, <2>1, <2>3 DEF z
  <1>4. ASSUME K_Print(k)
        PROVE  /\ Rest /\ SameKid(x, y) /\ x.at # "ended"
               /\ y.at = x.at /\ y.fd = x.fd /\ y.todo = x.todo - 1
               /\ y.got = x.got /\ y.printed = x.printed + 1
    <2> DEFINE z == [x EXCEPT !.todo = @ - 1, !.printed = @ + 1]
    <2>1. Is(z) /\ x.at # "ended" /\ x.todo > 0
      BY <1>0, <1>4 DEF K_Print, K_Writing
    <2>3. /\ z \in L_Kids /\ SameKid(x, z) /\ z.at = x.at /\ z.fd = x.fd
          /\ z.todo = x.todo - 1 /\ z.got = x.got /\ z.printed = x.printed + 1
      BY <1>0, <2>1, KidUpdates
    <2> HIDE DEF x, y, z, Is
    <2> QED
      BY <1>1, <2>1, <2>3
  <1>5. ASSUME K_Write(k)
        PROVE  /\ Rest /\ SameKid(x, y) /\ x.at # "ended"
               /\ y.at = x.at /\ y.fd = x.fd /\ y.todo = x.todo - 1
               /\ y.got = x.got /\ y.printed = x.printed
    <2> DEFINE z == [x EXCEPT !.todo = @ - 1]
    <2>1. Is(z) /\ x.at # "ended" /\ x.todo > 0
      BY <1>0, <1>5 DEF K_Write, K_Writing
    <2>3. /\ z \in L_Kids /\ SameKid(x, z) /\ z.at = x.at /\ z.fd = x.fd
          /\ z.todo = x.todo - 1 /\ z.got = x.got /\ z.printed = x.printed
      BY <1>0, <2>1, KidUpdates
    <2> HIDE DEF x, y, z, Is
    <2> QED
      BY <1>1, <2>1, <2>3
  <1>6. ASSUME K_Read(k)
        PROVE  /\ Rest /\ SameKid(x, y) /\ x.at # "ended"
               /\ y.at = x.at /\ y.fd = x.fd /\ y.todo = 1
               /\ y.got = x.got + 1 /\ y.printed = x.printed
    <2> DEFINE z == [x EXCEPT !.todo = 1, !.got = @ + 1]
    <2>1. Is(z) /\ x.at # "ended"
      BY <1>0, <1>6 DEF K_Read, K_Reading
    <2>3. /\ z \in L_Kids /\ SameKid(x, z) /\ z.at = x.at /\ z.fd = x.fd
          /\ z.todo = 1 /\ z.got = x.got + 1 /\ z.printed = x.printed
      BY <1>0, <2>1, KidUpdates
    <2> HIDE DEF x, y, z, Is
    <2> QED
      BY <1>1, <2>1, <2>3
  <1> HIDE DEF Rest
  <1>7. Rest /\ SameKid(x, y) /\ x.at # "ended"
    BY <1>2, <1>3, <1>4, <1>5, <1>6 DEF K_Step
  <1> QED
    BY <1>2, <1>3, <1>4, <1>5, <1>6, <1>7 DEF Rest

(* getline gives lines of the script, one after the other.                  *)
LEMMA ReadAheadIs ==
    ASSUME L_TypeOK
    PROVE  /\ ReadAhead \in Seq(1..Len(script))
           /\ buffered # <<>> => ReadAhead = buffered
           /\ buffered = <<>> =>
                 /\ offset + Len(ReadAhead) <= Len(script)
                 /\ \A n \in 1..Len(ReadAhead) : ReadAhead[n] = offset + n
  <1>0. /\ script \in Seq(Seq(Programs)) /\ offset \in Nat /\ offset <= Len(script)
        /\ buffered \in Seq(1..Len(script)) /\ Chunk \in Nat \ {0}
    BY PipelineConstants DEF L_TypeOK
  <1>1. CASE buffered # <<>>
    BY <1>0, <1>1 DEF ReadAhead
  <1>2. CASE buffered = <<>>
    <2> DEFINE rest == Len(script) - offset
               m == Min({Chunk, rest})
    <2>1. rest \in Nat
      BY <1>0
    <2> HIDE DEF rest
    <2>2. m = IF Chunk <= rest THEN Chunk ELSE rest
      <3>1. /\ {Chunk, rest} \in SUBSET Int /\ Chunk \in {Chunk, rest} /\ rest \in {Chunk, rest}
            /\ Chunk <= rest => \A y \in {Chunk, rest} : Chunk <= y
            /\ ~ (Chunk <= rest) => \A y \in {Chunk, rest} : rest <= y
        BY <1>0, <2>1
      <3>2. /\ Chunk <= rest => Min({Chunk, rest}) = Chunk
            /\ ~ (Chunk <= rest) => Min({Chunk, rest}) = rest
        BY <3>1, MinIs
      <3> QED
        BY <3>2
    <2>3. m \in Nat /\ m <= rest
      BY <1>0, <2>1, <2>2
    <2>4. ReadAhead = [n \in 1..m |-> offset + n]
      BY <1>2 DEF ReadAhead, rest
    <2> HIDE DEF m
    <2>5. \A n \in 1..m : offset + n \in 1..Len(script)
      BY <1>0, <2>3 DEF rest
    <2>6. /\ ReadAhead \in Seq(1..Len(script)) /\ Len(ReadAhead) = m
          /\ \A n \in 1..m : ReadAhead[n] = offset + n
      BY <2>3, <2>4, <2>5
    <2> QED
      BY <1>0, <1>2, <2>3, <2>6 DEF rest
  <1> QED
    BY <1>1, <1>2

(* A child when it is forked.                                               *)
LEMMA KidIs ==
    ASSUME L_TypeOK, ran # <<>>, line = script[Last(ran)],
           NEW n \in Nat, n < Len(line), NEW t \in L_Tables, NEW ps \in [0..1 -> L_Pairs]
    PROVE  LET x == Kid(n, t, ps) IN
              /\ x \in L_Kids /\ IsOfLine(x) /\ x.line = Last(ran) /\ x.n = n
              /\ x.of = Len(line) /\ x.at = "forked" /\ x.fd = t /\ x.pipes = ps
              /\ x.todo = (IF x.program = "list" THEN Items ELSE 0) /\ x.got = 0 /\ x.printed = 0
              /\ x.own = IF Len(line) = 1 THEN 0 ELSE Len(content) + 1
  <1>1. /\ line \in Seq(Programs) /\ Last(ran) \in 1..Len(script) /\ Items \in Nat
        /\ line[n + 1] \in Programs /\ Len(buffered) \in Nat /\ Len(content) \in Nat
    <2>1. line \in Seq(Programs) /\ n + 1 \in 1..Len(line)
      BY DEF L_TypeOK
    <2>2. line[n + 1] \in Programs
      BY <2>1
    <2>3. ran \in Seq(1..Len(script)) /\ Len(ran) \in 1..Len(ran)
      BY DEF L_TypeOK
    <2> QED
      BY <2>1, <2>2, <2>3, PipelineConstants DEF L_TypeOK, Last
  <1> QED
    BY <1>1 DEF Kid, L_Kids, IsOfLine

(* What else a step of a child changes: a pipe, or the position in the      *)
(* script.                                                                  *)
LEMMA KidTouches ==
    ASSUME L_TypeOK, NEW k \in 1..Len(kids), K_Step(k)
    PROVE  /\ UNCHANGED <<script, buffered, ran, place, pipes, fd>>
           /\ content' \in Seq(Nat) /\ Len(content') = Len(content)
           /\ offset' \in Nat /\ offset' <= Len(script) /\ rewound' \in BOOLEAN
           /\ ~ rewound' => ~ rewound /\ offset' = offset
           /\ ~ K_Write(k) /\ ~ K_Read(k) => content' = content
  <1>0. /\ content \in Seq(Nat) /\ offset \in Nat /\ offset <= Len(script) /\ rewound \in BOOLEAN
        /\ kids \in Seq(L_Kids)
    BY DEF L_TypeOK
  <1>1. kids[k].left \in Nat
    <2>1. kids[k] \in L_Kids
      BY <1>0
    <2> QED
      BY <2>1 DEF L_Kids
  <1>2. CASE K_Exec(k) \/ K_Print(k) \/ K_BrokenPipe(k) \/ K_End(k)
    BY <1>0, <1>2 DEF K_Exec, K_Print, K_BrokenPipe, K_End, text
  <1>3. CASE K_NoExec(k)
    <2>1. /\ offset' = IF kids[k].left <= offset THEN offset - kids[k].left ELSE offset
          /\ rewound' = (rewound \/ kids[k].left > 0)
          /\ UNCHANGED <<script, buffered, ran, place, pipes, fd, content>>
      BY <1>3 DEF K_NoExec, Rewind
    <2>2. offset' \in Nat /\ offset' <= Len(script) /\ (kids[k].left = 0 => offset' = offset)
      BY <1>0, <1>1, <2>1
    <2>3. rewound' \in BOOLEAN /\ (~ rewound' => ~ rewound /\ kids[k].left = 0)
      <3>1. kids[k].left = 0 \/ kids[k].left > 0
        BY <1>1
      <3>2. rewound' \in BOOLEAN /\ (~ rewound' => ~ rewound /\ ~ (kids[k].left > 0))
        BY <2>1, Zenon
      <3> QED
        BY <3>1, <3>2
    <2> QED
      BY <1>0, <2>1, <2>2, <2>3
  <1>4. CASE K_Write(k)
    <2>1. PICK q \in DOMAIN content : content' = [content EXCEPT ![q] = @ + 1]
      BY <1>4 DEF K_Write
    <2>2. content[q] \in Nat /\ content[q] + 1 \in Nat
      BY <1>0
    <2>3. content' \in Seq(Nat) /\ Len(content') = Len(content)
      BY <1>0, <2>1, <2>2
    <2>4. UNCHANGED <<script, buffered, ran, place, pipes, fd, offset, rewound>>
      BY <1>4 DEF K_Write, text
    <2> QED
      BY <1>0, <1>4, <2>3, <2>4
  <1>5. CASE K_Read(k)
    <2>1. PICK q \in DOMAIN content : content' = [content EXCEPT ![q] = @ - 1] /\ content[q] > 0
      BY <1>5 DEF K_Read
    <2>2. content[q] \in Nat /\ content[q] - 1 \in Nat
      BY <1>0, <2>1
    <2>3. content' \in Seq(Nat) /\ Len(content') = Len(content)
      BY <1>0, <2>1, <2>2
    <2>4. UNCHANGED <<script, buffered, ran, place, pipes, fd, offset, rewound>>
      BY <1>5 DEF K_Read, text
    <2> QED
      BY <1>0, <1>5, <2>3, <2>4
  <1> QED
    BY <1>2, <1>3, <1>4, <1>5 DEF K_Step

(* Types.                                                                   *)
LEMMA NextLTypeOK == ASSUME L_TypeOK, L_Order, L_Next PROVE L_TypeOK'
  <1>0. /\ script \in Seq(Seq(Programs)) /\ offset \in Nat /\ offset <= Len(script)
        /\ buffered \in Seq(1..Len(script)) /\ ran \in Seq(1..Len(script))
        /\ kids \in Seq(L_Kids) /\ content \in Seq(Nat) /\ pipes \in [0..1 -> L_Pairs]
        /\ fd \in L_Tables
    BY PipelineConstants DEF L_TypeOK
  <1>1. CASE R_GetLine
    <2> DEFINE n == Head(ReadAhead)
    <2>1. /\ ReadAhead # <<>> /\ line' = script[n] /\ ran' = Append(ran, n)
          /\ phase' \in {"getline", "vfork", "build"} /\ buffered' = Tail(ReadAhead)
          /\ offset' = (IF buffered = <<>> THEN offset + Len(ReadAhead) ELSE offset) /\ j' = 0
          /\ UNCHANGED <<script, rewound, pipes, fd, kids, content>>
      BY <1>1 DEF R_GetLine
    <2>2. n \in 1..Len(script) /\ Tail(ReadAhead) \in Seq(1..Len(script))
      BY <2>1, ReadAheadIs
    <2>3. offset' \in Nat /\ offset' <= Len(script)
      BY <1>0, <2>1, ReadAheadIs
    <2>4. script[n] \in Seq(Programs) /\ Append(ran, n) \in Seq(1..Len(script))
      BY <1>0, <2>2
    <2> HIDE DEF n
    <2> QED
      BY <2>1, <2>2, <2>3, <2>4 DEF L_TypeOK
  <1>2. CASE R_Eof \/ R_Waited
    BY <1>2, TablesOfCalls DEF R_Eof, R_Waited, L_TypeOK, text
  <1>3. CASE R_Vfork
    <2>1. /\ kids' = Append(kids, Kid(0, fd, pipes)) /\ phase' = "wait"
          /\ UNCHANGED <<text, line, j, pipes, fd, content>>
          /\ ran # <<>> /\ line = script[Last(ran)] /\ Len(line) = 1
      BY <1>3 DEF R_Vfork, L_Order, RunnerInOrder
    <2>2. Kid(0, fd, pipes) \in L_Kids
      BY <1>0, <2>1, KidIs
    <2> QED
      BY <1>0, <2>1, <2>2 DEF L_TypeOK, text
  <1>4. CASE R_Build
    <2> DEFINE t == IF j > 0 THEN CloseBoth(fd, pipes[j % 2]) ELSE fd
               p == PipeFds(t)
    <2>1. /\ fd' = [t EXCEPT ![p[1]] = RdEnd(Len(content) + 1), ![p[2]] = WrEnd(Len(content) + 1)]
          /\ pipes' = [pipes EXCEPT ![j % 2] = p]
          /\ content' = Append(content, 0) /\ kids' = Append(kids, Kid(j, fd', pipes'))
          /\ j' = j + 1
          /\ UNCHANGED <<text, phase, line>>
          /\ ran # <<>> /\ line = script[Last(ran)] /\ j < Len(line) /\ j \in Nat
      BY <1>4 DEF R_Build, L_Order, RunnerInOrder, L_TypeOK
    <2>2. t \in L_Tables
      BY <1>0, TablesOfCalls DEF CloseBoth
    <2> HIDE DEF t
    <2>3. p \in L_Pairs
      BY <2>2 DEF L_Pairs
    <2> HIDE DEF p
    <2>4. pipes' \in [0..1 -> L_Pairs]
      BY <1>0, <2>1, <2>3
    <2>5. fd' \in L_Tables
      <3>1. Len(content) + 1 \in Nat
        BY <1>0
      <3> QED
        BY <2>1, <2>2, <3>1 DEF L_Tables, L_Ends, RdEnd, WrEnd
    <2>6. Kid(j, fd', pipes') \in L_Kids
      BY <2>1, <2>4, <2>5, KidIs
    <2> QED
      BY <1>0, <2>1, <2>4, <2>5, <2>6 DEF L_TypeOK, text
  <1>5. CASE R_Built
    <2>1. /\ fd' = CloseBoth(CloseBoth(fd, pipes[j % 2]), pipes[(j + 1) % 2]) /\ phase' = "wait"
          /\ UNCHANGED <<text, line, j, pipes, kids, content>>
      BY <1>5 DEF R_Built
    <2>2. fd' \in L_Tables
      BY <1>0, <2>1, TablesOfCalls DEF CloseBoth
    <2> QED
      BY <2>1, <2>2 DEF L_TypeOK, text
  <1>6. ASSUME NEW k \in DOMAIN kids, K_Step(k)
        PROVE  L_TypeOK'
    <2>1. k \in 1..Len(kids)
      BY <1>0
    <2>2. kids' \in Seq(L_Kids)
      BY <1>6, <2>1, KidStep
    <2>3. /\ content' \in Seq(Nat) /\ UNCHANGED <<script, buffered, ran, place, pipes, fd>>
          /\ offset' \in Nat /\ offset' <= Len(script) /\ rewound' \in BOOLEAN
      BY <1>6, <2>1, KidTouches
    <2> QED
      BY <2>2, <2>3 DEF L_TypeOK, place
  <1> QED
    BY <1>1, <1>2, <1>3, <1>4, <1>5, <1>6 DEF L_Next, Runner

(* The order of the children: nothing of it changes,                        *)
LEMMA OrderStays ==
    ASSUME L_TypeOK, L_Order, UNCHANGED script,
           Len(kids') = Len(kids), Len(content') = Len(content),
           \A k \in 1..Len(kids) : SameKid(kids[k], kids'[k]),
           \/ UNCHANGED <<phase, j>>
           \/ phase # "build"
           \/ phase = "build" /\ j = Len(line)
    PROVE  (\A k \in 1..Len(kids') : KidInOrder(k)') /\ PipesInOrder'
  <1>1. \A k \in 1..Len(kids) :
           /\ kids'[k].line = kids[k].line /\ kids'[k].n = kids[k].n /\ kids'[k].of = kids[k].of
           /\ kids'[k].own = kids[k].own /\ kids'[k].program = kids[k].program
    BY DEF SameKid
  <1>2. \A k \in 1..Len(kids) : kids[k].n \in Nat /\ kids[k].of \in Nat /\ kids[k].own \in Nat
    <2>1. \A x \in L_Kids : x.n \in Nat /\ x.of \in Nat /\ x.own \in Nat
      BY DEF L_Kids
    <2> QED
      BY <2>1 DEF L_TypeOK
  <1>3. Len(kids) \in Nat /\ j \in Nat /\ Len(line) \in Nat
    BY DEF L_TypeOK
  <1>4. ASSUME NEW k \in 1..Len(kids) PROVE KidInOrder(k)'
    <2>1. KidInOrder(k)
      BY DEF L_Order
    <2>2. /\ IsOfLine(kids[k])' /\ kids[k].own' <= Len(content')
          /\ (kids'[k].own = 0 <=> kids'[k].of = 1)
      BY <1>1, <2>1 DEF KidInOrder, IsOfLine
    <2>3. kids'[k].n > 0 => k > 1 /\ Follows(kids'[k], kids'[k - 1])
      <3>1. k > 1 => k - 1 \in 1..Len(kids)
        BY <1>3
      <3> QED
        BY <1>1, <2>1, <3>1 DEF KidInOrder, Follows
    <2>4. kids'[k].n < kids'[k].of - 1 =>
            \/ k < Len(kids) /\ Follows(kids'[k + 1], kids'[k])
            \/ k = Len(kids) /\ phase' = "build" /\ j' = kids'[k].n + 1
      <3>1. k < Len(kids) => k + 1 \in 1..Len(kids)
        BY <1>3
      <3>2. CASE k < Len(kids)
        BY <1>1, <2>1, <3>1, <3>2 DEF KidInOrder, Follows
      <3>3. CASE k = Len(kids) /\ UNCHANGED <<phase, j>>
        BY <1>1, <1>3, <2>1, <3>3 DEF KidInOrder
      <3>4. CASE k = Len(kids) /\ ~ UNCHANGED <<phase, j>>
        <4>1. phase = "build" /\ j = kids[k].n + 1 =>
                 \/ kids[k].of = Len(line) /\ j # Len(line) /\ j > 0
                 \/ ~ (kids[k].n < kids[k].of - 1)
          BY <1>2, <1>3, <3>4 DEF L_Order, RunnerInOrder
        <4> QED
          BY <1>1, <1>2, <1>3, <2>1, <3>4, <4>1 DEF KidInOrder
      <3> QED
        BY <1>3, <3>2, <3>3, <3>4
    <2> QED
      BY <2>2, <2>3, <2>4 DEF KidInOrder
  <1>5. PipesInOrder'
    BY <1>1 DEF L_Order, PipesInOrder
  <1> QED
    BY <1>4, <1>5

(* or a child is added at the end.                                          *)
LEMMA OrderGrows ==
    ASSUME L_TypeOK, L_Order, NEW x \in L_Kids, kids' = Append(kids, x), UNCHANGED script,
           IsOfLine(x), Len(content') \in Nat, Len(content) <= Len(content'),
           x.own <= Len(content'), x.own = 0 <=> x.of = 1, x.own > 0 => x.own > Len(content),
           IF x.n = 0 THEN phase # "build" \/ j = 0 
                      ELSE kids # <<>> /\ Follows(x, kids[Len(kids)]),
           x.n = x.of - 1 \/ (phase' = "build" /\ j' = x.n + 1)
    PROVE  (\A k \in 1..Len(kids') : KidInOrder(k)') /\ PipesInOrder'
  <1>1. /\ kids \in Seq(L_Kids) /\ Len(kids) \in Nat /\ kids' \in Seq(L_Kids)
        /\ Len(kids') = Len(kids) + 1 /\ kids'[Len(kids) + 1] = x
        /\ \A k \in 1..Len(kids) : kids'[k] = kids[k]
    BY DEF L_TypeOK
  <1>2. \A y \in L_Kids : y.n \in Nat /\ y.of \in Nat /\ y.own \in Nat
    BY DEF L_Kids
  <1>3. ASSUME NEW k \in 1..Len(kids) PROVE KidInOrder(k)'
    <2>1. KidInOrder(k) /\ kids'[k] = kids[k] /\ kids[k] \in L_Kids
      BY <1>1 DEF L_Order
    <2>2. /\ IsOfLine(kids[k])' /\ kids'[k].own <= Len(content')
          /\ (kids'[k].own = 0 <=> kids'[k].of = 1)
      <3>1. kids[k].own \in Nat /\ Len(content) \in Nat
        BY <1>2, <2>1 DEF L_TypeOK
      <3>2. IsOfLine(kids[k])'
        BY <2>1 DEF KidInOrder, IsOfLine
      <3> QED
        BY <2>1, <3>1, <3>2 DEF KidInOrder
    <2>3. kids'[k].n > 0 => k > 1 /\ Follows(kids'[k], kids'[k - 1])
      <3>1. k > 1 => kids'[k - 1] = kids[k - 1]
        BY <1>1
      <3> QED
        BY <2>1, <3>1 DEF KidInOrder
    <2>4. kids[k].n < kids[k].of - 1 => k < Len(kids') /\ Follows(kids'[k + 1], kids'[k])
      <3>1. CASE k < Len(kids)
        <4>1. k + 1 \in 1..Len(kids)
          BY <1>1, <3>1
        <4> QED
          BY <1>1, <2>1, <3>1, <4>1 DEF KidInOrder
      <3>2. CASE k = Len(kids)
        <4>1. ASSUME kids[k].n < kids[k].of - 1 PROVE x.n # 0
          <5>1. phase = "build" /\ j = kids[k].n + 1 /\ kids[k].n \in Nat
            BY <1>2, <2>1, <3>2, <4>1 DEF KidInOrder
          <5> QED
            BY <5>1
        <4> QED
          BY <1>1, <2>1, <3>2, <4>1
      <3> QED
        BY <1>1, <3>1, <3>2
    <2> QED
      BY <2>1, <2>2, <2>3, <2>4 DEF KidInOrder
  <1>4. ASSUME NEW k, k = Len(kids) + 1 PROVE KidInOrder(k)'
    <2>1. kids'[k] = x /\ k = Len(kids')
      BY <1>1, <1>4
    <2>2. IsOfLine(kids[k])'
      BY <2>1 DEF IsOfLine
    <2>3. x.n > 0 => k > 1 /\ Follows(x, kids'[k - 1])
      <3>1. kids # <<>> => k - 1 = Len(kids) /\ k > 1 /\ Len(kids) \in 1..Len(kids)
        BY <1>1, <1>4
      <3> QED
        BY <1>1, <1>2, <1>4, <3>1
    <2>4. x.n < x.of - 1 => phase' = "build" /\ j' = x.n + 1
      BY <1>2
    <2> QED
      BY <2>1, <2>2, <2>3, <2>4 DEF KidInOrder
  <1>5. PipesInOrder'
    <2>1. \A k \in 1..Len(kids) : kids[k].own <= Len(content) /\ kids[k].own \in Nat
      BY <1>1, <1>2 DEF L_Order, KidInOrder
    <2>2. x.own \in Nat /\ Len(content) \in Nat
      BY <1>2 DEF L_TypeOK
    <2>3. \A k, m \in 1..Len(kids) : k < m /\ kids'[m].own > 0 => kids'[k].own < kids'[m].own
      BY <1>1 DEF L_Order, PipesInOrder
    <2>4. \A k \in 1..Len(kids) : x.own > 0 => kids'[k].own < x.own
      BY <1>1, <2>1, <2>2
    <2>5. \A k \in 1..Len(kids') : k \in 1..Len(kids) \/ k = Len(kids')
      BY <1>1
    <2>6. SUFFICES ASSUME NEW k \in 1..Len(kids'), NEW m \in 1..Len(kids'), k < m,
                          kids'[m].own > 0
                   PROVE  kids'[k].own < kids'[m].own
      BY DEF PipesInOrder
    <2>7. k \in 1..Len(kids)
      BY <1>1, <2>5, <2>6
    <2> QED
      BY <1>1, <2>3, <2>4, <2>5, <2>6, <2>7
  <1>6. \A k \in 1..Len(kids') : k \in 1..Len(kids) \/ k = Len(kids) + 1
    BY <1>1
  <1> QED
    BY <1>3, <1>4, <1>5, <1>6

(* Each step but that keeps it.                                             *)
LEMMA NextLOrder == ASSUME L_TypeOK, L_Order, L_Next PROVE L_Order'
  <1>0. /\ script \in Seq(Seq(Programs)) /\ ran \in Seq(1..Len(script))
        /\ kids \in Seq(L_Kids) /\ content \in Seq(Nat) /\ pipes \in [0..1 -> L_Pairs]
        /\ fd \in L_Tables /\ j \in Nat /\ line \in Seq(Programs)
        /\ Len(content) \in Nat /\ Len(line) \in Nat
    BY PipelineConstants DEF L_TypeOK
  <1>1. \A k \in 1..Len(kids) : SameKid(kids[k], kids[k])
    BY DEF SameKid
  <1>2. CASE R_GetLine
    <2> DEFINE n == Head(ReadAhead)
    <2>1. /\ ReadAhead # <<>> /\ line' = script[n] /\ ran' = Append(ran, n)
          /\ phase' = (CASE Len(script[n]) = 0 -> "getline"
                         [] Len(script[n]) = 1 -> "vfork"
                         [] OTHER              -> "build") /\ j' = 0 /\ phase = "getline"
          /\ UNCHANGED <<script, kids, content>>
      BY <1>2 DEF R_GetLine
    <2>2. n \in 1..Len(script)
      BY <2>1, ReadAheadIs
    <2> HIDE DEF n
    <2>3. ran' # <<>> /\ Last(ran') = n
      <3>1. ran' = Append(ran, n) /\ ran \in Seq(1..Len(script)) /\ n \in 1..Len(script)
        BY <1>0, <2>1, <2>2
      <3> QED
        BY <3>1 DEF Last
    <2>4. script[n] \in Seq(Programs) /\ Len(script[n]) \in Nat
      BY <1>0, <2>2
    <2>5. /\ phase' = "vfork" => Len(line') = 1
          /\ phase' = "build" => Len(line') > 1
          /\ phase' # "wait"
      <3> DEFINE l == Len(script[n])
      <3>1. phase' = CASE l = 0 -> "getline" [] l = 1 -> "vfork" [] OTHER -> "build"
        BY <2>1
      <3>2. l \in Nat /\ Len(line') = l
        BY <2>1, <2>4
      <3> HIDE DEF l
      <3> QED
        BY <3>1, <3>2
    <2>6. RunnerInOrder'
      BY <2>1, <2>3, <2>5 DEF RunnerInOrder
    <2>7. (\A k \in 1..Len(kids') : KidInOrder(k)') /\ PipesInOrder'
      BY <1>1, <2>1, OrderStays
    <2> QED
      BY <2>6, <2>7 DEF L_Order
  <1>3. CASE R_Eof \/ R_Waited
    <2>1. /\ UNCHANGED <<script, kids, content>> /\ phase' \in {"getline", "done"}
          /\ phase # "build"
      BY <1>3 DEF R_Eof, R_Waited, text
    <2>2. RunnerInOrder'
      BY <2>1 DEF RunnerInOrder
    <2>7. (\A k \in 1..Len(kids') : KidInOrder(k)') /\ PipesInOrder'
      BY <1>1, <2>1, OrderStays
    <2> QED
      BY <2>2, <2>7 DEF L_Order
  <1>4. CASE R_Built
    <2>1. /\ UNCHANGED <<script, kids, content>> /\ phase = "build" /\ phase' = "wait"
          /\ j = Len(line)
      BY <1>4 DEF R_Built, text
    <2>2. Len(line) > 1 /\ j > 0
      BY <1>0, <2>1 DEF L_Order, RunnerInOrder
    <2>3. /\ kids # <<>> /\ kids[Len(kids)].n = j - 1 /\ kids[Len(kids)].of = Len(line)
      BY <2>1, <2>2 DEF L_Order, RunnerInOrder
    <2>4. RunnerInOrder'
      BY <2>1, <2>3 DEF RunnerInOrder
    <2>7. (\A k \in 1..Len(kids') : KidInOrder(k)') /\ PipesInOrder'
      BY <1>1, <2>1, OrderStays
    <2> QED
      BY <2>4, <2>7 DEF L_Order
  <1>5. CASE R_Vfork
    <2> DEFINE x == Kid(0, fd, pipes)
    <2>1. /\ kids' = Append(kids, x) /\ phase = "vfork" /\ phase' = "wait"
          /\ UNCHANGED <<script, content>>
          /\ ran # <<>> /\ line = script[Last(ran)] /\ Len(line) = 1
      BY <1>5 DEF R_Vfork, L_Order, RunnerInOrder, text
    <2>2. x \in L_Kids /\ IsOfLine(x) /\ x.n = 0 /\ x.of = 1 /\ x.own = 0
      <3>1. ran # <<>> /\ line = script[Last(ran)] /\ Len(line) = 1 /\ 0 \in Nat /\ 0 < Len(line)
        BY <2>1
      <3>2. fd \in L_Tables /\ pipes \in [0..1 -> L_Pairs]
        BY <1>0
      <3> QED
        BY <3>1, <3>2, KidIs
    <2> HIDE DEF x
    <2>3. (\A k \in 1..Len(kids') : KidInOrder(k)') /\ PipesInOrder'
      BY <1>0, <2>1, <2>2, OrderGrows
    <2>4. kids' # <<>> /\ kids'[Len(kids')] = x
      <3>1. kids \in Seq(L_Kids) /\ kids' = Append(kids, x)
        BY <1>0, <2>1
      <3> QED
        BY <2>2, <3>1
    <2>5. RunnerInOrder'
      BY <2>1, <2>2, <2>4 DEF RunnerInOrder
    <2> QED
      BY <2>3, <2>5 DEF L_Order
  <1>6. CASE R_Build
    <2> DEFINE x == Kid(j, fd', pipes')
    <2>1. /\ kids' = Append(kids, x) /\ phase = "build" /\ j' = j + 1
          /\ UNCHANGED <<script, ran, line, phase>> /\ content' = Append(content, 0)
          /\ ran # <<>> /\ line = script[Last(ran)] /\ Len(line) > 1 /\ j < Len(line)
      BY <1>6 DEF R_Build, L_Order, RunnerInOrder, text
    <2>2. fd' \in L_Tables /\ pipes' \in [0..1 -> L_Pairs]
      <3>1. L_TypeOK'
        BY <1>6, NextLTypeOK DEF L_Next, Runner
      <3> QED
        BY <3>1 DEF L_TypeOK
    <2>3. /\ x \in L_Kids /\ IsOfLine(x) /\ x.n = j /\ x.of = Len(line) /\ x.line = Last(ran)
          /\ x.own = Len(content) + 1
      <3>1. Len(line) # 1
        <4>1. Len(line) > 1 /\ Len(line) \in Nat
          BY <1>0, <2>1
        <4>2. \A l \in Nat : l > 1 => l # 1
          OBVIOUS
        <4> QED
          BY <4>1, <4>2, Zenon
      <3> QED
        BY <1>0, <2>1, <2>2, <3>1, KidIs
    <2>4. Len(content') = Len(content) + 1
      BY <1>0, <2>1
    <2> HIDE DEF x
    <2>5. j # 0 => kids # <<>> /\ Follows(x, kids[Len(kids)])
      <3>1. ASSUME j # 0
            PROVE  /\ kids # <<>> /\ kids[Len(kids)].n = j - 1 /\ kids[Len(kids)].of = Len(line)
                   /\ kids[Len(kids)].line = Last(ran) /\ kids[Len(kids)].own = Len(content)
        BY <1>0, <2>1, <3>1 DEF L_Order, RunnerInOrder
      <3> QED
        BY <1>0, <2>3, <3>1 DEF Follows
    <2>6. (\A k \in 1..Len(kids') : KidInOrder(k)') /\ PipesInOrder'
      <3>1. /\ kids' = Append(kids, x) /\ UNCHANGED script /\ x \in L_Kids /\ IsOfLine(x)
            /\ Len(content') \in Nat /\ Len(content) <= Len(content')
        BY <1>0, <2>1, <2>3, <2>4
      <3>2. x.own <= Len(content') /\ x.own > Len(content) /\ x.own # 0
        BY <1>0, <2>3, <2>4
      <3>3. x.of # 1
        <4>1. x.of > 1 /\ x.of \in Nat
          BY <1>0, <2>1, <2>3
        <4>2. \A l \in Nat : l > 1 => l # 1
          OBVIOUS
        <4> QED
          BY <4>1, <4>2, Zenon
      <3>4. IF x.n = 0 THEN phase # "build" \/ j = 0
                       ELSE kids # <<>> /\ Follows(x, kids[Len(kids)])
        BY <2>3, <2>5
      <3>5. phase' = "build" /\ j' = x.n + 1
        BY <2>1, <2>3
      <3> HIDE DEF L_Order, L_TypeOK, R_Build
      <3> QED
        BY <3>1, <3>2, <3>3, <3>4, <3>5, OrderGrows
    <2>7. kids' # <<>> /\ kids'[Len(kids')] = x
      <3>1. kids \in Seq(L_Kids) /\ kids' = Append(kids, x)
        BY <1>0, <2>1
      <3> QED
        BY <2>3, <3>1
    <2>8. RunnerInOrder'
      <3>1. phase' = "build" /\ line' = line /\ ran' = ran /\ script' = script
        BY <2>1
      <3>2. Len(line) > 1 /\ j' <= Len(line) /\ j' - 1 = j
        BY <1>0, <2>1
      <3>3. ran # <<>> /\ line = script[Last(ran)]
        BY <2>1
      <3>4. /\ x.n = j /\ x.of = Len(line) /\ x.line = Last(ran)
            /\ x.own = Len(content') /\ kids' # <<>> /\ kids'[Len(kids')] = x
        BY <2>3, <2>4, <2>7
      <3> QED
        BY <3>1, <3>2, <3>3, <3>4 DEF RunnerInOrder
    <2> QED
      BY <2>6, <2>8 DEF L_Order
  <1>7. ASSUME NEW k \in DOMAIN kids, K_Step(k)
        PROVE  L_Order'
    <2>1. k \in 1..Len(kids)
      BY <1>0
    <2>2. /\ UNCHANGED <<script, ran, phase, line, j>> /\ Len(content') = Len(content)
          /\ Len(kids') = Len(kids) /\ kids' \in Seq(L_Kids)
          /\ \A m \in 1..Len(kids) : SameKid(kids[m], kids'[m])
      BY <1>7, <2>1, KidStep, KidTouches DEF place, SameKid
    <2>3. (\A m \in 1..Len(kids') : KidInOrder(m)') /\ PipesInOrder'
      BY <2>2, OrderStays
    <2>4. kids # <<>> => /\ kids' # <<>> /\ kids'[Len(kids')].n = kids[Len(kids)].n
                         /\ kids'[Len(kids')].of = kids[Len(kids)].of
                         /\ kids'[Len(kids')].line = kids[Len(kids)].line
                         /\ kids'[Len(kids')].own = kids[Len(kids)].own
      <3>1. kids # <<>> => Len(kids) \in 1..Len(kids) /\ kids' # <<>>
        BY <1>0, <2>2
      <3> QED
        BY <2>2, <3>1 DEF SameKid
    <2>5. RunnerInOrder'
      BY <2>2, <2>4 DEF L_Order, RunnerInOrder
    <2> QED
      BY <2>3, <2>5 DEF L_Order
  <1> QED
    BY <1>2, <1>3, <1>4, <1>5, <1>6, <1>7 DEF L_Next, Runner

(* The lines are run one after the other.                                   *)
LEMMA NextLines ==
    ASSUME L_TypeOK, L_Order, LinesInOrder, L_Next
    PROVE  LinesInOrder'
  <1>0. /\ buffered \in Seq(1..Len(script)) /\ ran \in Seq(1..Len(script))
        /\ offset \in Nat /\ kids \in Seq(L_Kids)
    BY DEF L_TypeOK
  <1>1. CASE R_GetLine
    <2> DEFINE r == ReadAhead
               n == Head(r)
    <2>1. /\ r # <<>> /\ ran' = Append(ran, n) /\ buffered' = Tail(r)
          /\ offset' = (IF buffered = <<>> THEN offset + Len(r) ELSE offset)
          /\ UNCHANGED rewound
      BY <1>1 DEF R_GetLine
    <2>2. SUFFICES ASSUME ~ rewound
                   PROVE  /\ offset' = Len(ran') + Len(buffered')
                          /\ \A i \in 1..Len(ran') : ran'[i] = i
                          /\ \A i \in 1..Len(buffered') : buffered'[i] = Len(ran') + i
      BY <2>1 DEF LinesInOrder
    <2>3. /\ offset = Len(ran) + Len(buffered)
          /\ \A i \in 1..Len(ran) : ran[i] = i
          /\ \A i \in 1..Len(buffered) : buffered[i] = Len(ran) + i
      BY <2>2 DEF LinesInOrder
    <2>4. r \in Seq(1..Len(script)) /\ Len(r) \in Nat /\ Len(r) > 0 /\ Len(ran) \in Nat
      BY <1>0, <2>1, ReadAheadIs
    <2>5. /\ offset' = Len(ran) + Len(r)
          /\ \A i \in 1..Len(r) : r[i] = Len(ran) + i
      <3>1. CASE buffered # <<>>
        <4>1. r = buffered
          BY <3>1, ReadAheadIs
        <4> QED
          BY <2>1, <2>3, <3>1, <4>1
      <3>2. CASE buffered = <<>>
        <4>1. \A i \in 1..Len(r) : r[i] = offset + i
          BY <3>2, ReadAheadIs
        <4>2. offset = Len(ran)
          BY <1>0, <2>3, <3>2
        <4> QED
          BY <2>1, <2>4, <3>2, <4>1, <4>2
      <3> QED
        BY <3>1, <3>2
    <2> HIDE DEF r
    <2>6. n = Len(ran) + 1 /\ n \in 1..Len(script)
      BY <2>1, <2>4, <2>5
    <2>7. Len(ran') = Len(ran) + 1 /\ \A i \in 1..Len(ran') : ran'[i] = i
      <3> HIDE DEF n
      <3> QED
        BY <1>0, <2>1, <2>3, <2>6
    <2>8. Len(buffered') = Len(r) - 1 /\ \A i \in 1..Len(buffered') : buffered'[i] = r[i + 1]
      BY <2>1, <2>4, HeadTailProperties
    <2> QED
      BY <2>4, <2>5, <2>7, <2>8
  <1>2. CASE R_Eof \/ R_Vfork \/ R_Build \/ R_Built \/ R_Waited
    BY <1>2 DEF R_Eof, R_Vfork, R_Build, R_Built, R_Waited, text, LinesInOrder
  <1>3. ASSUME NEW k \in DOMAIN kids, K_Step(k)
        PROVE  LinesInOrder'
    <2>1. k \in 1..Len(kids)
      BY <1>0
    <2>2. UNCHANGED <<ran, buffered>> /\ (~ rewound' => ~ rewound /\ offset' = offset)
      BY <1>3, <2>1, KidTouches
    <2> QED
      BY <2>2 DEF LinesInOrder
  <1> QED
    BY <1>1, <1>2, <1>3 DEF L_Next, Runner

(* The runner goes on when the last program has succeeded.                  *)
LEMMA NextSucceeded ==
    ASSUME L_TypeOK, L_Order, LastSucceeded, L_Next
    PROVE  LastSucceeded'
  <1>0. kids \in Seq(L_Kids) /\ Len(kids) \in Nat /\ j \in Nat
    BY DEF L_TypeOK
  <1>1. \A k \in 1..Len(kids) : kids[k].n \in Nat /\ kids[k].of \in Nat /\ kids[k].n < kids[k].of
    <2>1. \A x \in L_Kids : x.n \in Nat /\ x.of \in Nat
      BY DEF L_Kids
    <2> QED
      BY <1>0, <2>1 DEF L_Order, KidInOrder, IsOfLine
  <1>2. CASE R_GetLine
    BY <1>2 DEF R_GetLine, LastSucceeded
  <1>3. CASE R_Eof \/ R_Built
    <2>1. /\ phase \in {"getline", "build"} /\ phase' \in {"wait", "done"}
          /\ UNCHANGED <<kids, ran>>
      BY <1>3 DEF R_Eof, R_Built, text
    <2> QED
      BY <2>1 DEF LastSucceeded
  <1>4. CASE R_Waited
    <2>1. /\ phase = "wait" /\ kids[Len(kids)].at = "ended" /\ UNCHANGED <<kids, ran>>
          /\ IF kids[Len(kids)].status = 0 THEN phase' = "getline" ELSE phase' = "done"
      BY <1>4 DEF R_Waited, text, Last
    <2> QED
      BY <2>1 DEF LastSucceeded
  <1>5. ASSUME NEW x, kids' = Append(kids, x), x \in L_Kids, UNCHANGED ran, ran # <<>>,
               x.line = Last(ran),
               phase \in {"vfork", "build"}, phase = "build" => j < Len(line),
               x.n = x.of - 1 => phase' = "wait" \/ (phase' = "build" /\ j' = x.of)
        PROVE  LastSucceeded'
    <2>1. /\ Len(kids') = Len(kids) + 1 /\ kids'[Len(kids')] = x
          /\ \A k \in 1..Len(kids) : kids'[k] = kids[k]
          /\ \A k \in 1..Len(kids') : k \in 1..Len(kids) \/ k = Len(kids')
      BY <1>0, <1>5
    <2>2. ASSUME NEW k \in 1..Len(kids), kids[k].n = kids[k].of - 1
          PROVE  kids[k].at = "ended" /\ kids[k].status = 0
      <3>1. ASSUME phase = "build", k = Len(kids), j = kids[k].of PROVE FALSE
        <4>1. j > 0 /\ kids # <<>>
          BY <1>0, <1>1, <3>1
        <4>2. kids[k].n = j - 1 /\ kids[k].of = Len(line)
          BY <3>1, <4>1 DEF L_Order, RunnerInOrder
        <4>3. Len(line) \in Nat
          BY DEF L_TypeOK
        <4> QED
          BY <1>0, <1>5, <3>1, <4>2, <4>3
      <3> QED
        BY <1>5, <2>2, <3>1 DEF LastSucceeded
    <2>3. SUFFICES ASSUME NEW k \in 1..Len(kids'), kids'[k].n = kids'[k].of - 1
                   PROVE  \/ kids'[k].at = "ended" /\ kids'[k].status = 0
                          \/ /\ k = Len(kids') /\ ran' # <<>> /\ kids'[k].line = Last(ran')
                             /\ \/ phase' \in {"wait", "done"}
                                \/ phase' = "build" /\ j' = kids'[k].of
      BY DEF LastSucceeded
    <2> QED
      BY <1>5, <2>1, <2>2, <2>3
  <1>6. CASE R_Vfork
    <2> DEFINE x == Kid(0, fd, pipes)
    <2>1. /\ kids' = Append(kids, x) /\ phase = "vfork" /\ phase' = "wait" /\ UNCHANGED ran
          /\ ran # <<>> /\ line = script[Last(ran)] /\ Len(line) = 1
      BY <1>6 DEF R_Vfork, L_Order, RunnerInOrder, text
    <2>2. x \in L_Kids /\ x.line = Last(ran)
      <3>1. 0 \in Nat /\ 0 < Len(line)
        BY <2>1
      <3>2. fd \in L_Tables /\ pipes \in [0..1 -> L_Pairs]
        BY DEF L_TypeOK
      <3> QED
        BY <2>1, <3>1, <3>2, KidIs
    <2> HIDE DEF x
    <2> QED
      BY <1>5, <2>1, <2>2
  <1>7. CASE R_Build
    <2> DEFINE x == Kid(j, fd', pipes')
    <2>1. /\ kids' = Append(kids, x) /\ phase = "build" /\ phase' = "build" /\ UNCHANGED ran
          /\ ran # <<>> /\ line = script[Last(ran)] /\ j < Len(line) /\ j' = j + 1
      BY <1>7 DEF R_Build, L_Order, RunnerInOrder, text, L_TypeOK
    <2>2. fd' \in L_Tables /\ pipes' \in [0..1 -> L_Pairs]
      <3>1. L_TypeOK'
        BY <1>7, NextLTypeOK DEF L_Next, Runner
      <3> QED
        BY <3>1 DEF L_TypeOK
    <2>3. x \in L_Kids /\ x.line = Last(ran) /\ x.n = j /\ x.of = Len(line)
      BY <1>0, <2>1, <2>2, KidIs
    <2> HIDE DEF x
    <2>4. x.n = x.of - 1 => j' = x.of
      <3>1. Len(line) \in Nat
        BY DEF L_TypeOK
      <3> QED
        BY <1>0, <2>1, <2>3, <3>1
    <2> QED
      BY <1>5, <2>1, <2>3, <2>4
  <1>8. ASSUME NEW k \in DOMAIN kids, K_Step(k)
        PROVE  LastSucceeded'
    <2>1. k \in 1..Len(kids)
      BY <1>0
    <2>2. /\ UNCHANGED <<ran, phase, j>> /\ Len(kids') = Len(kids) /\ kids[k].at # "ended"
          /\ \A m \in 1..Len(kids) : m # k => kids'[m] = kids[m]
          /\ kids'[k].n = kids[k].n /\ kids'[k].of = kids[k].of /\ kids'[k].line = kids[k].line
      BY <1>8, <2>1, KidStep, KidTouches DEF place, SameKid
    <2> QED
      BY <2>2 DEF LastSucceeded
  <1> QED
    BY <1>2, <1>3, <1>4, <1>6, <1>7, <1>8 DEF L_Next, Runner

(* Before the first line.                                                   *)
LEMMA InitLines == L_Init => L_TypeOK /\ L_Order /\ L_Lines
  <1> SUFFICES ASSUME L_Init PROVE L_TypeOK /\ L_Order /\ L_Lines
    OBVIOUS
  <1>1. /\ script \in Scripts /\ offset = 0 /\ buffered = <<>> /\ phase = "getline"
        /\ line = <<>> /\ j = 0 /\ fd = Opened /\ kids = <<>> /\ content = <<>> /\ ran = <<>>
        /\ rewound = FALSE
    BY DEF L_Init
  <1>2. pipes \in [0..1 -> L_Pairs]
    BY DEF L_Init, L_Pairs
  <1>3. script \in Seq(Seq(Programs))
    BY <1>1, PipelineConstants
  <1>4. L_TypeOK
    <2>1. Len(script) \in Nat /\ \A S : <<>> \in Seq(S)
      BY <1>3
    <2>2. offset <= Len(script) /\ offset \in Nat /\ j \in Nat
      BY <1>1, <2>1
    <2>3. fd \in L_Tables
      BY <1>1, TablesOfCalls
    <2> QED
      BY <1>1, <1>2, <2>1, <2>2, <2>3 DEF L_TypeOK
  <1>5. Len(kids) = 0 /\ Len(ran) = 0 /\ Len(buffered) = 0
    BY <1>1
  <1>6. L_Order /\ L_Lines
    BY <1>1, <1>5 DEF L_Order, RunnerInOrder, PipesInOrder, L_Lines, LinesInOrder, LastSucceeded
  <1> QED
    BY <1>4, <1>6

(* Every step keeps the invariant of the lines.                             *)
LEMMA NextLinesInv == Lines_Inv /\ [L_Next]_L_vars => Lines_Inv'
  <1> SUFFICES ASSUME Lines_Inv, [L_Next]_L_vars PROVE Lines_Inv'
    OBVIOUS
  <1>1. CASE L_Next
    BY <1>1, NextLTypeOK, NextLOrder, NextLines, NextSucceeded DEF Lines_Inv, L_Lines
  <1>2. CASE UNCHANGED L_vars
    <2>1. UNCHANGED <<script, offset, buffered, ran, rewound, phase, line, j, pipes, fd, kids,
                      content>>
      BY <1>2 DEF L_vars, text, place
    <2> QED
      BY <2>1 DEF Lines_Inv, L_TypeOK, L_Order, RunnerInOrder, KidInOrder, IsOfLine, Follows,
                  PipesInOrder, L_Lines, LinesInOrder, LastSucceeded
  <1> QED
    BY <1>1, <1>2

(* It says that every line runs once.                                       *)
LEMMA LinesInvImplies == Lines_Inv => LinesOnce
  <1> SUFFICES ASSUME Lines_Inv, ~ rewound
               PROVE  /\ ran = [n \in 1..Len(ran) |-> n]
                      /\ \A k \in DOMAIN kids :
                            /\ kids[k].n = kids[k].of - 1 /\ kids[k].at = "ended"
                            /\ kids[k].status # 0
                            => kids[k].line = Len(ran)
    BY DEF LinesOnce
  <1>1. /\ ran \in Seq(1..Len(script)) /\ kids \in Seq(L_Kids)
        /\ \A n \in 1..Len(ran) : ran[n] = n
    BY DEF Lines_Inv, L_TypeOK, L_Lines, LinesInOrder
  <1>2. ran = [n \in 1..Len(ran) |-> n]
    BY <1>1
  <1>3. ran # <<>> => Last(ran) = Len(ran)
    BY <1>1 DEF Last
  <1> QED
    BY <1>1, <1>2, <1>3 DEF Lines_Inv, L_Lines, LastSucceeded

(* As long as no child moves the position, the lines of a script are run    *)
(* once and in order, each after the last program of the one before has     *)
(* succeeded.                                                               *)
THEOREM LinesRunOnce == L_Spec => []LinesOnce
  <1>1. L_Spec => []Lines_Inv
    BY InitLines, NextLinesInv, PTL DEF L_Spec, Lines_Inv
  <1> QED
    BY <1>1, LinesInvImplies, PTL

(* A turn of the loop that closes a descriptor which the runner has not got *)
(* from pipe(): the array still holds what was there on entry, and this is  *)
(* the number of a descriptor that is open.                                 *)
ClosesForeign ==
    R_Build /\ j > 0 /\ \E g \in Garbage : pipes[j % 2] = <<g, g>> /\ InUse(fd, g)

(* The two pairs of descriptors take turns.                                 *)
LEMMA Parity ==
    \A n \in Nat : /\ n % 2 \in {0, 1} /\ (n + 1) % 2 = 1 - (n % 2)
                   /\ n > 0 => (n - 1) % 2 = 1 - (n % 2)
  OBVIOUS

(* The tables, and what close and pipe make of them.                        *)
LEMMA Tables ==
    ASSUME NEW a \in Nat, NEW b \in Nat
    PROVE  /\ Table(a, b) \in L_Tables
           /\ CloseBoth(Table(a, b), <<4, 5>>) = Table(0, b)
           /\ CloseBoth(Table(a, b), <<6, 7>>) = Table(a, 0)
           /\ \A g \in Int : ~ InUse(Table(a, b), g) =>
                 CloseBoth(Table(a, b), <<g, g>>) = Table(a, b)
  BY DEF InUse, Table, L_Tables, L_Ends, CloseBoth, Close, FDs, Closed, Tty, RdEnd, WrEnd

(* The descriptors that pipe() returns are the lowest free ones.            *)
LEMMA NewPipe ==
    ASSUME NEW a \in Nat, NEW c \in Nat \ {0}
    PROVE  /\ PipeFds(Table(0, a)) = <<4, 5>>
           /\ [Table(0, a) EXCEPT ![4] = RdEnd(c), ![5] = WrEnd(c)] = Table(c, a)
           /\ a > 0 => PipeFds(Table(a, 0)) = <<6, 7>>
           /\ [Table(a, 0) EXCEPT ![6] = RdEnd(c), ![7] = WrEnd(c)] = Table(a, c)
  <1>1. \A n \in Nat : RdEnd(n) # Closed /\ WrEnd(n) # Closed /\ Tty # Closed
                       /\ <<"script", 0>> # Closed
    BY DEF RdEnd, WrEnd, Closed, Tty
  <1>2. /\ Free(Table(0, a)) \subseteq 4..11 /\ 4 \in Free(Table(0, a)) /\ 5 \in Free(Table(0, a))
    BY <1>1 DEF Free, Table, FDs
  <1>3. a > 0 => /\ Free(Table(a, 0)) \subseteq 6..11
                 /\ 6 \in Free(Table(a, 0)) /\ 7 \in Free(Table(a, 0))
    BY <1>1 DEF Free, Table, FDs
  <1>4. \A S \in SUBSET Int : \A x \in Int :
           x \in S /\ x + 1 \in S /\ (\A y \in S : x <= y) =>
              Min(S) = x /\ Min(S \ {x}) = x + 1
    <2>1. SUFFICES ASSUME NEW S \in SUBSET Int, NEW x \in S, x + 1 \in S, \A y \in S : x <= y
                   PROVE  Min(S) = x /\ Min(S \ {x}) = x + 1
      OBVIOUS
    <2>2. Min(S) = x
      BY <2>1, MinIs
    <2>3. /\ S \ {x} \in SUBSET Int /\ x + 1 \in S \ {x} /\ \A y \in S \ {x} : x + 1 <= y
      BY <2>1
    <2>4. Min(S \ {x}) = x + 1
      BY <2>3, MinIs
    <2> QED
      BY <2>2, <2>4
  <1>5. PipeFds(Table(0, a)) = <<4, 5>>
    <2> DEFINE S == Free(Table(0, a))
    <2>1. S \in SUBSET Int /\ 4 \in S /\ 4 + 1 \in S /\ \A y \in S : 4 <= y
      BY <1>2
    <2> HIDE DEF S
    <2>2. Min(S) = 4 /\ Min(S \ {4}) = 5
      BY <1>4, <2>1
    <2> QED
      BY <2>2 DEF PipeFds, S
  <1>6. a > 0 => PipeFds(Table(a, 0)) = <<6, 7>>
    <2> DEFINE S == Free(Table(a, 0))
    <2> SUFFICES ASSUME a > 0 PROVE PipeFds(Table(a, 0)) = <<6, 7>>
      OBVIOUS
    <2>1. S \in SUBSET Int /\ 6 \in S /\ 6 + 1 \in S /\ \A y \in S : 6 <= y
      BY <1>3
    <2> HIDE DEF S
    <2>2. Min(S) = 6 /\ Min(S \ {6}) = 7
      BY <1>4, <2>1
    <2> QED
      BY <2>2 DEF PipeFds, S
  <1>7. /\ [Table(0, a) EXCEPT ![4] = RdEnd(c), ![5] = WrEnd(c)] = Table(c, a)
        /\ [Table(a, 0) EXCEPT ![6] = RdEnd(c), ![7] = WrEnd(c)] = Table(a, c)
    <2> DEFINE u == [Table(0, a) EXCEPT ![4] = RdEnd(c), ![5] = WrEnd(c)]
               v == [Table(a, 0) EXCEPT ![6] = RdEnd(c), ![7] = WrEnd(c)]
    <2>1. /\ Table(0, a) \in L_Tables /\ Table(a, 0) \in L_Tables
          /\ Table(c, a) \in L_Tables /\ Table(a, c) \in L_Tables
      BY Tables
    <2>2. DOMAIN u = FDs /\ DOMAIN v = FDs /\ u = [f \in FDs |-> u[f]] /\ v = [f \in FDs |-> v[f]]
      BY <2>1 DEF L_Tables
    <2>3. \A f \in FDs : u[f] = Table(c, a)[f]
      <3>1. \A f \in FDs : u[f] = IF f = 5 THEN WrEnd(c) ELSE IF f = 4 THEN RdEnd(c)
                                  ELSE Table(0, a)[f]
        BY <2>1 DEF L_Tables, FDs
      <3> HIDE DEF u
      <3> QED
        BY <3>1 DEF Table, FDs
    <2>4. \A f \in FDs : v[f] = Table(a, c)[f]
      <3>1. \A f \in FDs : v[f] = IF f = 7 THEN WrEnd(c) ELSE IF f = 6 THEN RdEnd(c)
                                  ELSE Table(a, 0)[f]
        BY <2>1 DEF L_Tables, FDs
      <3> HIDE DEF v
      <3> QED
        BY <3>1 DEF Table, FDs
    <2> HIDE DEF u, v
    <2>5. u = Table(c, a) /\ v = Table(a, c)
      BY <2>1, <2>2, <2>3, <2>4 DEF L_Tables
    <2> QED
      BY <2>5 DEF u, v
  <1> QED
    BY <1>5, <1>6, <1>7

(* The ends of its own pipe and of the one before.                          *)
LEMMA TableHolds ==
    ASSUME NEW n \in Nat, NEW own \in Nat \ {0}, n > 0 => own > 1
    PROVE  LET t == TableOf(n, own) IN
              /\ t \in L_Tables /\ Holds(t, RdEnd(own)) /\ Holds(t, WrEnd(own))
              /\ n > 0 => Holds(t, RdEnd(own - 1)) /\ Holds(t, WrEnd(own - 1))
  <1>1. \A a, b \in Nat : LET t == Table(a, b) IN
           /\ a > 0 => Holds(t, RdEnd(a)) /\ Holds(t, WrEnd(a))
           /\ b > 0 => Holds(t, RdEnd(b)) /\ Holds(t, WrEnd(b))
    BY DEF Table, Holds, FDs
  <1>2. n > 0 => own - 1 \in Nat /\ own - 1 > 0
    OBVIOUS
  <1>3. n % 2 = 0 \/ (n % 2 = 1 /\ n > 0)
    BY Parity
  <1>4. CASE n % 2 = 0
    BY <1>1, <1>2, <1>4, Tables DEF TableOf
  <1>5. CASE n % 2 = 1 /\ n > 0
    BY <1>1, <1>2, <1>5, Tables DEF TableOf
  <1> QED
    BY <1>3, <1>4, <1>5

(* A child wires itself to the program before it and to its own pipe, and   *)
(* never fails to.                                                          *)
LEMMA WiredIs ==
    ASSUME NEW x \in L_Kids, x.n < x.of, x.own = 0 <=> x.of = 1, x.n > 0 => x.own > 1,
           L_Wiring(x), x.at = "forked"
    PROVE  /\ CanWire(x)
           /\ Wired(x)[0] = IF x.n = 0 THEN Tty ELSE RdEnd(x.own - 1)
           /\ Wired(x)[1] = IF x.n = x.of - 1 THEN Tty ELSE WrEnd(x.own)
  <1>0. x.n \in Nat /\ x.of \in Nat /\ x.own \in Nat
    BY DEF L_Kids
  <1>1. \A n \in Nat : RdEnd(n) # Closed /\ WrEnd(n) # Closed
    BY DEF RdEnd, WrEnd, Closed
  <1>2. CASE x.of = 1
    <2>1. x.n = 0 /\ x.fd = Table(0, 0)
      BY <1>0, <1>2 DEF L_Wiring
    <2> QED
      BY <1>2, <2>1 DEF CanWire, Wired, Table, FDs
  <1>3. CASE x.of # 1 /\ x.n % 2 = 0
    <2>1. /\ x.fd = Table(x.own, IF x.n > 0 THEN x.own - 1 ELSE 0) /\ x.pipes[x.n % 2] = <<4, 5>>
          /\ x.n > 0 => x.pipes[(x.n + 1) % 2] = <<6, 7>>
      BY <1>0, <1>3, Parity DEF L_Wiring, TableOf, Pair
    <2>2. x.own > 0 /\ (x.n > 0 => x.own - 1 > 0)
      BY <1>0, <1>3
    <2>3. CanWire(x)
      BY <1>0, <1>1, <2>1, <2>2 DEF CanWire, InUse, Table, FDs
    <2> DEFINE t == IF x.n = 0 THEN x.fd ELSE Dup2(Close(x.fd, 7), 6, 0)
    <2>4. /\ t \in [FDs -> L_Ends] /\ t[1] = Tty
          /\ t[0] = (IF x.n = 0 THEN Tty ELSE RdEnd(x.own - 1))
          /\ t[5] = WrEnd(x.own)
      <3>1. x.fd \in L_Tables
        BY DEF L_Kids
      <3> QED
        BY <1>0, <2>1, <2>2, <3>1, TablesOfCalls DEF Dup2, Close, Table, FDs, L_Tables
    <2>5. Wired(x) = IF x.n = x.of - 1 THEN t ELSE Dup2(Close(t, 4), 5, 1)
      BY <1>0, <2>1 DEF Wired
    <2> HIDE DEF t
    <2> QED
      BY <2>3, <2>4, <2>5 DEF Dup2, Close, FDs
  <1>4. CASE x.of # 1 /\ x.n % 2 = 1
    <2>1. /\ x.fd = Table(x.own - 1, x.own) /\ x.pipes[x.n % 2] = <<6, 7>>
          /\ x.pipes[(x.n + 1) % 2] = <<4, 5>> /\ x.n > 0
      BY <1>0, <1>4, Parity DEF L_Wiring, TableOf, Pair
    <2>2. x.own > 0 /\ x.own - 1 > 0
      BY <1>0, <1>4, <2>1
    <2>3. CanWire(x)
      BY <1>0, <1>1, <2>1, <2>2 DEF CanWire, InUse, Table, FDs
    <2> DEFINE t == Dup2(Close(x.fd, 5), 4, 0)
    <2>4. t \in [FDs -> L_Ends] /\ t[0] = RdEnd(x.own - 1) /\ t[1] = Tty /\ t[7] = WrEnd(x.own)
      <3>1. x.fd \in L_Tables
        BY DEF L_Kids
      <3> QED
        BY <1>0, <2>1, <2>2, <3>1, TablesOfCalls DEF Dup2, Close, Table, FDs, L_Tables
    <2>5. Wired(x) = IF x.n = x.of - 1 THEN t ELSE Dup2(Close(t, 6), 7, 1)
      BY <1>0, <2>1 DEF Wired
    <2> HIDE DEF t
    <2> QED
      BY <1>0, <2>1, <2>3, <2>4, <2>5 DEF Dup2, Close, FDs
  <1> QED
    BY <1>0, <1>2, <1>3, <1>4, Parity

(* One turn of the runner's loop, and its end.                              *)
LEMMA BuildTable ==
    ASSUME ~ ClosesForeign, L_TypeOK, L_Order, RunnerTable, R_Build
    PROVE  /\ fd' = TableOf(j, Len(content) + 1) /\ pipes'[j % 2] = Pair(j % 2)
           /\ j > 0 => pipes'[(j + 1) % 2] = Pair((j + 1) % 2)
           /\ \A x \in 0..1 : pipes'[x] = Pair(x) \/ \E g \in Garbage : pipes'[x] = <<g, g>>
  <1> DEFINE c == Len(content)
             t == IF j > 0 THEN CloseBoth(fd, pipes[j % 2]) ELSE fd
             p == PipeFds(t)
  <1>0. /\ j \in Nat /\ c \in Nat /\ c + 1 \in Nat \ {0} /\ pipes \in [0..1 -> L_Pairs]
        /\ phase = "build" /\ j % 2 \in {0, 1} /\ \A g \in Garbage : g \in Int
    BY PipelineConstants, Parity DEF L_TypeOK, R_Build
  <1>1. /\ fd' = [t EXCEPT ![p[1]] = RdEnd(c + 1), ![p[2]] = WrEnd(c + 1)]
        /\ pipes' = [pipes EXCEPT ![j % 2] = p]
    BY DEF R_Build
  <1>2. j > 0 => c > 0
    <2>1. \A k \in 1..Len(kids) : kids[k].own \in Nat /\ kids[k].of \in Nat
      <3>1. \A x \in L_Kids : x.own \in Nat /\ x.of \in Nat
        BY DEF L_Kids
      <3> QED
        BY <3>1 DEF L_TypeOK
    <2>2. SUFFICES ASSUME j > 0 PROVE c # 0
      BY <1>0
    <2>3. /\ kids # <<>> /\ kids[Len(kids)].own = c /\ kids[Len(kids)].of = Len(line)
          /\ Len(line) > 1
      BY <1>0, <2>2 DEF L_Order, RunnerInOrder
    <2>4. Len(kids) \in 1..Len(kids)
      BY <2>3 DEF L_TypeOK
    <2>5. kids[Len(kids)].of # 1
      <3>1. \A n \in Nat : n > 1 => n # 1
        OBVIOUS
      <3>2. kids[Len(kids)].of \in Nat /\ kids[Len(kids)].of > 1
        BY <2>1, <2>3, <2>4
      <3> QED
        BY <3>1, <3>2, Zenon
    <2>6. KidInOrder(Len(kids))
      BY <2>4 DEF L_Order
    <2> QED
      BY <2>3, <2>5, <2>6 DEF KidInOrder
  <1> HIDE DEF c
  <1>3. t = (IF j % 2 = 0 THEN Table(0, IF j > 0 THEN c ELSE 0) ELSE Table(c, 0))
        /\ (j > 1 => pipes[(j + 1) % 2] = Pair((j + 1) % 2) /\ pipes[j % 2] = Pair(j % 2))
        /\ (j > 0 => pipes[(j + 1) % 2] = Pair((j + 1) % 2))
    <2>1. CASE j = 0
      BY <1>0, <2>1 DEF RunnerTable
    <2>2. CASE j > 0
      <3>1. /\ fd = TableOf(j - 1, c) /\ pipes[(j - 1) % 2] = Pair((j - 1) % 2)
            /\ j > 1 => pipes[j % 2] = Pair(j % 2)
            /\ (j - 1) % 2 = (j + 1) % 2 /\ (j - 1) % 2 = 1 - (j % 2)
        BY <1>0, <2>2, Parity DEF RunnerTable, c
      <3>2. CASE j % 2 = 0
        <4>1. j > 1 /\ fd = Table(c - 1, c) /\ pipes[j % 2] = <<4, 5>> /\ c - 1 \in Nat
          BY <1>0, <1>2, <2>2, <3>1, <3>2 DEF TableOf, Pair
        <4>2. CloseBoth(fd, pipes[j % 2]) = Table(0, c)
          BY <1>0, <4>1, Tables
        <4> QED
          BY <2>2, <3>1, <3>2, <4>1, <4>2
      <3>3. CASE j % 2 = 1
        <4>1. fd = Table(c, IF j - 1 > 0 THEN c - 1 ELSE 0) /\ (j > 1 => c - 1 \in Nat)
          BY <1>0, <1>2, <2>2, <3>1, <3>3 DEF TableOf
        <4>2. pipes[j % 2] = <<6, 7>> \/ (j = 1 /\ \E g \in Garbage : pipes[j % 2] = <<g, g>>)
          BY <1>0, <2>2, <3>1, <3>3 DEF RunnerTable, Pair
        <4>3. CASE pipes[j % 2] = <<6, 7>>
          <5>1. (IF j - 1 > 0 THEN c - 1 ELSE 0) \in Nat
            BY <1>0, <4>1
          <5>2. CloseBoth(fd, pipes[j % 2]) = Table(c, 0)
            BY <1>0, <4>1, <4>3, <5>1, Tables
          <5> QED
            BY <2>2, <3>1, <3>3, <5>2
        <4>4. CASE j = 1 /\ \E g \in Garbage : pipes[j % 2] = <<g, g>>
          <5>1. PICK g \in Garbage : pipes[j % 2] = <<g, g>>
            BY <4>4
          <5>2. fd = Table(c, 0) /\ g \in Int /\ ~ InUse(fd, g)
            BY <1>0, <2>2, <4>1, <4>4, <5>1 DEF ClosesForeign
          <5>3. CloseBoth(fd, pipes[j % 2]) = Table(c, 0)
            BY <1>0, <5>1, <5>2, Tables
          <5> QED
            BY <2>2, <3>1, <3>3, <4>4, <5>3
        <4> QED
          BY <4>2, <4>3, <4>4
      <3> QED
        BY <1>0, <3>2, <3>3
    <2> QED
      BY <1>0, <2>1, <2>2
  <1> HIDE DEF t
  <1>4. CASE j % 2 = 0
    <2>1. p = <<4, 5>> /\ fd' = Table(c + 1, IF j > 0 THEN c ELSE 0)
      <3> DEFINE a == IF j > 0 THEN c ELSE 0
      <3>1. a \in Nat /\ t = Table(0, a)
        BY <1>0, <1>3, <1>4
      <3> HIDE DEF a
      <3>2. p = <<4, 5>> /\ [t EXCEPT ![4] = RdEnd(c + 1), ![5] = WrEnd(c + 1)] = Table(c + 1, a)
        BY <1>0, <3>1, NewPipe
      <3> HIDE DEF p
      <3>3. fd' = [t EXCEPT ![4] = RdEnd(c + 1), ![5] = WrEnd(c + 1)]
        BY <1>1, <3>2
      <3> QED
        BY <3>2, <3>3 DEF a
    <2>2. fd' = TableOf(j, c + 1) /\ p = Pair(j % 2)
      BY <1>0, <1>4, <2>1 DEF TableOf, Pair
    <2> HIDE DEF p
    <2>3. pipes'[j % 2] = p /\ pipes'[(j + 1) % 2] = pipes[(j + 1) % 2]
      BY <1>0, <1>1, <1>4, Parity
    <2>4. \A x \in 0..1 : x = j % 2 \/ pipes'[x] = pipes[x]
      BY <1>0, <1>1
    <2> QED
      BY <1>3, <2>2, <2>3, <2>4 DEF RunnerTable, c
  <1>5. CASE j % 2 = 1
    <2>1. p = <<6, 7>> /\ fd' = Table(c, c + 1) /\ j > 0
      <3>0. j > 0
        BY <1>0, <1>5
      <3>1. t = Table(c, 0) /\ c > 0
        BY <1>2, <1>3, <1>5, <3>0
      <3>2. p = <<6, 7>> /\ [t EXCEPT ![6] = RdEnd(c + 1), ![7] = WrEnd(c + 1)] = Table(c, c + 1)
        BY <1>0, <3>1, NewPipe
      <3> HIDE DEF p
      <3>3. fd' = [t EXCEPT ![6] = RdEnd(c + 1), ![7] = WrEnd(c + 1)]
        BY <1>1, <3>2
      <3> QED
        BY <3>0, <3>2, <3>3
    <2>2. fd' = TableOf(j, c + 1) /\ p = Pair(j % 2)
      BY <1>0, <1>5, <2>1 DEF TableOf, Pair
    <2> HIDE DEF p
    <2>3. pipes'[j % 2] = p /\ pipes'[(j + 1) % 2] = pipes[(j + 1) % 2]
      BY <1>0, <1>1, <1>5, Parity
    <2>4. \A x \in 0..1 : x = j % 2 \/ pipes'[x] = pipes[x]
      BY <1>0, <1>1
    <2> QED
      BY <1>3, <2>2, <2>3, <2>4 DEF RunnerTable, c
  <1> QED
    BY <1>0, <1>4, <1>5

(* When a pipeline is built the runner has closed all its pipes.            *)
LEMMA BuiltTable ==
    ASSUME L_TypeOK, L_Order, RunnerTable, R_Built
    PROVE  fd' = Table(0, 0)
  <1> DEFINE c == Len(content)
  <1>1. /\ j \in Nat /\ Len(line) \in Nat /\ phase = "build" /\ j = Len(line) /\ c \in Nat
        /\ fd' = CloseBoth(CloseBoth(fd, pipes[j % 2]), pipes[(j + 1) % 2])
    BY DEF L_TypeOK, R_Built
  <1>2. j > 1
    BY <1>1 DEF L_Order, RunnerInOrder
  <1>3. /\ fd = TableOf(j - 1, c) /\ pipes[(j + 1) % 2] = Pair((j + 1) % 2)
        /\ pipes[j % 2] = Pair(j % 2)
    BY <1>1, <1>2, Parity DEF RunnerTable
  <1>4. c > 0
    <2>1. kids # <<>> /\ kids[Len(kids)].own = c /\ kids[Len(kids)].of = Len(line)
      BY <1>1, <1>2 DEF L_Order, RunnerInOrder
    <2>2. Len(kids) \in 1..Len(kids)
      BY <2>1 DEF L_TypeOK
    <2>3. KidInOrder(Len(kids))
      BY <2>2 DEF L_Order
    <2>4. kids[Len(kids)].of # 1
      BY <1>1, <1>2, <2>1
    <2> QED
      BY <1>1, <2>1, <2>3, <2>4 DEF KidInOrder
  <1> HIDE DEF c
  <1>5. c - 1 \in Nat
    BY <1>1, <1>4
  <1>6. CASE j % 2 = 0
    <2>1. (j - 1) % 2 = 1 /\ (j + 1) % 2 = 1
      BY <1>1, <1>2, <1>6, Parity
    <2>2. fd = Table(c - 1, c) /\ pipes[j % 2] = <<4, 5>> /\ pipes[(j + 1) % 2] = <<6, 7>>
      BY <1>3, <1>6, <2>1 DEF TableOf, Pair
    <2> QED
      BY <1>1, <1>5, <2>2, Tables
  <1>7. CASE j % 2 = 1
    <2>1. (j - 1) % 2 = 0 /\ (j + 1) % 2 = 0 /\ j - 1 > 0
      BY <1>1, <1>2, <1>7, Parity
    <2>2. fd = Table(c, c - 1) /\ pipes[j % 2] = <<6, 7>> /\ pipes[(j + 1) % 2] = <<4, 5>>
      BY <1>3, <1>7, <2>1 DEF TableOf, Pair
    <2> QED
      BY <1>1, <1>5, <2>2, Tables
  <1> QED
    BY <1>1, <1>6, <1>7, Parity

(* Numbers of a child, and its place among the others.                      *)
LEMMA KidNumbersIn ==
    ASSUME L_TypeOK, L_Order, NEW k \in 1..Len(kids)
    PROVE  LET x == kids[k] IN
              /\ x \in L_Kids /\ x.n \in Nat /\ x.of \in Nat /\ x.own \in Nat /\ x.todo \in Nat
              /\ x.got \in Nat /\ x.printed \in Nat /\ x.n < x.of
              /\ x.own <= Len(content) /\ (x.own = 0 <=> x.of = 1)
              /\ x.n > 0 => x.own > 1 /\ k - 1 \in 1..Len(kids) /\ Follows(x, kids[k - 1])
  <1>1. kids[k] \in L_Kids /\ KidInOrder(k) /\ Len(kids) \in Nat
    BY DEF L_TypeOK, L_Order
  <1>2. \A x \in L_Kids : /\ x.n \in Nat /\ x.of \in Nat /\ x.own \in Nat /\ x.todo \in Nat
                          /\ x.got \in Nat /\ x.printed \in Nat
    BY DEF L_Kids
  <1>3. /\ kids[k].n < kids[k].of /\ kids[k].own <= Len(content)
        /\ (kids[k].own = 0 <=> kids[k].of = 1)
    BY <1>1 DEF KidInOrder, IsOfLine
  <1>4. ASSUME kids[k].n > 0
        PROVE  kids[k].own > 1 /\ k - 1 \in 1..Len(kids) /\ Follows(kids[k], kids[k - 1])
    <2>1. k > 1 /\ Follows(kids[k], kids[k - 1])
      BY <1>1, <1>4 DEF KidInOrder
    <2>2. k - 1 \in 1..Len(kids)
      BY <1>1, <2>1
    <2>3. kids[k - 1] \in L_Kids /\ KidInOrder(k - 1)
      BY <2>2 DEF L_TypeOK, L_Order
    <2>4. kids[k].of > 1 /\ kids[k].of \in Nat
      BY <1>1, <1>2, <1>3, <1>4
    <2>5. kids[k - 1].of # 1
      <3>1. \A n \in Nat : n > 1 => n # 1
        OBVIOUS
      <3>2. kids[k - 1].of \in Nat /\ kids[k - 1].of > 1
        BY <2>1, <2>4 DEF Follows
      <3> QED
        BY <3>1, <3>2, Zenon
    <2>6. kids[k - 1].own \in Nat /\ kids[k - 1].own # 0
      BY <1>2, <2>3, <2>5 DEF KidInOrder
    <2> QED
      BY <2>1, <2>2, <2>6 DEF Follows
  <1> QED
    BY <1>1, <1>2, <1>3, <1>4

(* Every end is where it should be.                                         *)
LEMMA NextDescriptors ==
    ASSUME ~ ClosesForeign, L_TypeOK, L_Order, L_Descriptors, L_Next
    PROVE  L_Descriptors'
  <1>0. /\ kids \in Seq(L_Kids) /\ j \in Nat /\ content \in Seq(Nat) /\ Len(kids) \in Nat
        /\ fd \in L_Tables /\ pipes \in [0..1 -> L_Pairs] /\ RunnerTable
        /\ \A k \in 1..Len(kids) : L_Wiring(kids[k])
    BY DEF L_TypeOK, L_Descriptors
  <1>1. CASE R_GetLine \/ R_Eof \/ R_Waited
    <2>1. /\ UNCHANGED <<pipes, kids, content>> /\ phase \in {"getline", "wait"}
          /\ phase' # "done" => fd' = fd
          /\ phase' = "build" => j' = 0
      BY <1>1 DEF R_GetLine, R_Eof, R_Waited, text
    <2>2. RunnerTable'
      BY <1>0, <2>1 DEF RunnerTable
    <2> QED
      BY <1>0, <2>1, <2>2 DEF L_Descriptors, L_Wiring
  <1>2. ASSUME NEW x \in L_Kids, kids' = Append(kids, x), L_Wiring(x), RunnerTable'
        PROVE  L_Descriptors'
    <2>1. /\ Len(kids') = Len(kids) + 1 /\ kids'[Len(kids')] = x
          /\ \A k \in 1..Len(kids) : kids'[k] = kids[k]
          /\ \A k \in 1..Len(kids') : k \in 1..Len(kids) \/ k = Len(kids')
      BY <1>0, <1>2
    <2>2. \A k \in 1..Len(kids') : L_Wiring(kids'[k])
      BY <1>0, <1>2, <2>1
    <2> QED
      BY <1>2, <2>2 DEF L_Descriptors, L_Wiring
  <1>3. CASE R_Vfork
    <2> DEFINE x == Kid(0, fd, pipes)
    <2>1. /\ kids' = Append(kids, x) /\ phase = "vfork" /\ phase' = "wait"
          /\ UNCHANGED <<pipes, fd, content>>
          /\ ran # <<>> /\ line = script[Last(ran)] /\ Len(line) = 1
      BY <1>3 DEF R_Vfork, L_Order, RunnerInOrder, text
    <2>2. x \in L_Kids /\ x.of = 1 /\ x.at = "forked" /\ x.fd = fd
      <3>1. 0 \in Nat /\ 0 < Len(line)
        BY <2>1
      <3> QED
        BY <1>0, <2>1, <3>1, KidIs
    <2> HIDE DEF x
    <2>3. fd = Table(0, 0) /\ RunnerTable'
      BY <1>0, <2>1 DEF RunnerTable
    <2>4. L_Wiring(x)
      BY <2>2, <2>3 DEF L_Wiring
    <2> QED
      BY <1>2, <2>1, <2>2, <2>3, <2>4
  <1>4. CASE R_Build
    <2> DEFINE x == Kid(j, fd', pipes')
    <2>1. /\ kids' = Append(kids, x) /\ phase = "build" /\ phase' = "build"
          /\ content' = Append(content, 0) /\ j' = j + 1
          /\ ran # <<>> /\ line = script[Last(ran)] /\ Len(line) > 1 /\ j < Len(line)
      BY <1>4 DEF R_Build, L_Order, RunnerInOrder, text
    <2>2. fd' \in L_Tables /\ pipes' \in [0..1 -> L_Pairs]
      <3>1. L_TypeOK'
        BY <1>4, NextLTypeOK DEF L_Next, Runner
      <3> QED
        BY <3>1 DEF L_TypeOK
    <2>3. /\ x \in L_Kids /\ x.n = j /\ x.of = Len(line) /\ x.at = "forked" /\ x.fd = fd'
          /\ x.pipes = pipes' /\ x.own = IF Len(line) = 1 THEN 0 ELSE Len(content) + 1
      BY <1>0, <2>1, <2>2, KidIs
    <2> HIDE DEF x
    <2>4. x.of # 1 /\ x.own = Len(content) + 1
      <3>1. \A n \in Nat : n > 1 => n # 1
        OBVIOUS
      <3>2. Len(line) \in Nat
        BY DEF L_TypeOK
      <3>3. Len(line) # 1
        BY <2>1, <3>1, <3>2, Zenon
      <3> QED
        BY <2>3, <3>3
    <2>5. /\ fd' = TableOf(j, Len(content) + 1) /\ pipes'[j % 2] = Pair(j % 2)
          /\ j > 0 => pipes'[(j + 1) % 2] = Pair((j + 1) % 2)
          /\ \A y \in 0..1 : pipes'[y] = Pair(y) \/ \E g \in Garbage : pipes'[y] = <<g, g>>
      BY <1>0, <1>4, BuildTable
    <2>6. L_Wiring(x)
      BY <2>3, <2>4, <2>5 DEF L_Wiring
    <2>7. RunnerTable'
      <3>1. Len(content') = Len(content) + 1 /\ j' # 0 /\ j' - 1 = j /\ (j' > 1 <=> j > 0)
        BY <1>0, <2>1
      <3> QED
        BY <2>1, <2>5, <3>1 DEF RunnerTable
    <2> QED
      BY <1>2, <2>1, <2>3, <2>6, <2>7
  <1>5. CASE R_Built
    <2>1. UNCHANGED <<pipes, kids>> /\ phase' = "wait" /\ fd' = Table(0, 0)
      BY <1>0, <1>5, BuiltTable DEF R_Built
    <2>2. RunnerTable'
      BY <1>0, <2>1 DEF RunnerTable
    <2> QED
      BY <1>0, <2>1, <2>2 DEF L_Descriptors, L_Wiring
  <1>6. ASSUME NEW k \in DOMAIN kids, K_Step(k)
        PROVE  L_Descriptors'
    <2>1. k \in 1..Len(kids)
      BY <1>0
    <2> DEFINE x == kids[k]
               y == kids'[k]
    <2>2. /\ UNCHANGED <<phase, j, pipes, fd>> /\ Len(content') = Len(content)
          /\ Len(kids') = Len(kids) /\ \A m \in 1..Len(kids) : m # k => kids'[m] = kids[m]
          /\ SameKid(x, y)
          /\ \/ y.at = "ended"
             \/ y.at = x.at /\ y.fd = x.fd
             \/ K_Exec(k) /\ y.at = "runs" /\ y.fd = Wired(x)
      BY <1>6, <2>1, KidStep, KidTouches DEF place, K_Step
    <2>3. RunnerTable'
      BY <1>0, <2>2 DEF RunnerTable
    <2>4. L_Wiring(x) /\ x \in L_Kids
      BY <1>0, <2>1
    <2>8. L_Wiring(y)
      <3>1. CASE y.at = "ended"
        BY <3>1 DEF L_Wiring
      <3>2. CASE y.at = x.at /\ y.fd = x.fd
        BY <2>2, <2>4, <3>2 DEF L_Wiring, SameKid
      <3>3. CASE K_Exec(k) /\ y.at = "runs" /\ y.fd = Wired(x)
        <4>1. x.at = "forked"
          BY <3>3 DEF K_Exec
        <4>2. x.n < x.of /\ (x.own = 0 <=> x.of = 1) /\ (x.n > 0 => x.own > 1)
          BY <2>1, KidNumbersIn
        <4>3. /\ Wired(x)[0] = IF x.n = 0 THEN Tty ELSE RdEnd(x.own - 1)
              /\ Wired(x)[1] = IF x.n = x.of - 1 THEN Tty ELSE WrEnd(x.own)
          <5> HIDE DEF x
          <5> QED
            BY <2>4, <4>1, <4>2, WiredIs
        <4> QED
          BY <2>2, <3>3, <4>3 DEF L_Wiring, SameKid
      <3> QED
        BY <2>2, <3>1, <3>2, <3>3
    <2>9. \A m \in 1..Len(kids') : L_Wiring(kids'[m])
      BY <1>0, <2>2, <2>8
    <2> QED
      BY <2>3, <2>9 DEF L_Descriptors, L_Wiring
  <1> QED
    BY <1>1, <1>3, <1>4, <1>5, <1>6 DEF L_Next, Runner

(* A program of such a line: the first writes, the others pass on.          *)
LEMMA FlowPrograms ==
    ASSUME L_TypeOK, L_Order, NEW k \in 1..Len(kids), Flows(kids[k])
    PROVE  /\ kids[k].program = IF kids[k].n = 0 THEN "list" ELSE "copy"
           /\ kids[k].n > 0 => Flows(kids[k - 1])
           /\ k < Len(kids) /\ kids[k + 1].line = kids[k].line => Flows(kids[k + 1])
  <1>1. /\ kids[k].n \in Nat /\ kids[k].of \in Nat /\ kids[k].n < kids[k].of
        /\ kids[k].n > 0 => k - 1 \in 1..Len(kids) /\ Follows(kids[k], kids[k - 1])
    BY KidNumbersIn
  <1>2. /\ kids[k].program = script[kids[k].line][kids[k].n + 1]
        /\ kids[k].of = Len(script[kids[k].line])
    BY DEF L_Order, KidInOrder, IsOfLine
  <1>3. kids[k].program = IF kids[k].n = 0 THEN "list" ELSE "copy"
    <2>1. kids[k].n # 0 => kids[k].n + 1 \in 2..kids[k].of
      BY <1>1
    <2> QED
      BY <1>1, <1>2, <2>1 DEF Flows
  <1>4. kids[k].n > 0 => Flows(kids[k - 1])
    BY <1>1 DEF Flows, Follows
  <1>5. k < Len(kids) /\ kids[k + 1].line = kids[k].line => Flows(kids[k + 1])
    <2> SUFFICES ASSUME k < Len(kids), kids[k + 1].line = kids[k].line PROVE Flows(kids[k + 1])
      OBVIOUS
    <2>1. k + 1 \in 1..Len(kids)
      BY DEF L_TypeOK
    <2>2. kids[k + 1].of = Len(script[kids[k + 1].line])
      BY <2>1 DEF L_Order, KidInOrder, IsOfLine
    <2> QED
      BY <1>2, <2>2 DEF Flows
  <1> QED
    BY <1>3, <1>4, <1>5

(* While a program of a pipeline has not ended, the end it reads from and   *)
(* the end it writes to are open.                                           *)
LEMMA EndsHeld ==
    ASSUME L_TypeOK, L_Order, L_Descriptors, NEW k \in 1..Len(kids), kids[k].at # "ended"
    PROVE  /\ kids[k].n > 0 => IsOpen(RdEnd(kids[k].own - 1))
           /\ kids[k].n < kids[k].of - 1 => IsOpen(WrEnd(kids[k].own))
  <1> DEFINE x == kids[k]
  <1>1. /\ x \in L_Kids /\ x.n \in Nat /\ x.of \in Nat /\ x.own \in Nat /\ x.n < x.of
        /\ (x.own = 0 <=> x.of = 1) /\ (x.n > 0 => x.own > 1)
    BY KidNumbersIn
  <1>2. x.at \in {"forked", "runs"} /\ L_Wiring(x) /\ k \in DOMAIN kids
    <2>1. x.at \in {"forked", "runs", "ended"}
      BY <1>1 DEF L_Kids
    <2> QED
      BY <2>1 DEF L_Descriptors, L_TypeOK
  <1> HIDE DEF x
  <1>3. /\ x.n > 0 => Holds(x.fd, RdEnd(x.own - 1))
        /\ x.n < x.of - 1 => Holds(x.fd, WrEnd(x.own))
    <2>1. CASE x.at = "forked"
      <3>1. SUFFICES ASSUME x.n > 0 \/ x.n < x.of - 1
                     PROVE  /\ x.n > 0 => Holds(x.fd, RdEnd(x.own - 1))
                            /\ Holds(x.fd, WrEnd(x.own))
        OBVIOUS
      <3>2. x.of # 1 /\ x.own > 0
        <4>1. \A n \in Nat : n > 1 => n # 1
          OBVIOUS
        <4>2. x.of > 1
          BY <1>1, <3>1
        <4>3. x.of # 1
          BY <1>1, <4>1, <4>2, Zenon
        <4> QED
          BY <1>1, <4>3
      <3>3. x.fd = TableOf(x.n, x.own)
        BY <1>2, <2>1, <3>2 DEF L_Wiring
      <3> QED
        BY <1>1, <3>2, <3>3, TableHolds
    <2>2. CASE x.at = "runs"
      <3>1. x.fd[0] = (IF x.n = 0 THEN Tty ELSE RdEnd(x.own - 1))
            /\ x.fd[1] = (IF x.n = x.of - 1 THEN Tty ELSE WrEnd(x.own))
        BY <1>2, <2>2 DEF L_Wiring
      <3> QED
        BY <1>1, <3>1 DEF Holds, FDs
    <2> QED
      BY <1>2, <2>1, <2>2
  <1> QED
    BY <1>2, <1>3 DEF IsOpen, x

(* No program of such a line fails to start or loses its reader.            *)
LEMMA FlowsOn ==
    ASSUME L_TypeOK, L_Order, L_Descriptors, L_Flow, NEW k \in 1..Len(kids), Flows(kids[k]),
           K_Step(k)
    PROVE  ~ K_NoExec(k) /\ ~ K_BrokenPipe(k)
  <1> DEFINE x == kids[k]
  <1>1. /\ x \in L_Kids /\ x.n \in Nat /\ x.of \in Nat /\ x.own \in Nat /\ x.n < x.of
        /\ x.own <= Len(content) /\ (x.own = 0 <=> x.of = 1) /\ (x.n > 0 => x.own > 1)
    BY KidNumbersIn
  <1>2. x.program # "missing" /\ L_Wiring(x) /\ k \in DOMAIN kids
    <2>1. x.program = IF x.n = 0 THEN "list" ELSE "copy"
      BY FlowPrograms
    <2>2. L_Wiring(x)
      BY DEF L_Descriptors
    <2>3. k \in DOMAIN kids
      BY DEF L_TypeOK
    <2> QED
      BY <2>1, <2>2, <2>3
  <1>3. ~ K_NoExec(k)
    <2>1. SUFFICES ASSUME K_NoExec(k) PROVE FALSE
      OBVIOUS
    <2>2. x.at = "forked" /\ ~ CanWire(x)
      BY <1>2, <2>1 DEF K_NoExec
    <2> HIDE DEF x
    <2> QED
      BY <1>1, <1>2, <2>2, WiredIs
  <1>4. ~ K_BrokenPipe(k)
    <2>1. SUFFICES ASSUME K_BrokenPipe(k) PROVE FALSE
      OBVIOUS
    <2>2. PICK p \in DOMAIN content :
             x.at = "runs" /\ x.fd[1] = WrEnd(p) /\ ~ IsOpen(RdEnd(p))
      BY <2>1 DEF K_BrokenPipe, K_Writing
    <2>3. x.n # x.of - 1 /\ p = x.own
      BY <1>2, <2>2 DEF L_Wiring, Tty, WrEnd
    <2>4. KidInOrder(k) /\ x.n < x.of - 1
      BY <1>1, <2>3 DEF L_Order
    <2>5. CASE k < Len(kids) /\ Follows(kids[k + 1], kids[k])
      <3>1. k + 1 \in 1..Len(kids) /\ kids[k + 1].n > 0 /\ kids[k + 1].own - 1 = x.own
            /\ kids[k + 1].line = x.line
        <4>1. k + 1 \in 1..Len(kids)
          BY <2>5 DEF L_TypeOK
        <4>2. /\ kids[k + 1].n = x.n + 1 /\ kids[k + 1].own = x.own + 1
              /\ kids[k + 1].line = x.line
          BY <2>5 DEF Follows
        <4>3. x.n \in Nat /\ x.own \in Nat
          BY <1>1
        <4>4. \A l \in Nat : l + 1 > 0 /\ l + 1 - 1 = l
          OBVIOUS
        <4> QED
          BY <4>1, <4>2, <4>3, <4>4
      <3>2. kids[k + 1].at = "ended"
        BY <2>2, <2>3, <3>1, EndsHeld
      <3>3. Flows(kids[k + 1]) /\ FlowOf(k + 1)
        BY <2>5, <3>1, FlowPrograms DEF L_Flow
      <3>4. kids[k + 1 - 1].at = "ended" /\ k + 1 - 1 = k
        BY <3>1, <3>2, <3>3 DEF FlowOf
      <3> QED
        BY <2>2, <3>4
    <2>6. CASE k = Len(kids) /\ phase = "build" /\ j = x.n + 1
      <3>1. j > 0 /\ j # 0 /\ j - 1 = x.n
        <4>1. x.n \in Nat
          BY <1>1
        <4>2. \A l \in Nat : l + 1 > 0 /\ l + 1 # 0 /\ l + 1 - 1 = l
          OBVIOUS
        <4> QED
          BY <2>6, <4>1, <4>2
      <3>2. x.own = Len(content) /\ fd = TableOf(x.n, Len(content))
        BY <2>6, <3>1 DEF L_Order, RunnerInOrder, L_Descriptors, RunnerTable
      <3>3. x.own \in Nat \ {0}
        <4>1. \A n \in Nat : n > 1 => n # 1
          OBVIOUS
        <4>2. x.of > 1
          BY <1>1, <2>4
        <4>3. x.of # 1
          BY <1>1, <4>1, <4>2, Zenon
        <4> QED
          BY <1>1, <4>3
      <3>4. Holds(fd, RdEnd(x.own))
        <4> HIDE DEF x
        <4> QED
          BY <1>1, <3>2, <3>3, TableHolds
      <3> QED
        BY <2>2, <2>3, <3>4 DEF IsOpen
    <2> QED
      BY <2>4, <2>5, <2>6 DEF KidInOrder
  <1> QED
    BY <1>3, <1>4

(* The pipe a step of a child changes is its own or the one before.         *)
LEMMA PipeOfStep ==
    ASSUME L_TypeOK, L_Order, L_Descriptors, NEW k \in 1..Len(kids)
    PROVE  LET x == kids[k] IN
              /\ K_Write(k) => /\ x.n < x.of - 1 /\ x.own \in 1..Len(content)
                               /\ content' = [content EXCEPT ![x.own] = @ + 1]
              /\ K_Read(k) => /\ x.n > 0 /\ x.own - 1 \in 1..Len(content)
                              /\ content[x.own - 1] > 0
                              /\ content' = [content EXCEPT ![x.own - 1] = @ - 1]
              /\ K_Print(k) => x.n = x.of - 1
  <1> DEFINE x == kids[k]
  <1>1. /\ x.n \in Nat /\ x.of \in Nat /\ x.own \in Nat /\ x.n < x.of
        /\ (x.n > 0 => x.own > 1)
    BY KidNumbersIn
  <1>2. L_Wiring(x) /\ content \in Seq(Nat)
    BY DEF L_Descriptors, L_TypeOK
  <1>3. ASSUME K_Write(k)
        PROVE  /\ x.n < x.of - 1 /\ x.own \in 1..Len(content)
               /\ content' = [content EXCEPT ![x.own] = @ + 1]
    <2>1. PICK p \in DOMAIN content : /\ x.at = "runs" /\ x.fd[1] = WrEnd(p)
                                      /\ content' = [content EXCEPT ![p] = @ + 1]
      BY <1>3 DEF K_Write, K_Writing
    <2>2. x.n # x.of - 1 /\ p = x.own
      BY <1>2, <2>1 DEF L_Wiring, Tty, WrEnd
    <2>3. x.n < x.of - 1
      BY <1>1, <2>2
    <2>4. p \in 1..Len(content)
      BY <1>2, <2>1
    <2> QED
      BY <2>1, <2>2, <2>3, <2>4
  <1>4. ASSUME K_Read(k)
        PROVE  /\ x.n > 0 /\ x.own - 1 \in 1..Len(content) /\ content[x.own - 1] > 0
               /\ content' = [content EXCEPT ![x.own - 1] = @ - 1]
    <2>1. PICK p \in DOMAIN content : /\ x.at = "runs" /\ x.fd[0] = RdEnd(p) /\ content[p] > 0
                                      /\ content' = [content EXCEPT ![p] = @ - 1]
      BY <1>4 DEF K_Read, K_Reading
    <2>2. x.n # 0 /\ p = x.own - 1
      BY <1>2, <2>1 DEF L_Wiring, Tty, RdEnd
    <2>3. x.n > 0 /\ p \in 1..Len(content)
      BY <1>1, <1>2, <2>2
    <2> QED
      BY <2>1, <2>2, <2>3
  <1>5. ASSUME K_Print(k) PROVE x.n = x.of - 1
    <2>1. x.at = "runs" /\ x.fd[1] = Tty
      BY <1>5 DEF K_Print, K_Writing
    <2> QED
      BY <1>2, <2>1 DEF L_Wiring, Tty, WrEnd
  <1> QED
    BY <1>3, <1>4, <1>5

(* No two children have the same pipe.                                      *)
LEMMA OwnPipes ==
    ASSUME L_TypeOK, L_Order, NEW k \in 1..Len(kids), NEW m \in 1..Len(kids), k # m,
           kids[k].own > 0
    PROVE  kids[m].own # kids[k].own
  <1>1. /\ kids[k].own \in Nat /\ kids[m].own \in Nat /\ Len(kids) \in Nat
    <2>1. kids[k].own \in Nat
      BY KidNumbersIn
    <2>2. kids[m].own \in Nat
      BY KidNumbersIn
    <2> QED
      BY <2>1, <2>2 DEF L_TypeOK
  <1>2. k < m \/ m < k
    OBVIOUS
  <1>3. CASE k < m
    <2>1. kids[m].own > 0 => kids[k].own < kids[m].own
      BY <1>3 DEF L_Order, PipesInOrder
    <2> QED
      BY <1>1, <2>1
  <1>4. CASE m < k
    <2>1. kids[m].own < kids[k].own
      BY <1>4 DEF L_Order, PipesInOrder
    <2> QED
      BY <1>1, <2>1
  <1> QED
    BY <1>2, <1>3, <1>4

(* A program of such a line ends when it has passed on everything.          *)
LEMMA FlowEnds ==
    ASSUME L_TypeOK, L_Order, L_Descriptors, L_Flow, NEW k \in 1..Len(kids), Flows(kids[k]),
           K_End(k)
    PROVE  /\ kids[k].todo = 0 /\ Passed(kids[k]) = Items
           /\ kids[k].n > 0 => kids[k - 1].at = "ended"
  <1> DEFINE x == kids[k]
             prev == kids[k - 1]
  <1>1. /\ x.n \in Nat /\ x.of \in Nat /\ x.own \in Nat /\ x.got \in Nat /\ x.n < x.of
        /\ x.own <= Len(content) /\ content \in Seq(Nat) /\ Items \in Nat
        /\ x.n > 0 => x.own > 1 /\ k - 1 \in 1..Len(kids) /\ Follows(x, prev)
    BY KidNumbersIn, PipelineConstants DEF L_TypeOK
  <1>2. x.program = IF x.n = 0 THEN "list" ELSE "copy"
    BY FlowPrograms
  <1>3. x.at = "runs" /\ x.todo = 0
    BY DEF K_End
  <1>4. CASE x.n = 0
    BY <1>1, <1>2, <1>3, <1>4 DEF Passed
  <1>5. CASE x.n > 0
    <2> DEFINE q == x.own - 1
    <2>1. q \in DOMAIN content /\ x.fd[0] = RdEnd(q)
      <3>1. L_Wiring(x)
        BY DEF L_Descriptors
      <3>2. x.fd[0] = RdEnd(q)
        BY <1>1, <1>3, <1>5, <3>1 DEF L_Wiring
      <3> QED
        BY <1>1, <1>5, <3>2
    <2>2. K_Reading(x)
      BY <1>1, <1>2, <1>3, <1>5 DEF K_Reading
    <2>3. content[q] = 0 /\ ~ IsOpen(WrEnd(q))
      BY <2>1, <2>2 DEF K_End
    <2>4. /\ k - 1 \in 1..Len(kids) /\ prev.own = q /\ prev.n < prev.of - 1 /\ k - 1 < Len(kids)
          /\ prev.own \in Nat /\ prev.n \in Nat /\ prev.of \in Nat
      <3>1. k - 1 \in 1..Len(kids) /\ Follows(x, prev)
        BY <1>1, <1>5
      <3>2. prev.own \in Nat /\ prev.n \in Nat /\ prev.of \in Nat
        BY <3>1, KidNumbersIn
      <3>3. x.of = prev.of /\ x.n = prev.n + 1 /\ x.own = prev.own + 1
        BY <3>1 DEF Follows
      <3>4. prev.own = q
        <4>1. \A m \in Nat : (m + 1) - 1 = m
          OBVIOUS
        <4> QED
          BY <3>2, <3>3, <4>1
      <3>6. prev.n < prev.of - 1
        <4>1. x.n < x.of
          BY <1>1
        <4> QED
          BY <3>2, <3>3, <4>1
      <3>5. k - 1 < Len(kids)
        BY DEF L_TypeOK
      <3> QED
        BY <3>1, <3>2, <3>4, <3>5, <3>6
    <2>5. prev.at = "ended"
      BY <2>3, <2>4, EndsHeld
    <2>6. Flows(prev) /\ FlowOf(k - 1)
      BY <1>5, <2>4, FlowPrograms DEF L_Flow
    <2>7. Passed(prev) = Items /\ Passed(prev) = content[q] + x.got
      <3>1. k - 1 + 1 = k
        OBVIOUS
      <3> QED
        BY <2>4, <2>5, <2>6, <3>1 DEF FlowOf
    <2>8. x.got = Items
      BY <1>1, <2>3, <2>7
    <2> QED
      BY <1>1, <1>2, <1>3, <1>5, <2>5, <2>8 DEF Passed
  <1> QED
    BY <1>1, <1>4, <1>5

(* A new child finds its pipe empty.                                        *)
LEMMA FlowGrows ==
    ASSUME L_TypeOK, L_Order, L_Flow, NEW x \in L_Kids, kids' = Append(kids, x),
           script' = script, x.at = "forked", x.got = 0, x.printed = 0,
           x.todo = IF x.program = "list" THEN Items ELSE 0,
           \/ x.n = x.of - 1 /\ content' = content
           \/ x.own = Len(content) + 1 /\ content' = Append(content, 0)
    PROVE  L_Flow'
  <1>0. /\ kids \in Seq(L_Kids) /\ Len(kids) \in Nat /\ content \in Seq(Nat)
        /\ Len(content) \in Nat /\ Items \in Nat
    BY PipelineConstants DEF L_TypeOK
  <1>1. /\ Len(kids') = Len(kids) + 1 /\ kids'[Len(kids) + 1] = x
        /\ \A k \in 1..Len(kids) : kids'[k] = kids[k]
        /\ \A k \in 1..Len(kids') : k \in 1..Len(kids) \/ k = Len(kids) + 1
    BY <1>0
  <1>2. \A q \in 1..Len(content) : content'[q] = content[q]
    BY <1>0
  <1>3. ASSUME NEW k \in 1..Len(kids) PROVE FlowOf(k)'
    <2> DEFINE y == kids[k]
    <2>1. /\ y.n \in Nat /\ y.of \in Nat /\ y.own \in Nat /\ y.n < y.of /\ y.own <= Len(content)
          /\ (y.own = 0 <=> y.of = 1) /\ (y.n > 0 => k - 1 \in 1..Len(kids))
      BY KidNumbersIn
    <2>2. /\ kids'[k] = y /\ (y.n > 0 => kids'[k - 1] = kids[k - 1])
          /\ (IF k < Len(kids') THEN kids'[k + 1].got ELSE 0)
             = (IF k < Len(kids) THEN kids[k + 1].got ELSE 0)
      <3>1. kids'[k] = y /\ (y.n > 0 => kids'[k - 1] = kids[k - 1])
        BY <1>1, <2>1
      <3>2. CASE k < Len(kids)
        <4>1. k + 1 \in 1..Len(kids) /\ k < Len(kids')
          BY <1>0, <1>1, <3>2
        <4>2. kids'[k + 1] = kids[k + 1]
          BY <1>1, <4>1
        <4> QED
          BY <3>1, <3>2, <4>1, <4>2
      <3>3. CASE k = Len(kids)
        <4>1. kids'[k + 1] = x /\ k < Len(kids') /\ ~ (k < Len(kids))
          BY <1>0, <1>1, <3>3
        <4> QED
          BY <3>1, <4>1
      <3>4. k < Len(kids) \/ k = Len(kids)
        BY <1>0
      <3> QED
        BY <3>2, <3>3, <3>4
    <2>3. y.n < y.of - 1 => y.own \in 1..Len(content)
      <3>1. \A n \in Nat : n > 1 => n # 1
        OBVIOUS
      <3>2. y.n < y.of - 1 => y.of > 1
        BY <2>1
      <3>3. y.n < y.of - 1 => y.of # 1
        BY <2>1, <3>1, <3>2, Zenon
      <3> QED
        BY <2>1, <3>3
    <2>4. y.n < y.of - 1 => content'[y.own] = content[y.own]
      BY <1>2, <2>3
    <2>5. Flows(y) =>
             /\ y.at = "ended" => y.todo = 0 /\ Passed(y) = Items
             /\ y.at = "ended" /\ y.n > 0 => kids[k - 1].at = "ended"
             /\ y.n = y.of - 1 => y.printed = Passed(y)
             /\ y.n < y.of - 1 =>
                   Passed(y) = content[y.own] + (IF k < Len(kids) THEN kids[k + 1].got ELSE 0)
      BY DEF L_Flow, FlowOf
    <2>6. Flows(kids[k])' => Flows(y)
      BY <2>2 DEF Flows
    <2> HIDE DEF y
    <2>7. Flows(y) =>
             /\ y.at = "ended" => y.todo = 0 /\ Passed(y) = Items
             /\ y.at = "ended" /\ y.n > 0 => kids'[k - 1].at = "ended"
             /\ y.n = y.of - 1 => y.printed = Passed(y)
             /\ y.n < y.of - 1 =>
                   Passed(y) = content'[y.own] + (IF k < Len(kids') THEN kids'[k + 1].got ELSE 0)
      <3>1. y.at = "ended" /\ y.n > 0 /\ Flows(y) => kids'[k - 1].at = "ended"
        BY <2>2, <2>5
      <3>2. y.n < y.of - 1 /\ Flows(y) =>
               Passed(y) = content'[y.own] + (IF k < Len(kids') THEN kids'[k + 1].got ELSE 0)
        BY <2>2, <2>4, <2>5, Zenon
      <3> QED
        BY <2>5, <3>1, <3>2, Zenon
    <2> QED
      BY <2>2, <2>6, <2>7 DEF FlowOf, Passed
  <1>4. ASSUME NEW k, k = Len(kids) + 1 PROVE FlowOf(k)'
    <2>1. Passed(x) = 0
      <3>1. \A n \in Nat : n - n = 0
        OBVIOUS
      <3> QED
        BY <1>0, <3>1 DEF Passed
    <2>2. x.n < x.of - 1 => content'[x.own] = 0
      <3>1. \A n \in Nat : ~ (n - 1 < n - 1)
        OBVIOUS
      <3>2. x.of \in Nat
        BY DEF L_Kids
      <3>3. x.n = x.of - 1 => ~ (x.n < x.of - 1)
        BY <3>1, <3>2
      <3> QED
        BY <1>0, <3>3
    <2>3. ~ (k < Len(kids'))
      BY <1>0, <1>1, <1>4
    <2>4. kids'[k] = x
      BY <1>1, <1>4
    <2> QED
      BY <2>1, <2>2, <2>3, <2>4 DEF FlowOf
  <1>5. \A k \in 1..Len(kids') : FlowOf(k)'
    BY <1>1, <1>3, <1>4
  <1> QED
    BY <1>5 DEF L_Flow

(* What a child of such a line passes on goes into its pipe or to the       *)
(* terminal, and what it reads comes out of the pipe before.                *)
LEMMA FlowSteps ==
    ASSUME L_TypeOK, L_Order, L_Descriptors, L_Flow, NEW k \in 1..Len(kids), K_Step(k)
    PROVE  L_Flow'
  <1> DEFINE x == kids[k]
             y == kids'[k]
  <1>1. /\ x \in L_Kids /\ x.n \in Nat /\ x.of \in Nat /\ x.own \in Nat /\ x.todo \in Nat
        /\ x.got \in Nat /\ x.printed \in Nat /\ x.n < x.of
        /\ (x.n > 0 => x.own > 1 /\ k - 1 \in 1..Len(kids) /\ Follows(x, kids[k - 1]))
    BY KidNumbersIn
  <1>2. /\ Len(kids') = Len(kids) /\ \A m \in 1..Len(kids) : m # k => kids'[m] = kids[m]
        /\ SameKid(x, y) /\ x.at # "ended" /\ script' = script
        /\ ~ K_Write(k) /\ ~ K_Read(k) => content' = content
    BY KidStep, KidTouches
  <1>3. /\ K_Exec(k) => y.at = "runs" /\ SameCounts(x, y)
        /\ K_NoExec(k) \/ K_BrokenPipe(k) \/ K_End(k) => y.at = "ended" /\ SameCounts(x, y)
        /\ K_Print(k) => y.at = x.at /\ y.todo = x.todo - 1 /\ y.got = x.got
                         /\ y.printed = x.printed + 1
        /\ K_Write(k) => y.at = x.at /\ y.todo = x.todo - 1 /\ y.got = x.got
                         /\ y.printed = x.printed
        /\ K_Read(k) => y.at = x.at /\ y.todo = 1 /\ y.got = x.got + 1 /\ y.printed = x.printed
    BY KidStep
  <1>4. /\ content \in Seq(Nat) /\ Items \in Nat /\ Len(kids) \in Nat
        /\ \A m \in 1..Len(kids) : FlowOf(m)
    BY PipelineConstants DEF L_TypeOK, L_Flow
  <1>5. /\ K_Write(k) => /\ x.n < x.of - 1 /\ x.own \in 1..Len(content)
                         /\ content' = [content EXCEPT ![x.own] = @ + 1]
        /\ K_Read(k) => /\ x.n > 0 /\ x.own - 1 \in 1..Len(content) /\ content[x.own - 1] > 0
                        /\ content' = [content EXCEPT ![x.own - 1] = @ - 1]
        /\ K_Print(k) => x.n = x.of - 1
    BY PipeOfStep
  <1>6. K_Read(k) => x.todo = 0 /\ x.program # "list"
    BY DEF K_Read, K_Reading
  <1>7. K_Print(k) \/ K_Write(k) => x.todo > 0
    BY DEF K_Print, K_Write, K_Writing
  <1> HIDE DEF x, y
  <1>8. /\ K_Print(k) \/ K_Write(k) => Passed(y) = Passed(x) + 1
        /\ ~ K_Print(k) /\ ~ K_Write(k) => Passed(y) = Passed(x)
    <2>1. y.program = x.program
      BY <1>2 DEF SameKid
    <2>2. CASE K_Print(k) \/ K_Write(k)
      <3>1. y.todo = x.todo - 1 /\ y.got = x.got
        BY <1>3, <2>2
      <3> DEFINE given == IF x.program = "list" THEN Items ELSE x.got
      <3>2. given \in Nat /\ Passed(x) = given - x.todo /\ Passed(y) = given - y.todo
        BY <1>1, <1>4, <2>1, <3>1 DEF Passed
      <3> HIDE DEF given
      <3>3. given - (x.todo - 1) = given - x.todo + 1
        BY <1>1, <3>2
      <3> QED
        BY <2>2, <3>1, <3>2, <3>3
    <2>3. CASE K_Read(k)
      <3>1. x.todo = 0 /\ x.program # "list" /\ y.todo = 1 /\ y.got = x.got + 1
        BY <1>3, <1>6, <2>3
      <3>2. ~ K_Print(k) /\ ~ K_Write(k)
        BY <1>7, <3>1
      <3>3. Passed(x) = x.got - 0 /\ Passed(y) = (x.got + 1) - 1
        BY <2>1, <3>1 DEF Passed
      <3>4. x.got \in Nat
        BY <1>1
      <3>5. x.got - 0 = (x.got + 1) - 1
        BY <3>4
      <3> QED
        BY <3>2, <3>3, <3>5, Zenon
    <2>4. CASE K_Exec(k) \/ K_NoExec(k) \/ K_BrokenPipe(k) \/ K_End(k)
      <3>1. SameCounts(x, y) /\ ~ K_Print(k) /\ ~ K_Write(k)
        BY <1>1, <1>3, <2>4 DEF SameCounts
      <3> QED
        BY <2>1, <3>1 DEF Passed, SameCounts
    <2> QED
      BY <2>2, <2>3, <2>4 DEF K_Step
  <1>9. ASSUME Flows(x)
        PROVE  FlowOf(k)'
    <2>1. y.at = "ended" => /\ y.todo = 0 /\ Passed(y) = Items
                            /\ x.n > 0 => kids'[k - 1].at = "ended"
      <3>1. SUFFICES ASSUME y.at = "ended"
                     PROVE  /\ y.todo = 0 /\ Passed(y) = Items
                            /\ x.n > 0 => kids'[k - 1].at = "ended"
        OBVIOUS
      <3>2. ~ K_NoExec(k) /\ ~ K_BrokenPipe(k)
        BY <1>9, FlowsOn DEF x
      <3>3. K_End(k)
        BY <1>2, <1>3, <3>1, <3>2 DEF K_Step
      <3>4. x.todo = 0 /\ Passed(x) = Items /\ (x.n > 0 => kids[k - 1].at = "ended")
        BY <1>9, <3>3, FlowEnds DEF x
      <3>5. SameCounts(x, y)
        BY <1>3, <3>3
      <3>6. x.n > 0 => kids'[k - 1] = kids[k - 1]
        BY <1>1, <1>2
      <3>7. ~ K_Print(k) /\ ~ K_Write(k)
        BY <1>1, <1>3, <3>5 DEF SameCounts
      <3> QED
        BY <1>8, <3>4, <3>5, <3>6, <3>7 DEF SameCounts
    <2>2. FlowOf(k) /\ y.n = x.n /\ y.of = x.of /\ y.own = x.own
      BY <1>2, <1>4 DEF SameKid
    <2>3. y.n = y.of - 1 => y.printed = Passed(y)
      <3>1. SUFFICES ASSUME x.n = x.of - 1 PROVE y.printed = Passed(y)
        BY <2>2
      <3>2. x.printed = Passed(x)
        BY <1>9, <2>2, <3>1 DEF FlowOf, x
      <3>3. ~ K_Write(k)
        BY <1>1, <1>5, <3>1
      <3>4. CASE K_Print(k)
        BY <1>3, <1>8, <3>2, <3>4
      <3>5. CASE ~ K_Print(k)
        <4>1. y.printed = x.printed
          BY <1>3, <3>3, <3>5 DEF K_Step, SameCounts
        <4> QED
          BY <1>8, <3>2, <3>3, <3>5, <4>1
      <3> QED
        BY <3>4, <3>5
    <2>4. y.n < y.of - 1 =>
             Passed(y) = content'[y.own] + (IF k < Len(kids') THEN kids'[k + 1].got ELSE 0)
      <3>1. SUFFICES ASSUME x.n < x.of - 1
                     PROVE  Passed(y) = content'[x.own]
                                        + (IF k < Len(kids') THEN kids'[k + 1].got ELSE 0)
        BY <2>2
      <3> DEFINE next == IF k < Len(kids) THEN kids[k + 1].got ELSE 0
      <3>2. Passed(x) = content[x.own] + next
        BY <1>9, <2>2, <3>1 DEF FlowOf, x
      <3>3. (IF k < Len(kids') THEN kids'[k + 1].got ELSE 0) = next
        <4>1. k < Len(kids) => k + 1 \in 1..Len(kids) /\ k + 1 # k
          BY <1>4
        <4> QED
          BY <1>2, <4>1
      <3>4. next \in Nat
        <4>1. k < Len(kids) => k + 1 \in 1..Len(kids)
          BY <1>4
        <4>2. k < Len(kids) => kids[k + 1].got \in Nat
          BY <4>1, KidNumbersIn
        <4> QED
          BY <4>2
      <3>5. x.own \in 1..Len(content)
        <4>1. \A n \in Nat : n > 1 => n # 1
          OBVIOUS
        <4>2. x.of > 1
          BY <1>1, <3>1
        <4>3. x.of # 1
          BY <1>1, <4>1, <4>2, Zenon
        <4>4. x.own <= Len(content) /\ (x.own = 0 <=> x.of = 1)
          BY KidNumbersIn DEF x
        <4> QED
          BY <1>1, <1>4, <4>3, <4>4
      <3> HIDE DEF next
      <3>6. content[x.own] \in Nat
        BY <1>4, <3>5
      <3>7. ~ K_Print(k)
        BY <1>1, <1>5, <3>1
      <3>8. CASE K_Write(k)
        <4>1. content'[x.own] = content[x.own] + 1
          BY <1>4, <1>5, <3>5, <3>8
        <4> QED
          BY <1>8, <3>2, <3>3, <3>4, <3>6, <3>8, <4>1
      <3>9. CASE ~ K_Write(k)
        <4>1. content'[x.own] = content[x.own]
          <5>1. CASE K_Read(k)
            <6>1. x.own # x.own - 1
              BY <1>1
            <6> QED
              BY <1>4, <1>5, <3>5, <5>1, <6>1
          <5> QED
            BY <1>2, <3>9, <5>1
        <4> QED
          BY <1>8, <3>2, <3>3, <3>7, <3>9, <4>1
      <3> QED
        BY <3>8, <3>9
    <2> QED
      BY <1>2, <2>1, <2>2, <2>3, <2>4 DEF FlowOf, y
  <1>10. ASSUME NEW m \in 1..Len(kids), m # k, Flows(kids[m])
         PROVE  FlowOf(m)'
    <2> DEFINE z == kids[m]
    <2>1. /\ z.n \in Nat /\ z.of \in Nat /\ z.own \in Nat /\ z.n < z.of /\ z.own <= Len(content)
          /\ (z.own = 0 <=> z.of = 1) /\ (z.n > 0 => m - 1 \in 1..Len(kids))
      BY KidNumbersIn
    <2>2. kids'[m] = z /\ FlowOf(m)
      BY <1>2, <1>4, <1>10
    <2>3. z.at = "ended" /\ z.n > 0 => kids'[m - 1].at = "ended"
      <3>1. SUFFICES ASSUME z.at = "ended", z.n > 0 PROVE kids'[m - 1].at = "ended"
        OBVIOUS
      <3>2. kids[m - 1].at = "ended"
        BY <1>10, <2>2, <3>1 DEF FlowOf
      <3>3. m - 1 # k
        BY <1>2, <3>2 DEF x
      <3> QED
        BY <1>2, <2>1, <3>1, <3>2, <3>3
    <2>4. z.n < z.of - 1 =>
             Passed(z) = content'[z.own] + (IF m < Len(kids') THEN kids'[m + 1].got ELSE 0)
      <3>1. SUFFICES ASSUME z.n < z.of - 1
                     PROVE  Passed(z) = content'[z.own]
                                        + (IF m < Len(kids') THEN kids'[m + 1].got ELSE 0)
        OBVIOUS
      <3>2. Passed(z) = content[z.own] + (IF m < Len(kids) THEN kids[m + 1].got ELSE 0)
        BY <1>10, <2>2, <3>1 DEF FlowOf
      <3>3. z.own \in 1..Len(content) /\ z.own > 0
        <4>1. \A n \in Nat : n > 1 => n # 1
          OBVIOUS
        <4>2. z.of > 1
          BY <2>1, <3>1
        <4>3. z.of # 1
          BY <2>1, <4>1, <4>2, Zenon
        <4> QED
          BY <1>4, <2>1, <4>3
      <3>4. K_Write(k) => content'[z.own] = content[z.own]
        <4>1. SUFFICES ASSUME K_Write(k) PROVE content'[z.own] = content[z.own]
          OBVIOUS
        <4>2. x.own # z.own
          BY <1>10, <3>3, OwnPipes DEF x
        <4> QED
          BY <1>4, <1>5, <3>3, <4>1, <4>2
      <3>5. CASE m + 1 = k
        <4>1. m < Len(kids)
          BY <1>4, <3>5
        <4>2. Follows(x, z)
          <5>1. KidInOrder(m)
            BY DEF L_Order
          <5>2. m # Len(kids)
            BY <1>4, <4>1
          <5> QED
            BY <3>1, <3>5, <5>1, <5>2 DEF KidInOrder, x
        <4>3. x.own - 1 = z.own
          BY <2>1, <4>2 DEF Follows
        <4>4. m < Len(kids) /\ m < Len(kids') /\ kids[m + 1] = x /\ kids'[m + 1] = y
          BY <1>2, <3>5, <4>1 DEF x, y
        <4>5. CASE K_Read(k)
          <5>1. content'[z.own] = content[z.own] - 1 /\ content[z.own] \in Nat
            BY <1>4, <1>5, <3>3, <4>3, <4>5
          <5>2. y.got = x.got + 1
            BY <1>3, <4>5
          <5> QED
            <6>1. content[z.own] + x.got = content'[z.own] + y.got
              <7>1. \A a, b \in Nat : a + b = (a - 1) + (b + 1)
                OBVIOUS
              <7> QED
                BY <1>1, <5>1, <5>2, <7>1
            <6> QED
              BY <3>2, <4>4, <6>1
        <4>6. CASE ~ K_Read(k)
          <5>1. content'[z.own] = content[z.own]
            BY <1>2, <3>4, <4>6
          <5>2. y.got = x.got
            BY <1>3, <4>6 DEF K_Step, SameCounts
          <5> QED
            BY <3>2, <4>4, <5>1, <5>2
        <4> QED
          BY <4>5, <4>6
      <3>6. CASE m + 1 # k
        <4>1. (IF m < Len(kids') THEN kids'[m + 1].got ELSE 0)
              = (IF m < Len(kids) THEN kids[m + 1].got ELSE 0)
          <5>1. m < Len(kids) => m + 1 \in 1..Len(kids)
            BY <1>4
          <5> QED
            BY <1>2, <3>6, <5>1
        <4>2. content'[z.own] = content[z.own]
          <5>1. CASE K_Read(k)
            <6>1. k - 1 \in 1..Len(kids) /\ x.own - 1 = kids[k - 1].own /\ k - 1 # m
              <7>1. k - 1 \in 1..Len(kids) /\ Follows(x, kids[k - 1])
                BY <1>1, <1>5, <5>1
              <7>2. kids[k - 1].own \in Nat
                BY <7>1, KidNumbersIn
              <7> QED
                BY <3>6, <7>1, <7>2 DEF Follows
            <6>2. kids[k - 1].own # z.own
              BY <3>3, <6>1, OwnPipes
            <6> QED
              BY <1>4, <1>5, <3>3, <5>1, <6>1, <6>2
          <5> QED
            BY <1>2, <3>4, <5>1
        <4> QED
          BY <3>2, <4>1, <4>2
      <3> QED
        BY <3>5, <3>6
    <2> QED
      BY <1>10, <2>2, <2>3, <2>4 DEF FlowOf
  <1>11. \A m \in 1..Len(kids') : FlowOf(m)'
    <2> SUFFICES ASSUME NEW m \in 1..Len(kids') PROVE FlowOf(m)'
      OBVIOUS
    <2>1. m \in 1..Len(kids)
      BY <1>2
    <2>2. Flows(kids[m])' => Flows(kids[m])
      <3>1. kids'[m].line = kids[m].line /\ kids'[m].of = kids[m].of
        BY <1>2, <2>1 DEF SameKid, x, y
      <3> QED
        BY <1>2, <3>1 DEF Flows
    <2> QED
      BY <1>9, <1>10, <2>1, <2>2 DEF FlowOf, x
  <1> QED
    BY <1>11 DEF L_Flow

(* Nothing is lost between two programs.                                    *)
LEMMA NextFlow ==
    ASSUME L_TypeOK, L_Order, L_Descriptors, L_Flow, L_Next
    PROVE  L_Flow'
  <1>1. CASE R_GetLine \/ R_Eof \/ R_Built \/ R_Waited
    <2>1. UNCHANGED <<script, kids, content>>
      BY <1>1 DEF R_GetLine, R_Eof, R_Built, R_Waited, text
    <2> QED
      BY <2>1 DEF L_Flow, FlowOf, Flows
  <1>2. CASE R_Vfork
    <2> DEFINE x == Kid(0, fd, pipes)
    <2>1. /\ kids' = Append(kids, x) /\ phase = "vfork" /\ UNCHANGED <<content, script>>
          /\ ran # <<>> /\ line = script[Last(ran)] /\ Len(line) = 1
      BY <1>2 DEF R_Vfork, L_Order, RunnerInOrder, text
    <2>2. /\ x \in L_Kids /\ x.n = 0 /\ x.of = 1 /\ x.at = "forked" /\ x.got = 0
          /\ x.printed = 0 /\ x.todo = IF x.program = "list" THEN Items ELSE 0
      <3>1. 0 \in Nat /\ 0 < Len(line) /\ fd \in L_Tables /\ pipes \in [0..1 -> L_Pairs]
        BY <2>1 DEF L_TypeOK
      <3> QED
        BY <2>1, <3>1, KidIs
    <2> HIDE DEF x
    <2>3. x.n = x.of - 1
      BY <2>2
    <2> QED
      BY <2>1, <2>2, <2>3, FlowGrows
  <1>3. CASE R_Build
    <2> DEFINE x == Kid(j, fd', pipes')
    <2>1. /\ kids' = Append(kids, x) /\ phase = "build" /\ script' = script
          /\ content' = Append(content, 0)
          /\ ran # <<>> /\ line = script[Last(ran)] /\ Len(line) > 1 /\ j < Len(line)
      BY <1>3 DEF R_Build, L_Order, RunnerInOrder, text
    <2>2. fd' \in L_Tables /\ pipes' \in [0..1 -> L_Pairs] /\ j \in Nat /\ Len(line) \in Nat
      <3>1. L_TypeOK'
        BY <1>3, NextLTypeOK DEF L_Next, Runner
      <3> QED
        BY <3>1 DEF L_TypeOK
    <2>3. /\ x \in L_Kids /\ x.at = "forked" /\ x.got = 0
          /\ x.printed = 0 /\ x.todo = (IF x.program = "list" THEN Items ELSE 0)
          /\ x.own = IF Len(line) = 1 THEN 0 ELSE Len(content) + 1
      BY <2>1, <2>2, KidIs
    <2> HIDE DEF x
    <2>4. x.own = Len(content) + 1
      <3>1. \A n \in Nat : n > 1 => n # 1
        OBVIOUS
      <3>2. Len(line) # 1
        BY <2>1, <2>2, <3>1, Zenon
      <3> QED
        BY <2>3, <3>2
    <2> QED
      BY <2>1, <2>3, <2>4, FlowGrows
  <1>4. ASSUME NEW k \in DOMAIN kids, K_Step(k)
        PROVE  L_Flow'
    <2>1. k \in 1..Len(kids)
      BY DEF L_TypeOK
    <2> QED
      BY <1>4, <2>1, FlowSteps
  <1> QED
    BY <1>1, <1>2, <1>3, <1>4 DEF L_Next, Runner

(* The descriptors and the flow at the start.                               *)
LEMMA InitFlow == L_Init => Flow_Inv
  <1> SUFFICES ASSUME L_Init PROVE Flow_Inv
    OBVIOUS
  <1>1. kids = <<>> /\ phase = "getline" /\ fd = Opened
    BY DEF L_Init
  <1>2. Opened = Table(0, 0)
    BY DEF Opened, Table, FDs
  <1>3. \A x \in 0..1 : \E g \in Garbage : pipes[x] = <<g, g>>
    BY DEF L_Init
  <1>4. L_Descriptors
    BY <1>1, <1>2, <1>3 DEF L_Descriptors, RunnerTable
  <1> QED
    BY <1>1, <1>4 DEF Flow_Inv, L_Flow

(* The invariant of the streams.                                            *)
LEMMA NextFlowInv ==
    ASSUME L_TypeOK, L_Order, Flow_Inv, [L_Next]_L_vars, [~ ClosesForeign]_L_vars
    PROVE  Flow_Inv'
  <1>1. CASE L_Next /\ ~ ClosesForeign
    BY <1>1, NextDescriptors, NextFlow DEF Flow_Inv
  <1>2. CASE UNCHANGED L_vars
    BY <1>2 DEF L_vars, text, place, Flow_Inv, L_Descriptors, RunnerTable, L_Wiring, L_Flow,
                FlowOf, Flows
  <1> QED
    BY <1>1, <1>2

(* The two invariants say that streams arrive.                              *)
LEMMA FlowInvImplies == Lines_Inv /\ Flow_Inv => StreamArrives
  <1> SUFFICES ASSUME Lines_Inv, Flow_Inv, NEW k \in DOMAIN kids,
                      kids[k].at = "ended", kids[k].n = kids[k].of - 1,
                      script[kids[k].line][1] = "list",
                      \A m \in 2..kids[k].of : script[kids[k].line][m] = "copy"
               PROVE  kids[k].printed = Items
    BY DEF StreamArrives
  <1>1. k \in 1..Len(kids)
    BY DEF Lines_Inv, L_TypeOK
  <1>2. FlowOf(k) /\ Flows(kids[k])
    BY <1>1 DEF Flow_Inv, L_Flow, Flows
  <1> QED
    BY <1>2 DEF FlowOf

(* The code of cw05/zad1 closes what pipes[1] holds before it has put a     *)
(* pipe there (zad1.c:80).  Whatever that is: as long as it is no           *)
(* descriptor that is open then, every pipeline of a program that writes    *)
(* and programs that pass on prints all that was written, for every script, *)
(* amount, size of the pipes and number of lines read at once.              *)
THEOREM StreamsArrive == L_Spec /\ [][~ ClosesForeign]_L_vars => []StreamArrives
  <1>1. L_Init => Lines_Inv /\ Flow_Inv
    BY InitLines, InitFlow DEF Lines_Inv
  <1>2. Lines_Inv /\ Flow_Inv /\ [L_Next]_L_vars /\ [~ ClosesForeign]_L_vars
            => (Lines_Inv /\ Flow_Inv)'
    BY NextLinesInv, NextFlowInv DEF Lines_Inv
  <1> QED
    BY <1>1, <1>2, FlowInvImplies, PTL DEF L_Spec

-----------------------------------------------------------------------------
(* The array of blocks (cw01).                                              *)

(* Which is what Min picks.                                                 *)
LEMMA MinIsLeast ==
    ASSUME NEW S \in SUBSET Nat, S # {}
    PROVE  Min(S) \in S /\ \A y \in S : Min(S) <= y
  <1>1. PICK m \in S : \A y \in S : m <= y
    BY HasLeast
  <1>2. Min(S) = CHOOSE x \in S : \A y \in S : x <= y
    BY DEF Min
  <1> QED
    BY <1>1, <1>2, Zenon

(* One exchange of neighbours.                                              *)
LEMMA ExchangeIs ==
    ASSUME NEW l \in Nat, NEW u, u = [i \in 1..l |-> u[i]], NEW p \in 1..l, p + 1 \in 1..l
    PROVE  Exchange(u, p) = [i \in 1..l |-> IF i = p THEN u[p + 1]
                                            ELSE IF i = p + 1 THEN u[p] ELSE u[i]]
  <1>1. DOMAIN u = 1..l /\ p # p + 1
    OBVIOUS
  <1> QED
    BY <1>1 DEF Exchange

(* The table while its last pointer is moved down.                          *)
LEMMA DownIs ==
    ASSUME NEW S, NEW ar \in Seq(S), NEW n \in Nat, n < Len(ar)
    PROVE  MovedDown(ar, n) = [i \in 1..Len(ar) |-> IF i <= n THEN ar[i]
                                  ELSE IF i = n + 1 THEN ar[Len(ar)] ELSE ar[i - 1]]
  <1>0. PICK l \in Nat : l = Len(ar)
    OBVIOUS
  <1>a. n + 1 \in 1..l /\ l \in (n + 1)..l /\ (n + 1)..l \subseteq 1..l
    BY <1>0
  <1>b. ar = [i \in 1..l |-> ar[i]]
    BY <1>0
  <1> DEFINE D       == (n + 1)..l
             table(p)   == [i \in 1..l |-> IF i < p THEN ar[i]
                                        ELSE IF i = p THEN ar[l] ELSE ar[i - 1]]
             next(f, p) == IF p = l THEN ar ELSE Exchange(f[p + 1], p)
             F(f)    == [p \in D |-> next(f, p)]
             w       == [p \in D |-> table(p)]
  <1>1. ASSUME NEW p \in D PROVE table(p) = next(w, p)
    <2>1. CASE p = l
      <3>1. table(p) = [i \in 1..l |-> ar[i]]
        BY <2>1
      <3> QED
        BY <1>b, <2>1, <3>1
    <2>2. CASE p # l
      <3>1. p \in 1..l /\ p + 1 \in 1..l /\ p + 1 \in D
        BY <1>0, <2>2
      <3>2. w[p + 1] = table(p + 1)
        BY <3>1
      <3>3. PICK u : u = table(p + 1)
        OBVIOUS
      <3>4. next(w, p) = Exchange(u, p)
        BY <2>2, <3>2, <3>3
      <3>5. u = [i \in 1..l |-> u[i]]
        BY <3>3
      <3>6. Exchange(u, p) = [i \in 1..l |-> IF i = p THEN u[p + 1]
                                             ELSE IF i = p + 1 THEN u[p] ELSE u[i]]
        BY <3>1, <3>5, ExchangeIs
      <3>7. \A i \in 1..l : u[i] = IF i < p + 1 THEN ar[i]
                                   ELSE IF i = p + 1 THEN ar[l] ELSE ar[i - 1]
        BY <3>3
      <3>8. ASSUME NEW i \in 1..l
            PROVE  (IF i = p THEN u[p + 1] ELSE IF i = p + 1 THEN u[p] ELSE u[i])
                     = (IF i < p THEN ar[i] ELSE IF i = p THEN ar[l] ELSE ar[i - 1])
        <4> HIDE DEF D
        <4>1. u[p + 1] = ar[l] /\ u[p] = ar[p]
          BY <3>1, <3>7
        <4>2. i = p + 1 => i - 1 = p
          BY <3>1
        <4> QED
          BY <3>1, <3>7, <4>1, <4>2
      <3> QED
        BY <3>4, <3>6, <3>8
    <2> QED
      BY <2>1, <2>2
  <1> HIDE DEF table, next, F, w
  <1>2. w = F(w) /\ \A p \in D : w[p] = next(w, p)
    BY <1>1 DEF w, F
  <1>3. ASSUME NEW f, f = F(f) PROVE f = w
    <2>0. \A p \in D : f[p] = next(f, p)
      BY <1>3 DEF F
    <2> DEFINE bad == {d \in Nat : d < l - n /\ f[l - d] # w[l - d]}
    <2>1. bad = {}
      <3>1. SUFFICES ASSUME bad # {} PROVE FALSE
        OBVIOUS
      <3>2. PICK d \in bad : \A e \in bad : d <= e
        <4>1. bad \in SUBSET Nat
          OBVIOUS
        <4> HIDE DEF bad
        <4> QED
          BY <3>1, <4>1, HasLeast
      <3>3. PICK p \in D : p = l - d
        BY <1>a
      <3>4. f[p] # w[p] /\ f[p] = next(f, p) /\ w[p] = next(w, p)
        BY <1>2, <2>0, <3>2, <3>3
      <3>5. p # l /\ f[p + 1] # w[p + 1]
        BY <3>4 DEF next
      <3>6. d \in Nat /\ d < l - n /\ p \in Int
        BY <3>3
      <3>7. d - 1 \in Nat /\ d - 1 < l - n /\ l - (d - 1) = p + 1 /\ ~ (d <= d - 1)
        <4>1. d # 0
          BY <3>3, <3>5
        <4> QED
          BY <3>3, <3>6, <4>1
      <3>8. d - 1 \in bad
        BY <3>5, <3>7
      <3> QED
        BY <3>2, <3>7, <3>8
    <2>2. ASSUME NEW p \in D PROVE f[p] = w[p]
      <3>1. l - p \in Nat /\ l - p < l - n /\ l - (l - p) = p
        BY <1>0
      <3> QED
        BY <2>1, <3>1
    <2>3. f = [p \in D |-> f[p]]
      BY <1>3 DEF F
    <2>4. w = [p \in D |-> w[p]]
      BY DEF w
    <2> QED
      BY <2>2, <2>3, <2>4
  <1>4. MovedDown(ar, n) = (CHOOSE f : f = F(f))[n + 1]
    BY <1>0 DEF MovedDown, F, next
  <1>5. (CHOOSE f : f = F(f)) = w
    BY <1>2, <1>3
  <1>6. MovedDown(ar, n) = table(n + 1)
    <2>1. n + 1 \in D
      BY <1>a
    <2> QED
      BY <1>4, <1>5, <2>1 DEF w
  <1>7. ASSUME NEW i \in 1..l PROVE i < n + 1 <=> i <= n
    OBVIOUS
  <1> QED
    BY <1>0, <1>6, <1>7 DEF table

(* The table when a pointer was moved up to its end.                        *)
LEMMA UpIs ==
    ASSUME NEW S, NEW ar \in Seq(S), NEW n \in Nat, n < Len(ar)
    PROVE  MovedUp(ar, n) = [i \in 1..Len(ar) |-> IF i <= n THEN ar[i]
                                ELSE IF i < Len(ar) THEN ar[i + 1] ELSE ar[n + 1]]
  <1>0. PICK l \in Nat : l = Len(ar)
    OBVIOUS
  <1>a. n + 1 \in 1..l /\ l \in (n + 1)..l /\ (n + 1)..l \subseteq 1..l
    BY <1>0
  <1>b. ar = [i \in 1..l |-> ar[i]]
    BY <1>0
  <1> DEFINE D       == (n + 1)..l
             table(p)   == [i \in 1..l |-> IF i <= n THEN ar[i] ELSE IF p < i THEN ar[i]
                                        ELSE IF i < p THEN ar[i + 1] ELSE ar[n + 1]]
             next(f, p) == IF p = n + 1 THEN ar ELSE Exchange(f[p - 1], p - 1)
             F(f)    == [p \in D |-> next(f, p)]
             w       == [p \in D |-> table(p)]
  <1>1. ASSUME NEW p \in D PROVE table(p) = next(w, p)
    <2>1. CASE p = n + 1
      <3>1. table(p) = [i \in 1..l |-> ar[i]]
        BY <2>1
      <3> QED
        BY <1>b, <2>1, <3>1
    <2>2. CASE p # n + 1
      <3>1. PICK q \in Int : q = p - 1
        OBVIOUS
      <3>2. q \in 1..l /\ q + 1 \in 1..l /\ q \in D /\ p = q + 1 /\ n < q
        BY <1>0, <2>2, <3>1
      <3>3. PICK u : u = table(q)
        OBVIOUS
      <3>4. next(w, p) = Exchange(u, q)
        BY <2>2, <3>1, <3>2, <3>3
      <3>5. u = [i \in 1..l |-> u[i]]
        BY <3>3
      <3>6. Exchange(u, q) = [i \in 1..l |-> IF i = q THEN u[q + 1]
                                             ELSE IF i = q + 1 THEN u[q] ELSE u[i]]
        BY <3>2, <3>5, ExchangeIs
      <3>7. \A i \in 1..l : u[i] = IF i <= n THEN ar[i] ELSE IF q < i THEN ar[i]
                                   ELSE IF i < q THEN ar[i + 1] ELSE ar[n + 1]
        BY <3>3
      <3>8. ASSUME NEW i \in 1..l
            PROVE  (IF i = q THEN u[q + 1] ELSE IF i = q + 1 THEN u[q] ELSE u[i])
                     = (IF i <= n THEN ar[i] ELSE IF p < i THEN ar[i]
                        ELSE IF i < p THEN ar[i + 1] ELSE ar[n + 1])
        <4> HIDE DEF D
        <4>1. u[q + 1] = ar[q + 1] /\ u[q] = ar[n + 1]
          BY <3>2, <3>7
        <4> QED
          BY <3>2, <3>7, <4>1
      <3> QED
        BY <3>4, <3>6, <3>8
    <2> QED
      BY <2>1, <2>2
  <1> HIDE DEF table, next, F, w
  <1>2. w = F(w) /\ \A p \in D : w[p] = next(w, p)
    BY <1>1 DEF w, F
  <1>3. ASSUME NEW f, f = F(f) PROVE f = w
    <2>0. \A p \in D : f[p] = next(f, p)
      BY <1>3 DEF F
    <2> DEFINE bad == {p \in D : f[p] # w[p]}
    <2>1. bad = {}
      <3>1. SUFFICES ASSUME bad # {} PROVE FALSE
        OBVIOUS
      <3>2. PICK p \in bad : \A e \in bad : p <= e
        <4>1. bad \in SUBSET Nat
          OBVIOUS
        <4> HIDE DEF bad
        <4> QED
          BY <3>1, <4>1, HasLeast
      <3>3. f[p] # w[p] /\ f[p] = next(f, p) /\ w[p] = next(w, p)
        BY <1>2, <2>0, <3>2
      <3>4. p # n + 1 /\ f[p - 1] # w[p - 1]
        BY <3>3 DEF next
      <3>5. p - 1 \in D /\ ~ (p <= p - 1)
        BY <1>0, <3>4
      <3>6. p - 1 \in bad
        BY <3>4, <3>5
      <3> QED
        BY <3>2, <3>5, <3>6
    <2>2. \A p \in D : f[p] = w[p]
      BY <2>1
    <2>3. f = [p \in D |-> f[p]]
      BY <1>3 DEF F
    <2>4. w = [p \in D |-> w[p]]
      BY DEF w
    <2> QED
      BY <2>2, <2>3, <2>4
  <1>4. MovedUp(ar, n) = (CHOOSE f : f = F(f))[l]
    BY <1>0 DEF MovedUp, F, next
  <1>5. (CHOOSE f : f = F(f)) = w
    BY <1>2, <1>3
  <1>6. MovedUp(ar, n) = table(l)
    BY <1>a, <1>4, <1>5 DEF w
  <1>7. ASSUME NEW i \in 1..l PROVE ~ (l < i)
    OBVIOUS
  <1> QED
    BY <1>0, <1>6, <1>7 DEF table

(* A string has characters, none of which is the terminator.                *)
LEMMA StringsAre ==
    ASSUME NEW n \in Nat, NEW s \in Strings(n)
    PROVE  s \in Seq(Letters) /\ Len(s) \in 0..n /\ s \in [1..Len(s) -> Nat \ {0}]
  <1>1. PICK k \in 0..n : s \in [1..k -> Letters]
    BY DEF Strings
  <1>2. k \in Nat
    OBVIOUS
  <1>3. s \in Seq(Letters) /\ Len(s) = k
    BY <1>1, <1>2
  <1> QED
    BY <1>1, <1>3, BlockConstants DEF BlockConstants

(* Memory that holds a string from place i on, with its terminator.         *)
HoldsAt(memory, i, s) ==
    /\ \A k \in 1..Len(s) : memory[i - 1 + k] = s[k]
    /\ memory[i + Len(s)] = 0

(* Such a string is what is read there.                                     *)
LEMMA StringInMemory ==
    ASSUME NEW l \in Nat, NEW memory \in [1..l -> Nat], NEW i \in Nat \ {0},
           NEW s \in Seq(Nat \ {0})
    PROVE  i + Len(s) <= l /\ HoldsAt(memory, i, s) => StringAt(memory, i) = s
  <1>0. PICK m \in Nat : m = Len(s) /\ s \in [1..m -> Nat \ {0}]
    OBVIOUS
  <1>h. SUFFICES ASSUME i + m <= l,
                        \A k \in 1..m : memory[i - 1 + k] = s[k],
                        memory[i + m] = 0
                 PROVE  StringAt(memory, i) = s
    BY <1>0 DEF HoldsAt
  <1> DEFINE ends == {k \in i..l : memory[k] = 0}
  <1>1. memory \in Seq(Nat) /\ Len(memory) = l
    OBVIOUS
  <1>2. i + m \in ends /\ ends \in SUBSET Nat /\ i + m \in Nat
    BY <1>h
  <1>3. \A k \in ends : ~ (k < i + m)
    <2>1. SUFFICES ASSUME NEW k \in ends, k < i + m PROVE FALSE
      OBVIOUS
    <2>2. k - i + 1 \in 1..m /\ i - 1 + (k - i + 1) = k
      BY <2>1
    <2>3. memory[k] = s[k - i + 1]
      BY <1>h, <2>2
    <2>4. memory[k] \in Nat \ {0}
      BY <1>0, <2>2, <2>3
    <2> QED
      BY <2>1, <2>4
  <1>4. PICK z \in ends : z = Min(ends) /\ z = i + m
    <2> HIDE DEF ends
    <2>1. Min(ends) \in ends /\ Min(ends) <= i + m
      BY <1>2, MinIsLeast
    <2>2. PICK z \in Nat : z = Min(ends) /\ z \in ends
      BY <1>2, <2>1
    <2>3. ~ (z < i + m) /\ z <= i + m
      BY <1>3, <2>1, <2>2
    <2>4. z = i + m
      BY <1>2, <2>3
    <2> QED
      BY <2>2, <2>4
  <1>5. StringAt(memory, i) = SubSeq(memory, i, i + m - 1)
    <2>1. ends = {k \in i..Len(memory) : memory[k] = 0} /\ ends # {}
      BY <1>1, <1>2
    <2> HIDE DEF ends
    <2>2. StringAt(memory, i) =
              SubSeq(memory, i, IF ends = {} THEN Len(memory) ELSE Min(ends) - 1)
      BY <2>1, Zenon DEF StringAt
    <2>3. Min(ends) - 1 = i + m - 1
      BY <1>4
    <2> QED
      BY <2>1, <2>2, <2>3
  <1>6. SubSeq(memory, i, i + m - 1) = [k \in 1..m |-> memory[i - 1 + k]]
    BY <1>1, <1>h
  <1>7. s = [k \in 1..m |-> s[k]]
    BY <1>0
  <1> QED
    BY <1>h, <1>5, <1>6, <1>7

(* A string that fits in a block is what is read from it.                   *)
LEMMA StringOfFilled ==
    ASSUME NEW n \in Nat \ {0}, NEW s \in Strings(n - 1)
    PROVE  StringAt(Filled(s, n), 1) = s
  <1>1. PICK m \in Nat : m = Len(s) /\ m <= n - 1 /\ s \in [1..m -> Nat \ {0}]
    <2>1. n - 1 \in Nat
      OBVIOUS
    <2> QED
      BY <2>1, StringsAre
  <1>2. PICK memory : memory = Filled(s, n)
    OBVIOUS
  <1>3. memory \in [1..n -> Nat] /\ \A k \in 1..n : memory[k] = IF k <= m THEN s[k] ELSE 0
    BY <1>1, <1>2 DEF Filled
  <1>4. \A k \in 1..m : memory[1 - 1 + k] = s[k]
    <2>1. \A k \in 1..m : k \in 1..n /\ k <= m /\ 1 - 1 + k = k
      BY <1>1
    <2> QED
      BY <1>3, <2>1
  <1>5. memory[1 + m] = 0 /\ 1 + m <= n
    BY <1>1, <1>3
  <1>6. s \in Seq(Nat \ {0})
    BY <1>1
  <1>7. HoldsAt(memory, 1, s)
    BY <1>1, <1>4, <1>5 DEF HoldsAt
  <1>8. n \in Nat /\ 1 \in Nat \ {0} /\ memory \in [1..n -> Nat] /\ 1 + Len(s) <= n
    BY <1>1, <1>3, <1>5
  <1> QED
    BY <1>2, <1>6, <1>7, <1>8, StringInMemory

(* A string is put in a list, or taken out of it.                           *)
LEMMA InsertAtIs ==
    ASSUME NEW S, NEW q \in Seq(S), NEW n \in Nat, n < Len(q), NEW s \in S
    PROVE  /\ InsertAt(q, n + 1, s) \in Seq(S)
           /\ InsertAt(q, n + 1, s) = [i \in 1..(Len(q) + 1) |-> IF i <= n THEN q[i]
                                          ELSE IF i = n + 1 THEN s ELSE q[i - 1]]
  <1>0. PICK l \in Nat : l = Len(q)
    OBVIOUS
  <1>1. PICK a : a = SubSeq(q, 1, n)
    OBVIOUS
  <1>2. PICK b : b = SubSeq(q, n + 1, l)
    OBVIOUS
  <1>3. a \in Seq(S) /\ Len(a) = n /\ \A i \in 1..n : a[i] = q[i]
    BY <1>0, <1>1
  <1>4. b \in Seq(S) /\ Len(b) = l - n /\ \A i \in 1..(l - n) : b[i] = q[n + i]
    BY <1>0, <1>2
  <1>5. PICK c : c = a \o <<s>>
    OBVIOUS
  <1>6. c \in Seq(S) /\ Len(c) = n + 1 /\ \A i \in 1..(n + 1) : c[i] = IF i <= n THEN q[i] ELSE s
    BY <1>3, <1>5
  <1>7. InsertAt(q, n + 1, s) = c \o b
    <2>1. InsertAt(q, n + 1, s) = SubSeq(q, 1, (n + 1) - 1) \o <<s>> \o SubSeq(q, n + 1, Len(q))
      BY DEF InsertAt
    <2>2. (n + 1) - 1 = n
      OBVIOUS
    <2> QED
      BY <1>0, <1>1, <1>2, <1>5, <2>1, <2>2
  <1>8. PICK z : z = c \o b
    OBVIOUS
  <1>9. z \in Seq(S) /\ Len(z) = l + 1
    <2>1. c \in Seq(S) /\ b \in Seq(S) /\ Len(c) = n + 1 /\ Len(b) = l - n
      BY <1>4, <1>6
    <2>2. z \in Seq(S) /\ Len(z) = Len(c) + Len(b)
      BY <1>8, <2>1, ConcatProperties
    <2> QED
      BY <1>0, <2>1, <2>2
  <1>10. ASSUME NEW i \in 1..(l + 1)
         PROVE  z[i] = IF i <= n THEN q[i] ELSE IF i = n + 1 THEN s ELSE q[i - 1]
    <2>1. CASE i <= n + 1
      <3>1. z[i] = c[i]
        BY <1>4, <1>6, <1>8, <2>1
      <3> QED
        BY <1>6, <2>1, <3>1
    <2>2. CASE i > n + 1
      <3>1. PICK h \in Nat : h = i - (n + 1)
        BY <2>2
      <3>2. h \in 1..(l - n) /\ i - 1 = n + h /\ i = (n + 1) + h
        BY <1>0, <2>2, <3>1
      <3>3. z[i] = b[h]
        BY <1>4, <1>6, <1>8, <3>2
      <3>4. ~ (i <= n) /\ i # n + 1
        BY <2>2
      <3> QED
        BY <1>4, <3>2, <3>3, <3>4
    <2> QED
      BY <1>0, <2>1, <2>2
  <1>11. z = [i \in 1..(l + 1) |-> z[i]]
    BY <1>0, <1>9
  <1> QED
    BY <1>0, <1>7, <1>8, <1>9, <1>10, <1>11

(* A string is taken out of a list.                                         *)
LEMMA RemoveAtIs ==
    ASSUME NEW S, NEW q \in Seq(S), NEW n \in Nat, n < Len(q)
    PROVE  /\ RemoveAt(q, n + 1) \in Seq(S)
           /\ RemoveAt(q, n + 1) = [i \in 1..(Len(q) - 1) |-> IF i <= n THEN q[i] ELSE q[i + 1]]
  <1>0. PICK l \in Nat : l = Len(q)
    OBVIOUS
  <1>1. PICK a : a = SubSeq(q, 1, n)
    OBVIOUS
  <1>2. PICK b : b = SubSeq(q, n + 2, l)
    OBVIOUS
  <1>3. a \in Seq(S) /\ Len(a) = n /\ \A i \in 1..n : a[i] = q[i]
    BY <1>0, <1>1
  <1>4. b \in Seq(S) /\ Len(b) = l - n - 1 /\ \A i \in 1..(l - n - 1) : b[i] = q[n + 1 + i]
    BY <1>0, <1>2
  <1>7. RemoveAt(q, n + 1) = a \o b
    <2>1. RemoveAt(q, n + 1) = SubSeq(q, 1, (n + 1) - 1) \o SubSeq(q, (n + 1) + 1, Len(q))
      BY DEF RemoveAt
    <2>2. (n + 1) - 1 = n /\ (n + 1) + 1 = n + 2
      OBVIOUS
    <2> QED
      BY <1>0, <1>1, <1>2, <2>1, <2>2
  <1>8. PICK z : z = a \o b
    OBVIOUS
  <1>9. z \in Seq(S) /\ Len(z) = l - 1
    <2>1. z \in Seq(S) /\ Len(z) = Len(a) + Len(b)
      BY <1>3, <1>4, <1>8
    <2> QED
      BY <1>0, <1>3, <1>4, <2>1
  <1>10. ASSUME NEW i \in 1..(l - 1)
         PROVE  z[i] = IF i <= n THEN q[i] ELSE q[i + 1]
    <2>1. CASE i <= n
      <3>1. z[i] = a[i]
        BY <1>3, <1>4, <1>8, <2>1
      <3> QED
        BY <1>3, <2>1, <3>1
    <2>2. CASE i > n
      <3>1. PICK h \in Nat : h = i - n
        BY <2>2
      <3>2. h \in 1..(l - n - 1) /\ i + 1 = n + 1 + h /\ i = n + h
        BY <1>0, <2>2, <3>1
      <3>3. z[i] = b[h]
        BY <1>3, <1>4, <1>8, <3>2
      <3>4. ~ (i <= n)
        BY <2>2
      <3> QED
        BY <1>4, <3>2, <3>3, <3>4
    <2> QED
      BY <1>0, <2>1, <2>2
  <1>11. z = [i \in 1..(l - 1) |-> z[i]]
    BY <1>0, <1>9
  <1> QED
    BY <1>0, <1>7, <1>8, <1>9, <1>10, <1>11

(* The pointers of a dynamic array are different, and what is allocated is  *)
(* what they point to.                                                      *)
A_Pointers ==
    /\ A_ar \in Seq(Nat \ {0}) /\ IsInjective(A_ar)
    /\ DOMAIN A_heap = ToSet(A_ar)

(* What that says of their places.                                          *)
LEMMA PointersAre ==
    ASSUME A_Pointers
    PROVE  /\ \A a, b \in 1..Len(A_ar) : A_ar[a] = A_ar[b] => a = b
           /\ DOMAIN A_heap = {A_ar[i] : i \in 1..Len(A_ar)}
           /\ \A i \in 1..Len(A_ar) : A_ar[i] \in DOMAIN A_heap
  <1>1. DOMAIN A_ar = 1..Len(A_ar)
    BY DEF A_Pointers
  <1>2. DOMAIN A_heap = {A_ar[i] : i \in 1..Len(A_ar)}
    BY <1>1 DEF A_Pointers, ToSet
  <1>3. \A a, b \in DOMAIN A_ar : A_ar[a] = A_ar[b] => a = b
    BY DEF A_Pointers, IsInjective
  <1> QED
    BY <1>1, <1>2, <1>3

(* malloc has an address left.                                              *)
LEMMA AddressIsFree ==
    ASSUME NEW ar \in Seq(Nat), NEW heap
    PROVE  DOMAIN heap = ToSet(ar) =>
               NewAddress(heap) \in Nat \ {0} /\ NewAddress(heap) \notin DOMAIN heap
  <1>1. PICK D : D = ToSet(ar)
    OBVIOUS
  <1>2. IsFiniteSet(D)
    <2>1. ar \in Surjection(1..Len(ar), D)
      BY <1>1 DEF ToSet, Surjection
    <2> QED
      BY <2>1, FS_Interval, FS_Surjection
  <1>3. PICK c \in Nat : c = Cardinality(D)
    BY <1>2, FS_CardinalityType
  <1>4. ~ (1..(c + 1) \subseteq D)
    <2>1. SUFFICES ASSUME 1..(c + 1) \subseteq D PROVE FALSE
      OBVIOUS
    <2>2. Cardinality(1..(c + 1)) <= c
      BY <1>2, <1>3, <2>1, FS_Subset
    <2>3. Cardinality(1..(c + 1)) = c + 1
      BY FS_Interval
    <2> QED
      BY <2>2, <2>3
  <1> DEFINE free == (1..(c + 1)) \ D
  <1>5. free \in SUBSET Nat /\ free # {} /\ 0 \notin free
    BY <1>4
  <1>6. Min(free) \in free
    <2> HIDE DEF free
    <2> QED
      BY <1>5, MinIsLeast
  <1>7. DOMAIN heap = D => NewAddress(heap) = Min(free)
    BY <1>3 DEF NewAddress
  <1> QED
    BY <1>1, <1>5, <1>6, <1>7

(* What addBlockDynamic does to the table and the heap.                     *)
A_Inserts(r, x, n, s) ==
    /\ r = A_ar' /\ r \in Seq(Nat \ {0}) /\ Len(r) = Len(A_ar) + 1 /\ n < Len(A_ar)
    /\ x \in Nat \ {0} /\ x \notin DOMAIN A_heap /\ r[n + 1] = x
    /\ \A i \in 1..n : r[i] = A_ar[i]
    /\ \A i \in (n + 1)..Len(A_ar) : r[i + 1] = A_ar[i]
    /\ A_heap' = [y \in DOMAIN A_heap \union {x} |->
                     IF y = x THEN Filled(s, bl) ELSE A_heap[y]]

(* That is what it does.                                                    *)
LEMMA AddBlock ==
    ASSUME A_Pointers, NEW n \in Nat, NEW s, addBlockDynamic(n, s)
    PROVE  \E r, x : A_Inserts(r, x, n, s)
  <1>1. PICK l \in Nat : l = Len(A_ar) /\ n < l /\ A_ar \in Seq(Nat \ {0})
    BY DEF A_Pointers, addBlockDynamic, al
  <1>2. PICK x : x = NewAddress(A_heap)
    OBVIOUS
  <1>3. x \in Nat \ {0} /\ x \notin DOMAIN A_heap
    <2>1. A_ar \in Seq(Nat) /\ DOMAIN A_heap = ToSet(A_ar)
      BY DEF A_Pointers
    <2> QED
      BY <1>2, <2>1, AddressIsFree
  <1>4. PICK p : p = Append(A_ar, x)
    OBVIOUS
  <1>5. p \in Seq(Nat \ {0}) /\ Len(p) = l + 1 /\ p[l + 1] = x /\ \A i \in 1..l : p[i] = A_ar[i]
    BY <1>1, <1>3, <1>4
  <1>6. PICK r : r = A_ar'
    OBVIOUS
  <1>7. r = MovedDown(p, n)
        /\ A_heap' = [y \in DOMAIN A_heap \union {x} |->
                         IF y = x THEN Filled(s, bl) ELSE A_heap[y]]
    BY <1>2, <1>4, <1>6 DEF addBlockDynamic
  <1>8. r = [i \in 1..(l + 1) |-> IF i <= n THEN p[i]
                                  ELSE IF i = n + 1 THEN p[l + 1] ELSE p[i - 1]]
    <2>1. n < Len(p)
      BY <1>1, <1>5
    <2>2. r = [i \in 1..Len(p) |-> IF i <= n THEN p[i]
                                   ELSE IF i = n + 1 THEN p[Len(p)] ELSE p[i - 1]]
      BY <1>5, <1>7, <2>1, DownIs
    <2> QED
      BY <1>5, <2>2
  <1>9. \A i \in 1..n : r[i] = A_ar[i]
    <2>1. \A i \in 1..n : i \in 1..(l + 1) /\ i <= n /\ i \in 1..l
      BY <1>1
    <2> QED
      BY <1>5, <1>8, <2>1
  <1>10. r[n + 1] = x
    <2>1. n + 1 \in 1..(l + 1) /\ ~ (n + 1 <= n)
      BY <1>1
    <2> QED
      BY <1>5, <1>8, <2>1
  <1>11. \A i \in (n + 1)..l : r[i + 1] = A_ar[i]
    <2>1. ASSUME NEW i \in (n + 1)..l
          PROVE  i + 1 \in 1..(l + 1) /\ ~ (i + 1 <= n) /\ i + 1 # n + 1 /\ (i + 1) - 1 = i
                 /\ i \in 1..l
      BY <1>1
    <2> QED
      BY <1>5, <1>8, <2>1
  <1>12. r \in Seq(Nat \ {0}) /\ Len(r) = l + 1
    <2>1. ASSUME NEW i \in 1..(l + 1) PROVE r[i] \in Nat \ {0}
      <3>1. p[l + 1] \in Nat \ {0}
        BY <1>3, <1>5
      <3>2. i <= n => p[i] \in Nat \ {0}
        BY <1>5
      <3>3. ~ (i <= n) /\ i # n + 1 => p[i - 1] \in Nat \ {0}
        <4>1. ~ (i <= n) /\ i # n + 1 => i - 1 \in 1..(l + 1)
          OBVIOUS
        <4> QED
          BY <1>5, <4>1
      <3> QED
        BY <1>8, <3>1, <3>2, <3>3
    <2>2. l + 1 \in Nat /\ r = [i \in 1..(l + 1) |-> r[i]]
      BY <1>8
    <2>3. r \in [1..(l + 1) -> Nat \ {0}]
      BY <2>1, <2>2
    <2> QED
      BY <2>2, <2>3
  <1>13. A_Inserts(r, x, n, s)
    <2>1. Len(r) = Len(A_ar) + 1 /\ n < Len(A_ar)
      BY <1>1, <1>12
    <2>2. \A i \in (n + 1)..Len(A_ar) : r[i + 1] = A_ar[i]
      BY <1>1, <1>11
    <2> QED
      BY <1>3, <1>6, <1>7, <1>9, <1>10, <1>12, <2>1, <2>2, Zenon DEF A_Inserts
  <1> QED
    BY <1>13, Zenon

(* So the new block is pointed to, and the others still are.                *)
LEMMA AddKeeps ==
    ASSUME A_Pointers, NEW n \in Nat, NEW s, addBlockDynamic(n, s)
    PROVE  A_Pointers'
  <1>1. PICK r, x : A_Inserts(r, x, n, s)
    BY AddBlock
  <1>c. /\ r = A_ar' /\ r \in Seq(Nat \ {0}) /\ Len(r) = Len(A_ar) + 1 /\ n < Len(A_ar)
        /\ x \in Nat \ {0} /\ x \notin DOMAIN A_heap /\ r[n + 1] = x
        /\ \A i \in 1..n : r[i] = A_ar[i]
        /\ \A i \in (n + 1)..Len(A_ar) : r[i + 1] = A_ar[i]
        /\ DOMAIN A_heap' = DOMAIN A_heap \union {x}
    BY <1>1 DEF A_Inserts
  <1>2. PICK l \in Nat : l = Len(A_ar) /\ A_ar \in Seq(Nat \ {0})
    BY DEF A_Pointers
  <1>3. \A a, b \in 1..l : A_ar[a] = A_ar[b] => a = b
    BY <1>2, PointersAre
  <1>4. DOMAIN A_heap = {A_ar[i] : i \in 1..l}
    BY <1>2, PointersAre
  <1> DEFINE from(i) == IF i <= n THEN i ELSE i - 1
  <1>5. ASSUME NEW i \in 1..(l + 1), i # n + 1
        PROVE  from(i) \in 1..l /\ r[i] = A_ar[from(i)] /\ r[i] # x
    <2>1. from(i) \in 1..l
      BY <1>c, <1>2, <1>5
    <2>2. r[i] = A_ar[from(i)]
      <3>1. CASE i <= n
        BY <1>c, <3>1
      <3>2. CASE ~ (i <= n)
        <4>1. PICK h \in Int : h = i - 1
          OBVIOUS
        <4>2. h \in (n + 1)..l /\ i = h + 1
          BY <1>5, <3>2, <4>1
        <4> QED
          BY <1>c, <1>2, <3>2, <4>1, <4>2
      <3> QED
        BY <3>1, <3>2
    <2> QED
      BY <1>c, <1>4, <2>1, <2>2
  <1>6. ASSUME NEW a \in 1..(l + 1), NEW b \in 1..(l + 1), r[a] = r[b] PROVE a = b
    <2>1. a = n + 1 <=> b = n + 1
      BY <1>c, <1>5, <1>6
    <2>2. CASE a # n + 1
      <3>1. from(a) = from(b)
        BY <1>3, <1>5, <1>6, <2>1, <2>2
      <3> QED
        BY <2>1, <2>2, <3>1
    <2> QED
      BY <2>1, <2>2
  <1>7. IsInjective(r) /\ DOMAIN r = 1..(l + 1)
    BY <1>c, <1>2, <1>6 DEF IsInjective
  <1>8. DOMAIN A_heap \union {x} = {r[i] : i \in 1..(l + 1)}
    <2>1. ASSUME NEW i \in 1..(l + 1) PROVE r[i] \in DOMAIN A_heap \union {x}
      BY <1>c, <1>4, <1>5
    <2>2. ASSUME NEW i \in 1..l PROVE \E h \in 1..(l + 1) : A_ar[i] = r[h]
      <3>1. CASE i <= n
        BY <1>c, <3>1
      <3>2. CASE ~ (i <= n)
        <4>1. i \in (n + 1)..l /\ i + 1 \in 1..(l + 1)
          BY <3>2
        <4> QED
          BY <1>c, <1>2, <4>1
      <3> QED
        BY <3>1, <3>2
    <2>3. n + 1 \in 1..(l + 1)
      BY <1>c, <1>2
    <2>4. x \in {r[i] : i \in 1..(l + 1)}
      BY <1>c, <2>3
    <2>5. DOMAIN A_heap \subseteq {r[i] : i \in 1..(l + 1)}
      BY <1>4, <2>2
    <2> QED
      BY <2>1, <2>4, <2>5
  <1>9. DOMAIN A_heap' = ToSet(r)
    BY <1>c, <1>7, <1>8 DEF ToSet
  <1> QED
    BY <1>c, <1>7, <1>9 DEF A_Pointers

(* What deleteBlockDynamic does to them.                                    *)
A_Removes(r, n) ==
    /\ r = A_ar' /\ r \in Seq(Nat \ {0}) /\ Len(r) = Len(A_ar) - 1 /\ n < Len(A_ar)
    /\ \A i \in 1..n : r[i] = A_ar[i]
    /\ \A i \in (n + 1)..(Len(A_ar) - 1) : r[i] = A_ar[i + 1]
    /\ A_heap' = [y \in DOMAIN A_heap \ {A_ar[n + 1]} |-> A_heap[y]]

(* That is what it does.                                                    *)
LEMMA DeleteBlock ==
    ASSUME A_Pointers, NEW n \in Nat, deleteBlockDynamic(n)
    PROVE  \E r : A_Removes(r, n)
  <1>1. PICK l \in Nat : l = Len(A_ar) /\ n < l /\ A_ar \in Seq(Nat \ {0})
    BY DEF A_Pointers, deleteBlockDynamic, al
  <1>2. PICK p : p = MovedUp(A_ar, n)
    OBVIOUS
  <1>3. p = [i \in 1..l |-> IF i <= n THEN A_ar[i]
                            ELSE IF i < l THEN A_ar[i + 1] ELSE A_ar[n + 1]]
    BY <1>1, <1>2, UpIs
  <1>4. p \in Seq(Nat \ {0}) /\ Len(p) = l
    <2>1. ASSUME NEW i \in 1..l PROVE p[i] \in Nat \ {0}
      <3>1. A_ar[i] \in Nat \ {0} /\ A_ar[n + 1] \in Nat \ {0}
        <4>1. i \in 1..Len(A_ar) /\ n + 1 \in 1..Len(A_ar)
          BY <1>1
        <4> QED
          BY <1>1, <4>1, ElementOfSeq
      <3>2. i < l => A_ar[i + 1] \in Nat \ {0}
        <4>1. i < l => i + 1 \in 1..Len(A_ar)
          BY <1>1
        <4> QED
          BY <1>1, <4>1, ElementOfSeq
      <3> QED
        BY <1>3, <3>1, <3>2
    <2>2. p = [i \in 1..l |-> p[i]]
      BY <1>3
    <2>3. p \in [1..l -> Nat \ {0}]
      BY <2>1, <2>2
    <2> QED
      BY <2>3
  <1>5. Last(p) = A_ar[n + 1]
    <2>1. l \in 1..l /\ ~ (l <= n) /\ ~ (l < l)
      BY <1>1
    <2> QED
      BY <1>3, <1>4, <2>1 DEF Last
  <1>6. PICK r : r = A_ar'
    OBVIOUS
  <1>7. r = SubSeq(p, 1, l - 1)
        /\ A_heap' = [y \in DOMAIN A_heap \ {A_ar[n + 1]} |-> A_heap[y]]
    BY <1>2, <1>4, <1>5, <1>6 DEF deleteBlockDynamic, Front
  <1>8. r \in Seq(Nat \ {0}) /\ Len(r) = l - 1 /\ \A i \in 1..(l - 1) : r[i] = p[i]
    BY <1>1, <1>4, <1>7
  <1>9. \A i \in 1..n : r[i] = A_ar[i]
    <2>1. \A i \in 1..n : i \in 1..l /\ i <= n /\ i \in 1..(l - 1)
      BY <1>1
    <2> QED
      BY <1>3, <1>8, <2>1
  <1>10. \A i \in (n + 1)..(l - 1) : r[i] = A_ar[i + 1]
    <2>1. \A i \in (n + 1)..(l - 1) : i \in 1..l /\ ~ (i <= n) /\ i < l /\ i \in 1..(l - 1)
      BY <1>1
    <2> QED
      BY <1>3, <1>8, <2>1
  <1>11. A_Removes(r, n)
    <2>1. Len(r) = Len(A_ar) - 1 /\ n < Len(A_ar)
      BY <1>1, <1>8
    <2>2. \A i \in (n + 1)..(Len(A_ar) - 1) : r[i] = A_ar[i + 1]
      BY <1>1, <1>10
    <2> QED
      BY <1>6, <1>7, <1>8, <1>9, <2>1, <2>2, Zenon DEF A_Removes
  <1> QED
    BY <1>11, Zenon

(* So the other blocks are still pointed to, and nothing else is allocated. *)
LEMMA DeleteKeeps ==
    ASSUME A_Pointers, NEW n \in Nat, deleteBlockDynamic(n)
    PROVE  A_Pointers'
  <1>1. PICK r : A_Removes(r, n)
    BY DeleteBlock
  <1>c. /\ r = A_ar' /\ r \in Seq(Nat \ {0}) /\ Len(r) = Len(A_ar) - 1 /\ n < Len(A_ar)
        /\ \A i \in 1..n : r[i] = A_ar[i]
        /\ \A i \in (n + 1)..(Len(A_ar) - 1) : r[i] = A_ar[i + 1]
        /\ DOMAIN A_heap' = DOMAIN A_heap \ {A_ar[n + 1]}
    BY <1>1 DEF A_Removes
  <1>2. PICK l \in Nat : l = Len(A_ar) /\ A_ar \in Seq(Nat \ {0})
    BY DEF A_Pointers
  <1>3. \A a, b \in 1..l : A_ar[a] = A_ar[b] => a = b
    BY <1>2, PointersAre
  <1>4. DOMAIN A_heap = {A_ar[i] : i \in 1..l}
    BY <1>2, PointersAre
  <1>n. n + 1 \in 1..l /\ n < l
    BY <1>c, <1>2
  <1> DEFINE from(i) == IF i <= n THEN i ELSE i + 1
  <1>5. ASSUME NEW i \in 1..(l - 1)
        PROVE  from(i) \in 1..l /\ r[i] = A_ar[from(i)] /\ from(i) # n + 1
    <2>1. from(i) \in 1..l /\ from(i) # n + 1
      OBVIOUS
    <2>2. r[i] = A_ar[from(i)]
      <3>1. CASE i <= n
        BY <1>c, <3>1
      <3>2. CASE ~ (i <= n)
        <4>1. i \in (n + 1)..(Len(A_ar) - 1)
          BY <1>2, <3>2
        <4> QED
          BY <1>c, <3>2, <4>1
      <3> QED
        BY <3>1, <3>2
    <2> QED
      BY <2>1, <2>2
  <1>6. ASSUME NEW a \in 1..(l - 1), NEW b \in 1..(l - 1), r[a] = r[b] PROVE a = b
    <2>1. from(a) = from(b)
      BY <1>3, <1>5, <1>6
    <2> QED
      BY <2>1
  <1>7. IsInjective(r) /\ DOMAIN r = 1..(l - 1)
    <2>1. Len(r) = l - 1 /\ r \in Seq(Nat \ {0})
      BY <1>c, <1>2
    <2>2. DOMAIN r = 1..(l - 1)
      BY <2>1
    <2> QED
      BY <1>6, <2>2 DEF IsInjective
  <1>8. DOMAIN A_heap \ {A_ar[n + 1]} = {r[i] : i \in 1..(l - 1)}
    <2>1. ASSUME NEW i \in 1..(l - 1) PROVE r[i] \in DOMAIN A_heap \ {A_ar[n + 1]}
      <3>1. r[i] \in DOMAIN A_heap
        BY <1>4, <1>5
      <3>2. r[i] # A_ar[n + 1]
        BY <1>3, <1>5, <1>n
      <3> QED
        BY <3>1, <3>2
    <2>2. ASSUME NEW i \in 1..l, i # n + 1 PROVE \E k \in 1..(l - 1) : A_ar[i] = r[k]
      <3>1. CASE i <= n
        <4>1. i \in 1..(l - 1)
          BY <1>n, <3>1
        <4> QED
          BY <1>c, <3>1, <4>1
      <3>2. CASE ~ (i <= n)
        <4>1. PICK k \in Int : k = i - 1
          OBVIOUS
        <4>2. k \in (n + 1)..(Len(A_ar) - 1) /\ k \in 1..(l - 1) /\ k + 1 = i
          BY <1>2, <2>2, <3>2, <4>1
        <4> QED
          BY <1>c, <4>2
      <3> QED
        BY <3>1, <3>2
    <2>3. DOMAIN A_heap \ {A_ar[n + 1]} \subseteq {r[i] : i \in 1..(l - 1)}
      BY <1>4, <2>2
    <2> QED
      BY <2>1, <2>3
  <1>9. DOMAIN A_heap' = ToSet(r)
    BY <1>c, <1>7, <1>8 DEF ToSet
  <1> QED
    BY <1>c, <1>7, <1>9 DEF A_Pointers

(* The array is freed and one block allocated.                              *)
LEMMA Recreate ==
    ASSUME A_Pointers, recreateArrayDynamic
    PROVE  /\ A_Pointers' /\ Len(A_ar') = 1
           /\ A_heap'[A_ar'[1]] = Filled(<<>>, bl)
  <1>1. PICK heap : heap = [y \in DOMAIN A_heap \ ToSet(A_ar) |-> A_heap[y]]
    OBVIOUS
  <1>2. DOMAIN heap = {}
    BY <1>1 DEF A_Pointers
  <1>3. PICK x : x = NewAddress(heap)
    OBVIOUS
  <1>4. x \in Nat \ {0}
    <2>1. <<>> \in Seq(Nat) /\ ToSet(<<>>) = {}
      BY DEF ToSet
    <2> QED
      BY <1>2, <1>3, <2>1, AddressIsFree
  <1>5. A_ar' = <<x>> /\ A_heap' = [y \in DOMAIN heap \union {x} |->
                                       IF y = x THEN Filled(<<>>, bl) ELSE heap[y]]
    BY <1>1, <1>3 DEF recreateArrayDynamic
  <1>6. <<x>> \in Seq(Nat \ {0}) /\ Len(<<x>>) = 1 /\ <<x>>[1] = x
    BY <1>4
  <1>7. IsInjective(<<x>>) /\ ToSet(<<x>>) = {x}
    BY <1>6 DEF IsInjective, ToSet
  <1>8. DOMAIN A_heap' = {x} /\ A_heap'[x] = Filled(<<>>, bl)
    BY <1>2, <1>5
  <1> QED
    BY <1>5, <1>6, <1>7, <1>8 DEF A_Pointers

-----------------------------------------------------------------------------
(* A dynamic array holds the strings of its list.                           *)
A_DynamicInv ==
    /\ A_Pointers
    /\ A_list \in Seq(Strings(bl - 1)) /\ Len(A_list) = Len(A_ar)
    /\ \A k \in 1..Len(A_ar) : A_heap[A_ar[k]] = Filled(A_list[k], bl)

(* So does a static one, but for the blocks that may be spilled on.         *)
A_Kept(n) ==
    /\ A_list[n + 1] \in Strings(SoBlocks - 1)
    /\ \A c \in 1..SoBlocks : A_static[n * SoBlocks + c] = Filled(A_list[n + 1], SoBlocks)[c]

A_StaticInv ==
    /\ A_static \in [1..(NoBlocks * SoBlocks) -> Nat]
    /\ A_list \in Seq(Strings(SoBlocks)) /\ Len(A_list) = NoBlocks
    /\ \A n \in (0..(NoBlocks - 1)) \ A_spilled : A_Kept(n)

A_Inv ==
    /\ A_kind \in {"dynamic", "static"}
    /\ A_kind = "dynamic" => A_DynamicInv
    /\ A_kind = "static"  => A_StaticInv

(* The sizes of blocks are positive.                                        *)
LEMMA Sizes ==
    /\ bl \in Nat \ {0} /\ SoBlocks \in Nat \ {0} /\ NoBlocks \in Nat \ {0}
    /\ bl - 1 \in Nat /\ SoBlocks - 1 \in Nat /\ NoBlocks * SoBlocks \in Nat
    /\ \A n \in Nat : <<>> \in Strings(n)
    /\ \A n \in Nat : Strings(n) \subseteq Strings(n + 1)
  <1>1. bl \in Nat \ {0} /\ SoBlocks \in Nat \ {0} /\ NoBlocks \in Nat \ {0}
    BY BlockConstants
  <1>2. NoBlocks * SoBlocks \in Nat
    BY <1>1
  <1>3. ASSUME NEW n \in Nat PROVE <<>> \in Strings(n)
    <2>1. 0 \in 0..n /\ <<>> \in [1..0 -> Letters]
      OBVIOUS
    <2> QED
      BY <2>1 DEF Strings
  <1>4. ASSUME NEW n \in Nat PROVE Strings(n) \subseteq Strings(n + 1)
    <2>1. 0..n \subseteq 0..(n + 1)
      OBVIOUS
    <2> QED
      BY <2>1 DEF Strings
  <1> QED
    BY <1>1, <1>2, <1>3, <1>4

(* A string is put into the list of a dynamic array as it is into its table. *)
LEMMA AddDynamicInv ==
    ASSUME A_DynamicInv, NEW n \in Nat, NEW s \in Strings(bl - 1), addBlockDynamic(n, s)
    PROVE  A_DynamicInv'
  <1>0. A_Pointers
    BY DEF A_DynamicInv
  <1>1. PICK r, x : A_Inserts(r, x, n, s)
    BY <1>0, AddBlock
  <1>2. PICK l \in Nat : l = Len(A_ar) /\ l = Len(A_list) /\ n < l
    BY <1>0, <1>1 DEF A_DynamicInv, A_Pointers, A_Inserts
  <1>3. PICK q : q = A_list'
    OBVIOUS
  <1>4. /\ q \in Seq(Strings(bl - 1))
        /\ q = [i \in 1..(l + 1) |-> IF i <= n THEN A_list[i]
                                     ELSE IF i = n + 1 THEN s ELSE A_list[i - 1]]
    <2>1. q = InsertAt(A_list, n + 1, s) /\ A_list \in Seq(Strings(bl - 1)) /\ n < Len(A_list)
      BY <1>2, <1>3 DEF addBlockDynamic, A_DynamicInv
    <2>2. /\ InsertAt(A_list, n + 1, s) \in Seq(Strings(bl - 1))
          /\ InsertAt(A_list, n + 1, s) =
                 [i \in 1..(Len(A_list) + 1) |-> IF i <= n THEN A_list[i]
                      ELSE IF i = n + 1 THEN s ELSE A_list[i - 1]]
      BY <2>1, InsertAtIs
    <2> QED
      BY <1>2, <2>1, <2>2
  <1>5. Len(q) = l + 1
    <2>1. DOMAIN q = 1..(l + 1) /\ DOMAIN q = 1..Len(q) /\ Len(q) \in Nat
      BY <1>4
    <2>2. l + 1 \in 1..Len(q) /\ ~ (Len(q) \notin 1..(l + 1) /\ Len(q) # 0)
      BY <2>1
    <2> QED
      BY <2>2
  <1>6. ASSUME NEW k \in 1..(l + 1) PROVE A_heap'[r[k]] = Filled(q[k], bl)
    <2>0. \A i \in 1..l : A_ar[i] \in DOMAIN A_heap /\ A_heap[A_ar[i]] = Filled(A_list[i], bl)
      BY <1>0, <1>2, PointersAre DEF A_DynamicInv
    <2>1. \A i \in 1..l : A_heap'[A_ar[i]] = Filled(A_list[i], bl)
      BY <1>1, <2>0 DEF A_Inserts
    <2>2. A_heap'[x] = Filled(s, bl)
      BY <1>1 DEF A_Inserts
    <2>3. CASE k <= n
      <3>1. k \in 1..n /\ k \in 1..l
        BY <1>2, <2>3
      <3>2. r[k] = A_ar[k]
        BY <1>1, <3>1 DEF A_Inserts
      <3>3. q[k] = A_list[k]
        BY <1>4, <2>3
      <3> QED
        BY <2>1, <3>1, <3>2, <3>3
    <2>4. CASE k = n + 1
      <3>1. r[k] = x
        BY <1>1, <2>4 DEF A_Inserts
      <3>2. q[k] = s
        BY <1>4, <2>4
      <3> QED
        BY <2>2, <3>1, <3>2
    <2>5. CASE k > n + 1
      <3>1. PICK i \in Int : i = k - 1
        OBVIOUS
      <3>2. i \in (n + 1)..Len(A_ar) /\ i \in 1..l /\ k = i + 1 /\ ~ (k <= n) /\ k # n + 1
        BY <1>2, <2>5, <3>1
      <3>3. r[i + 1] = A_ar[i]
        BY <1>1, <3>2 DEF A_Inserts
      <3>4. q[k] = A_list[i]
        BY <1>4, <3>1, <3>2
      <3> QED
        BY <2>1, <3>2, <3>3, <3>4
    <2> QED
      BY <2>3, <2>4, <2>5
  <1>7. A_Pointers'
    BY <1>0, AddKeeps
  <1>8. r = A_ar' /\ Len(r) = l + 1
    BY <1>1, <1>2 DEF A_Inserts
  <1> QED
    BY <1>3, <1>4, <1>5, <1>6, <1>7, <1>8 DEF A_DynamicInv

(* And taken out of both.                                                   *)
LEMMA DeleteDynamicInv ==
    ASSUME A_DynamicInv, NEW n \in Nat, deleteBlockDynamic(n)
    PROVE  A_DynamicInv'
  <1>0. A_Pointers
    BY DEF A_DynamicInv
  <1>1. PICK r : A_Removes(r, n)
    BY <1>0, DeleteBlock
  <1>2. PICK l \in Nat : l = Len(A_ar) /\ l = Len(A_list) /\ n < l
    BY <1>0, <1>1 DEF A_DynamicInv, A_Pointers, A_Removes
  <1>3. PICK q : q = A_list'
    OBVIOUS
  <1>4. /\ q \in Seq(Strings(bl - 1))
        /\ q = [i \in 1..(l - 1) |-> IF i <= n THEN A_list[i] ELSE A_list[i + 1]]
    <2>1. q = RemoveAt(A_list, n + 1) /\ A_list \in Seq(Strings(bl - 1)) /\ n < Len(A_list)
      BY <1>2, <1>3 DEF deleteBlockDynamic, A_DynamicInv
    <2>2. /\ RemoveAt(A_list, n + 1) \in Seq(Strings(bl - 1))
          /\ RemoveAt(A_list, n + 1) =
                 [i \in 1..(Len(A_list) - 1) |-> IF i <= n THEN A_list[i] ELSE A_list[i + 1]]
      BY <2>1, RemoveAtIs
    <2> QED
      BY <1>2, <2>1, <2>2
  <1>5. Len(q) = l - 1
    <2>1. DOMAIN q = 1..(l - 1) /\ DOMAIN q = 1..Len(q) /\ Len(q) \in Nat /\ l - 1 \in Nat
      BY <1>2, <1>4
    <2>2. Len(q) \in 1..(l - 1) \/ Len(q) = 0
      BY <2>1
    <2>3. l - 1 \in 1..Len(q) \/ l - 1 = 0
      BY <2>1
    <2> QED
      BY <2>1, <2>2, <2>3
  <1>6. ASSUME NEW k \in 1..(l - 1) PROVE A_heap'[r[k]] = Filled(q[k], bl)
    <2>0. \A i \in 1..l : A_ar[i] \in DOMAIN A_heap /\ A_heap[A_ar[i]] = Filled(A_list[i], bl)
      BY <1>0, <1>2, PointersAre DEF A_DynamicInv
    <2>1. n + 1 \in 1..l /\ \A a, b \in 1..l : A_ar[a] = A_ar[b] => a = b
      BY <1>0, <1>2, PointersAre
    <2>2. \A i \in 1..l : i # n + 1 => A_heap'[A_ar[i]] = Filled(A_list[i], bl)
      BY <1>1, <2>0, <2>1 DEF A_Removes
    <2>3. CASE k <= n
      <3>1. k \in 1..n /\ k \in 1..l /\ k # n + 1
        BY <1>2, <2>3
      <3>2. r[k] = A_ar[k]
        BY <1>1, <3>1 DEF A_Removes
      <3>3. q[k] = A_list[k]
        BY <1>4, <2>3
      <3> QED
        BY <2>2, <3>1, <3>2, <3>3
    <2>4. CASE ~ (k <= n)
      <3>1. k \in (n + 1)..(Len(A_ar) - 1) /\ k + 1 \in 1..l /\ k + 1 # n + 1
        BY <1>2, <2>4
      <3>2. r[k] = A_ar[k + 1]
        BY <1>1, <3>1 DEF A_Removes
      <3>3. q[k] = A_list[k + 1]
        BY <1>4, <2>4
      <3> QED
        BY <2>2, <3>1, <3>2, <3>3
    <2> QED
      BY <2>3, <2>4
  <1>7. A_Pointers'
    BY <1>0, DeleteKeeps
  <1>8. r = A_ar' /\ Len(r) = l - 1
    BY <1>1, <1>2 DEF A_Removes
  <1> QED
    BY <1>3, <1>4, <1>5, <1>6, <1>7, <1>8 DEF A_DynamicInv

(* A string is written over another one in its own block only.              *)
LEMMA InsertDynamicInv ==
    ASSUME A_DynamicInv, NEW n \in Nat, NEW s \in Strings(bl - 1), insertBlockDynamic(n, s)
    PROVE  A_DynamicInv'
  <1>1. PICK l \in Nat : l = Len(A_ar) /\ l = Len(A_list) /\ n < l /\ n + 1 \in 1..l
    BY DEF A_DynamicInv, A_Pointers, insertBlockDynamic, al
  <1>2. A_ar' = A_ar /\ A_heap' = [A_heap EXCEPT ![A_ar[n + 1]] = Filled(s, bl)]
        /\ A_list' = [A_list EXCEPT ![n + 1] = s]
    BY DEF insertBlockDynamic
  <1>3. \A i \in 1..l : A_ar[i] \in DOMAIN A_heap /\ A_heap[A_ar[i]] = Filled(A_list[i], bl)
    BY <1>1, PointersAre DEF A_DynamicInv
  <1>4. \A a, b \in 1..l : A_ar[a] = A_ar[b] => a = b
    BY <1>1, PointersAre DEF A_DynamicInv
  <1>5. A_Pointers'
    <2>1. DOMAIN A_heap' = DOMAIN A_heap
      BY <1>2
    <2> QED
      BY <1>2, <2>1 DEF A_DynamicInv, A_Pointers
  <1>6. A_list' \in Seq(Strings(bl - 1)) /\ Len(A_list') = l
    BY <1>1, <1>2 DEF A_DynamicInv
  <1>7. ASSUME NEW k \in 1..l PROVE A_heap'[A_ar[k]] = Filled(A_list'[k], bl)
    <2>1. CASE k = n + 1
      <3>1. A_list'[k] = s
        BY <1>1, <1>2, <2>1 DEF A_DynamicInv
      <3> QED
        BY <1>2, <1>3, <2>1, <3>1
    <2>2. CASE k # n + 1
      <3>1. A_list'[k] = A_list[k]
        BY <1>1, <1>2, <2>2 DEF A_DynamicInv
      <3>2. A_ar[k] # A_ar[n + 1]
        BY <1>1, <1>4, <2>2
      <3> QED
        BY <1>2, <1>3, <3>1, <3>2
    <2> QED
      BY <2>1, <2>2
  <1> QED
    BY <1>1, <1>2, <1>5, <1>6, <1>7 DEF A_DynamicInv

(* An array that was made anew has one empty block.                         *)
LEMMA RecreateInv ==
    ASSUME A_DynamicInv, recreateArrayDynamic
    PROVE  A_DynamicInv'
  <1>1. A_Pointers
    BY DEF A_DynamicInv
  <1>2. A_Pointers' /\ Len(A_ar') = 1 /\ A_heap'[A_ar'[1]] = Filled(<<>>, bl)
    BY <1>1, Recreate
  <1>3. A_list' = << <<>> >>
    BY DEF recreateArrayDynamic
  <1>4. << <<>> >> \in Seq(Strings(bl - 1)) /\ Len(<< <<>> >>) = 1 /\ << <<>> >>[1] = <<>>
    BY Sizes
  <1>5. \A k \in 1..1 : k = 1
    OBVIOUS
  <1> QED
    BY <1>2, <1>3, <1>4, <1>5 DEF A_DynamicInv

(* A place in the static array is one in a block.                           *)
LEMMA BlockPlace ==
    ASSUME NEW n \in 0..(NoBlocks - 1), NEW c \in 1..SoBlocks
    PROVE  /\ n * SoBlocks + c \in 1..(NoBlocks * SoBlocks)
           /\ ((n * SoBlocks + c) - 1) \div SoBlocks = n
           /\ ((n * SoBlocks + c) - 1) % SoBlocks = c - 1
           /\ (n * SoBlocks + c) % SoBlocks = 0 <=> c = SoBlocks
  <1>1. PICK b \in Nat \ {0} : b = SoBlocks
    BY Sizes
  <1>2. \A s \in Nat \ {0}, q \in Nat, r \in Nat :
            r < s => (q * s + r) \div s = q /\ (q * s + r) % s = r
    OBVIOUS
  <1>3. n \in Nat /\ c - 1 \in Nat /\ c - 1 < b /\ n < NoBlocks /\ NoBlocks \in Nat
    BY <1>1, Sizes
  <1>4. PICK a \in Nat : a = n * b
    BY <1>3
  <1>5. (a + (c - 1)) \div b = n /\ (a + (c - 1)) % b = c - 1
    BY <1>2, <1>3, <1>4
  <1>6. a + (c - 1) = (a + c) - 1 /\ c \in Nat
    BY <1>1, <1>4
  <1>7. a + b <= NoBlocks * b
    <2>1. \A x, y, z \in Nat : x < y => x * z + z <= y * z
      OBVIOUS
    <2> QED
      BY <1>3, <1>4, <2>1
  <1>8. a + c \in 1..(NoBlocks * b)
    BY <1>1, <1>3, <1>4, <1>6, <1>7
  <1>9. (a + c) % b = 0 <=> c = b
    <2>1. CASE c < b
      <3>1. (a + c) % b = c
        BY <1>2, <1>3, <1>4, <1>6, <2>1
      <3> QED
        BY <2>1, <3>1, <1>6
    <2>2. CASE c = b
      <3>1. (n + 1) * b = a + b
        BY <1>3, <1>4
      <3>2. ((n + 1) * b + 0) % b = 0
        BY <1>2, <1>3
      <3>3. (n + 1) * b + 0 = (n + 1) * b
        BY <1>3
      <3> QED
        BY <2>2, <3>1, <3>2, <3>3
    <2> QED
      BY <1>1, <2>1, <2>2
  <1> QED
    BY <1>1, <1>4, <1>5, <1>6, <1>8, <1>9

(* The character that follows a block is in the next one.                   *)
LEMMA NextBlock ==
    ASSUME NEW n \in Nat, NEW m \in 0..(NoBlocks - 1), NEW c \in 1..SoBlocks
    PROVE  m * SoBlocks + c = (n + 1) * SoBlocks + 1 => m = n + 1
  <1>1. SUFFICES ASSUME m * SoBlocks + c = (n + 1) * SoBlocks + 1 PROVE m = n + 1
    OBVIOUS
  <1>2. PICK b \in Nat \ {0} : b = SoBlocks
    BY Sizes
  <1>3. \A s \in Nat \ {0}, q \in Nat : (q * s) \div s = q
    OBVIOUS
  <1>4. ((n + 1) * b) \div b = n + 1
    BY <1>3
  <1>5. ((n + 1) * b + 1) - 1 = (n + 1) * b
    OBVIOUS
  <1>6. ((m * b + c) - 1) \div b = m
    BY <1>2, BlockPlace
  <1> QED
    BY <1>1, <1>2, <1>4, <1>5, <1>6

(* strcpy into a block changes its characters, and at most the first one of *)
(* the next, which is spilled then.                                         *)
LEMMA InsertStaticInv ==
    ASSUME A_StaticInv, NEW n \in 0..(NoBlocks - 1), NEW s \in Strings(SoBlocks),
           insertBlockStatic(n, s)
    PROVE  A_StaticInv'
  <1> DEFINE spills == Len(s) = SoBlocks
  <1>1. /\ A_static' = [k \in DOMAIN A_static |->
                          IF (k - 1) \div SoBlocks = n
                          THEN Filled(s, SoBlocks)[((k - 1) % SoBlocks) + 1]
                          ELSE IF spills /\ k = (n + 1) * SoBlocks + 1 THEN 0
                          ELSE A_static[k]]
        /\ A_list' = [A_list EXCEPT ![n + 1] = s]
        /\ A_spilled' = IF spills THEN A_spilled \union {n, n + 1} ELSE A_spilled
    BY DEF insertBlockStatic
  <1>2. s \in Seq(Letters) /\ Len(s) \in 0..SoBlocks /\ s \in [1..Len(s) -> Nat \ {0}]
    BY Sizes, StringsAre
  <1>3. \A k \in 1..SoBlocks : Filled(s, SoBlocks)[k] \in Nat
    BY <1>2 DEF Filled
  <1>s. DOMAIN A_static = 1..(NoBlocks * SoBlocks)
        /\ \A k \in 1..(NoBlocks * SoBlocks) : A_static[k] \in Nat
    BY DEF A_StaticInv
  <1>4. A_static' \in [1..(NoBlocks * SoBlocks) -> Nat]
    <2>1. \A k \in 1..(NoBlocks * SoBlocks) : ((k - 1) % SoBlocks) + 1 \in 1..SoBlocks
      <3>1. PICK b \in Nat \ {0} : b = SoBlocks
        BY Sizes
      <3>2. \A k \in Nat : (k % b) + 1 \in 1..b
        OBVIOUS
      <3>3. \A k \in 1..(NoBlocks * SoBlocks) : k - 1 \in Nat
        BY Sizes
      <3> QED
        BY <3>1, <3>2, <3>3
    <2>2. ASSUME NEW k \in 1..(NoBlocks * SoBlocks) PROVE A_static'[k] \in Nat
      <3>1. Filled(s, SoBlocks)[((k - 1) % SoBlocks) + 1] \in Nat
        BY <1>3, <2>1
      <3>2. A_static[k] \in Nat
        BY <1>s
      <3> QED
        BY <1>1, <1>s, <3>1, <3>2
    <2>3. A_static' = [k \in 1..(NoBlocks * SoBlocks) |-> A_static'[k]]
      BY <1>1, <1>s
    <2> QED
      BY <2>2, <2>3
  <1>5. A_list' \in Seq(Strings(SoBlocks)) /\ Len(A_list') = NoBlocks
    BY <1>1 DEF A_StaticInv
  <1>l. \A m \in 0..(NoBlocks - 1) : m + 1 \in 1..NoBlocks /\ m \in Nat
    BY Sizes
  <1>6. ASSUME NEW m \in (0..(NoBlocks - 1)) \ A_spilled' PROVE A_Kept(m)'
    <2>1. ASSUME NEW c \in 1..SoBlocks
          PROVE  A_static'[m * SoBlocks + c] =
                     IF m = n THEN Filled(s, SoBlocks)[c]
                     ELSE IF spills /\ m * SoBlocks + c = (n + 1) * SoBlocks + 1 THEN 0
                     ELSE A_static[m * SoBlocks + c]
      <3>1. PICK k \in 1..(NoBlocks * SoBlocks) :
                k = m * SoBlocks + c /\ (k - 1) \div SoBlocks = m /\ (k - 1) % SoBlocks = c - 1
        BY BlockPlace
      <3>2. (c - 1) + 1 = c
        BY Sizes
      <3> QED
        BY <1>1, <1>s, <3>1, <3>2
    <2>2. CASE m = n
      <3>1. ~ spills
        BY <1>1, <2>2
      <3>2. s \in Strings(SoBlocks - 1)
        <4>1. PICK l \in 0..SoBlocks : s \in [1..l -> Letters]
          BY DEF Strings
        <4>2. l \in Nat /\ Len(s) = l
          BY <4>1
        <4>3. l # SoBlocks /\ SoBlocks \in Nat
          BY <3>1, <4>2, Sizes
        <4>4. l \in 0..(SoBlocks - 1)
          BY <4>1, <4>3
        <4> QED
          BY <4>1, <4>4 DEF Strings
      <3>3. A_list'[m + 1] = s
        BY <1>1, <1>l, <2>2 DEF A_StaticInv
      <3> QED
        BY <2>1, <2>2, <3>2, <3>3 DEF A_Kept
    <2>3. CASE m # n
      <3>1. m \notin A_spilled /\ (spills => m # n + 1)
        BY <1>1
      <3>2. A_Kept(m)
        BY <3>1 DEF A_StaticInv
      <3>3. A_list'[m + 1] = A_list[m + 1]
        BY <1>1, <1>l, <2>3 DEF A_StaticInv
      <3>4. ASSUME NEW c \in 1..SoBlocks
            PROVE  A_static'[m * SoBlocks + c] = A_static[m * SoBlocks + c]
        <4>1. m * SoBlocks + c = (n + 1) * SoBlocks + 1 => m = n + 1
          BY NextBlock
        <4> QED
          BY <2>1, <2>3, <3>1, <4>1
      <3> QED
        BY <3>2, <3>3, <3>4 DEF A_Kept
    <2> QED
      BY <2>2, <2>3
  <1> QED
    BY <1>4, <1>5, <1>6 DEF A_StaticInv

(* A block is filled with zeroes.                                           *)
LEMMA DeleteStaticInv ==
    ASSUME A_StaticInv, NEW n \in 0..(NoBlocks - 1), deleteBlockStatic(n)
    PROVE  A_StaticInv'
  <1>1. /\ A_static' = [k \in DOMAIN A_static |->
                          IF (k - 1) \div SoBlocks = n THEN 0 ELSE A_static[k]]
        /\ A_list' = [A_list EXCEPT ![n + 1] = <<>>] /\ A_spilled' = A_spilled
    BY DEF deleteBlockStatic
  <1>s. DOMAIN A_static = 1..(NoBlocks * SoBlocks)
        /\ \A k \in 1..(NoBlocks * SoBlocks) : A_static[k] \in Nat
    BY DEF A_StaticInv
  <1>2. A_static' \in [1..(NoBlocks * SoBlocks) -> Nat]
    BY <1>1, <1>s
  <1>3. <<>> \in Strings(SoBlocks) /\ <<>> \in Strings(SoBlocks - 1)
    BY Sizes
  <1>4. A_list' \in Seq(Strings(SoBlocks)) /\ Len(A_list') = NoBlocks
    BY <1>1, <1>3 DEF A_StaticInv
  <1>l. \A m \in 0..(NoBlocks - 1) : m + 1 \in 1..NoBlocks /\ m \in Nat
    BY Sizes
  <1>5. ASSUME NEW m \in (0..(NoBlocks - 1)) \ A_spilled' PROVE A_Kept(m)'
    <2>1. ASSUME NEW c \in 1..SoBlocks
          PROVE  A_static'[m * SoBlocks + c] = IF m = n THEN 0 ELSE A_static[m * SoBlocks + c]
      <3>1. PICK k \in 1..(NoBlocks * SoBlocks) :
                k = m * SoBlocks + c /\ (k - 1) \div SoBlocks = m
        BY BlockPlace
      <3> QED
        BY <1>1, <1>s, <3>1
    <2>2. A_Kept(m)
      BY <1>1 DEF A_StaticInv
    <2>3. CASE m = n
      <3>1. A_list'[m + 1] = <<>>
        BY <1>1, <1>l, <2>3 DEF A_StaticInv
      <3>2. \A c \in 1..SoBlocks : Filled(<<>>, SoBlocks)[c] = 0
        BY DEF Filled
      <3> QED
        BY <1>3, <2>1, <2>3, <3>1, <3>2 DEF A_Kept
    <2>4. CASE m # n
      <3>1. A_list'[m + 1] = A_list[m + 1]
        BY <1>1, <1>l, <2>4 DEF A_StaticInv
      <3> QED
        BY <2>1, <2>2, <2>4, <3>1 DEF A_Kept
    <2> QED
      BY <2>3, <2>4
  <1> QED
    BY <1>2, <1>4, <1>5 DEF A_StaticInv

(* So is the whole array.                                                   *)
LEMMA EmptyStaticInv ==
    ASSUME A_StaticInv, deleteArrayStatic
    PROVE  A_StaticInv'
  <1>1. /\ A_static' = [k \in DOMAIN A_static |-> 0]
        /\ A_list' = [k \in DOMAIN A_list |-> <<>>]
    BY DEF deleteArrayStatic
  <1>2. DOMAIN A_static = 1..(NoBlocks * SoBlocks) /\ DOMAIN A_list = 1..NoBlocks
    BY DEF A_StaticInv
  <1>3. <<>> \in Strings(SoBlocks) /\ <<>> \in Strings(SoBlocks - 1)
    BY Sizes
  <1>4. A_list' \in Seq(Strings(SoBlocks)) /\ Len(A_list') = NoBlocks
    BY <1>1, <1>2, <1>3, Sizes
  <1>5. ASSUME NEW m \in 0..(NoBlocks - 1) PROVE A_Kept(m)'
    <2>1. A_list'[m + 1] = <<>>
      BY <1>1, <1>2, Sizes
    <2>2. \A c \in 1..SoBlocks : Filled(<<>>, SoBlocks)[c] = 0
      BY DEF Filled
    <2>3. \A c \in 1..SoBlocks : A_static'[m * SoBlocks + c] = 0
      BY <1>1, <1>2, BlockPlace
    <2> QED
      BY <1>3, <2>1, <2>2, <2>3 DEF A_Kept
  <1> QED
    BY <1>1, <1>2, <1>4, <1>5 DEF A_StaticInv

(* One that is created is full of one letter.                               *)
LEMMA FullStaticInv ==
    ASSUME A_StaticInv, createArrayStatic
    PROVE  A_StaticInv'
  <1>1. PICK x \in Letters : x = Min(Letters) /\ x \in Nat \ {0}
    <2>1. Letters \in SUBSET Nat /\ Letters # {} /\ Letters \subseteq Nat \ {0}
      BY BlockConstants
    <2> QED
      BY <2>1, MinIsLeast
  <1>2. PICK full : full = [k \in 1..(SoBlocks - 1) |-> x]
    OBVIOUS
  <1>3. /\ A_static' = [k \in DOMAIN A_static |-> IF k % SoBlocks = 0 THEN 0 ELSE x]
        /\ A_list' = [k \in DOMAIN A_list |-> full]
    BY <1>1, <1>2 DEF createArrayStatic
  <1>4. PICK b \in Nat \ {0} : b = SoBlocks /\ b - 1 \in Nat
    BY Sizes
  <1>5. full \in Strings(b - 1) /\ full \in Strings(b) /\ Len(full) = b - 1
    <2>1. full \in [1..(b - 1) -> Letters]
      BY <1>1, <1>2, <1>4
    <2>2. b - 1 \in 0..(b - 1) /\ b - 1 \in 0..b
      BY <1>4
    <2>3. Len(full) = b - 1
      BY <1>2, <1>4
    <2> QED
      BY <2>1, <2>2, <2>3 DEF Strings
  <1>6. DOMAIN A_static = 1..(NoBlocks * SoBlocks) /\ DOMAIN A_list = 1..NoBlocks
    BY DEF A_StaticInv
  <1>7. A_list' \in Seq(Strings(SoBlocks)) /\ Len(A_list') = NoBlocks
    BY <1>3, <1>4, <1>5, <1>6, Sizes
  <1>8. ASSUME NEW m \in 0..(NoBlocks - 1) PROVE A_Kept(m)'
    <2>1. A_list'[m + 1] = full
      BY <1>3, <1>6, Sizes
    <2>2. ASSUME NEW c \in 1..SoBlocks
          PROVE  A_static'[m * SoBlocks + c] = Filled(full, SoBlocks)[c]
      <3>1. PICK k \in 1..(NoBlocks * SoBlocks) :
                k = m * SoBlocks + c /\ (k % SoBlocks = 0 <=> c = SoBlocks)
        BY BlockPlace
      <3>2. A_static'[k] = IF c = SoBlocks THEN 0 ELSE x
        BY <1>3, <1>6, <3>1
      <3>3. Filled(full, SoBlocks)[c] = IF c <= b - 1 THEN full[c] ELSE 0
        BY <1>5 DEF Filled
      <3>4. c <= b - 1 <=> c # SoBlocks
        BY <1>4
      <3>5. c <= b - 1 => full[c] = x
        BY <1>2, <1>4
      <3> QED
        BY <3>1, <3>2, <3>3, <3>4, <3>5
    <2> QED
      BY <1>4, <1>5, <2>1, <2>2 DEF A_Kept
  <1>9. A_static' \in [1..(NoBlocks * SoBlocks) -> Nat]
    BY <1>1, <1>3, <1>6
  <1> QED
    BY <1>7, <1>8, <1>9 DEF A_StaticInv

-----------------------------------------------------------------------------
(* In the beginning an array is created.                                    *)
LEMMA InitArray == A_Init => A_Inv
  <1> SUFFICES ASSUME A_Init PROVE A_Inv
    OBVIOUS
  <1>1. A_kind \in {"dynamic", "static"}
    BY DEF A_Init
  <1>2. CASE A_kind = "dynamic"
    <2>1. A_ar = <<1>> /\ A_heap = [x \in ToSet(A_ar) |-> Filled(<<>>, bl)]
          /\ A_list = [k \in 1..1 |-> <<>>]
      BY <1>2 DEF A_Init
    <2>2. A_Pointers
      <3>1. <<1>> \in Seq(Nat \ {0}) /\ DOMAIN <<1>> = 1..1
        OBVIOUS
      <3>2. \A a, b \in 1..1 : a = b
        OBVIOUS
      <3> QED
        BY <2>1, <3>1, <3>2 DEF A_Pointers, IsInjective
    <2>3. A_list \in Seq(Strings(bl - 1)) /\ Len(A_list) = 1 /\ Len(A_ar) = 1
      BY <2>1, Sizes
    <2>4. \A k \in 1..1 : A_heap[A_ar[k]] = Filled(A_list[k], bl)
      BY <2>1, <2>2, PointersAre, <2>3
    <2> QED
      BY <1>2, <2>2, <2>3, <2>4 DEF A_Inv, A_DynamicInv
  <1>3. CASE A_kind = "static"
    <2>1. A_static = [k \in 1..(NoBlocks * SoBlocks) |-> 0]
          /\ A_list = [k \in 1..NoBlocks |-> <<>>]
      BY <1>3 DEF A_Init
    <2>2. A_list \in Seq(Strings(SoBlocks)) /\ Len(A_list) = NoBlocks
      BY <2>1, Sizes
    <2>3. ASSUME NEW n \in 0..(NoBlocks - 1) PROVE A_Kept(n)
      <3>1. A_list[n + 1] = <<>>
        BY <2>1, Sizes
      <3>2. \A c \in 1..SoBlocks : Filled(<<>>, SoBlocks)[c] = 0
        BY DEF Filled
      <3>3. \A c \in 1..SoBlocks : A_static[n * SoBlocks + c] = 0
        BY <2>1, BlockPlace
      <3> QED
        BY <3>1, <3>2, <3>3, Sizes DEF A_Kept
    <2> QED
      BY <1>3, <2>1, <2>2, <2>3 DEF A_Inv, A_StaticInv
  <1> QED
    BY <1>1, <1>2, <1>3

(* Every operation keeps the invariant of the array.                        *)
LEMMA NextArray == A_Inv /\ [A_Next]_A_vars => A_Inv'
  <1> SUFFICES ASSUME A_Inv, [A_Next]_A_vars PROVE A_Inv'
    OBVIOUS
  <1>k. \A n \in 0..(MaxBlocks - 1) : n \in Nat
    BY BlockConstants
  <1>1. ASSUME NEW n \in 0..(MaxBlocks - 1), deleteBlockDynamic(n) PROVE A_Inv'
    <2>1. A_kind = "dynamic" /\ A_kind' = A_kind
      BY <1>1 DEF deleteBlockDynamic
    <2>2. A_DynamicInv'
      BY <1>1, <1>k, <2>1, DeleteDynamicInv DEF A_Inv
    <2> QED
      BY <2>1, <2>2 DEF A_Inv
  <1>2. ASSUME NEW n \in 0..(MaxBlocks - 1), NEW s \in Strings(bl - 1), insertBlockDynamic(n, s)
        PROVE  A_Inv'
    <2>1. A_kind = "dynamic" /\ A_kind' = A_kind
      BY <1>2 DEF insertBlockDynamic
    <2>2. A_DynamicInv'
      BY <1>2, <1>k, <2>1, InsertDynamicInv DEF A_Inv
    <2> QED
      BY <2>1, <2>2 DEF A_Inv
  <1>3. ASSUME NEW n \in 0..(MaxBlocks - 1), NEW s \in Strings(bl - 1), addBlockDynamic(n, s)
        PROVE  A_Inv'
    <2>1. A_kind = "dynamic" /\ A_kind' = A_kind
      BY <1>3 DEF addBlockDynamic
    <2>2. A_DynamicInv'
      BY <1>3, <1>k, <2>1, AddDynamicInv DEF A_Inv
    <2> QED
      BY <2>1, <2>2 DEF A_Inv
  <1>4. ASSUME NEW n \in 0..(NoBlocks - 1), deleteBlockStatic(n) PROVE A_Inv'
    <2>1. A_kind = "static" /\ A_kind' = A_kind
      BY <1>4 DEF deleteBlockStatic
    <2>2. A_StaticInv'
      BY <1>4, <2>1, DeleteStaticInv DEF A_Inv
    <2> QED
      BY <2>1, <2>2 DEF A_Inv
  <1>5. ASSUME NEW n \in 0..(NoBlocks - 1), NEW s \in Strings(SoBlocks), insertBlockStatic(n, s)
        PROVE  A_Inv'
    <2>1. A_kind = "static" /\ A_kind' = A_kind
      BY <1>5 DEF insertBlockStatic
    <2>2. A_StaticInv'
      BY <1>5, <2>1, InsertStaticInv DEF A_Inv
    <2> QED
      BY <2>1, <2>2 DEF A_Inv
  <1>6. CASE recreateArrayDynamic
    <2>1. A_kind = "dynamic" /\ A_kind' = A_kind
      BY <1>6 DEF recreateArrayDynamic
    <2>2. A_DynamicInv'
      BY <1>6, <2>1, RecreateInv DEF A_Inv
    <2> QED
      BY <2>1, <2>2 DEF A_Inv
  <1>7. CASE deleteArrayStatic
    <2>1. A_kind = "static" /\ A_kind' = A_kind
      BY <1>7 DEF deleteArrayStatic
    <2>2. A_StaticInv'
      BY <1>7, <2>1, EmptyStaticInv DEF A_Inv
    <2> QED
      BY <2>1, <2>2 DEF A_Inv
  <1>8. CASE createArrayStatic
    <2>1. A_kind = "static" /\ A_kind' = A_kind
      BY <1>8 DEF createArrayStatic
    <2>2. A_StaticInv'
      BY <1>8, <2>1, FullStaticInv DEF A_Inv
    <2> QED
      BY <2>1, <2>2 DEF A_Inv
  <1>9. CASE UNCHANGED A_vars
    BY <1>9 DEF A_Inv, A_DynamicInv, A_StaticInv, A_Kept, A_Pointers, A_vars, A_dynamic
  <1> QED
    BY <1>1, <1>2, <1>3, <1>4, <1>5, <1>6, <1>7, <1>8, <1>9 DEF A_Next

(* An array that holds the strings of its list shows them.                  *)
LEMMA ArrayInvImplies == A_Inv => ArrayIsList
  <1> SUFFICES ASSUME A_Inv PROVE ArrayIsList
    OBVIOUS
  <1>1. ASSUME A_kind = "dynamic"
        PROVE  [k \in 1..al |-> Block(k - 1)] = A_list /\ A_Pointers
    <2>1. PICK l \in Nat : l = Len(A_ar) /\ l = Len(A_list) /\ A_list \in Seq(Strings(bl - 1))
      BY <1>1 DEF A_Inv, A_DynamicInv, A_Pointers
    <2>2. ASSUME NEW k \in 1..l PROVE Block(k - 1) = A_list[k]
      <3>1. (k - 1) + 1 = k
        OBVIOUS
      <3>2. A_list[k] \in Strings(bl - 1)
        BY <2>1, ElementOfSeq
      <3>3. A_heap[A_ar[k]] = Filled(A_list[k], bl)
        BY <1>1, <2>1 DEF A_Inv, A_DynamicInv
      <3> QED
        BY <3>1, <3>2, <3>3, Sizes, StringOfFilled DEF Block
    <2>3. A_list = [k \in 1..l |-> A_list[k]]
      BY <2>1
    <2> QED
      BY <1>1, <2>1, <2>2, <2>3 DEF al, A_Inv, A_DynamicInv
  <1>2. ASSUME A_kind = "static", NEW n \in (0..(NoBlocks - 1)) \ A_spilled
        PROVE  StaticBlock(n) = A_list[n + 1]
    <2>1. PICK s : s = A_list[n + 1]
      OBVIOUS
    <2>2. s \in Strings(SoBlocks - 1)
          /\ \A c \in 1..SoBlocks : A_static[n * SoBlocks + c] = Filled(s, SoBlocks)[c]
      BY <1>2, <2>1 DEF A_Inv, A_StaticInv, A_Kept
    <2>b. PICK b \in Nat \ {0} : b = SoBlocks /\ b - 1 \in Nat
      BY Sizes
    <2>c. Len(s) \in 0..(b - 1) /\ s \in [1..Len(s) -> Nat \ {0}]
      BY <2>2, <2>b, StringsAre
    <2>3. PICK m \in 0..(b - 1) : m = Len(s) /\ s \in [1..m -> Nat \ {0}]
      BY <2>c
    <2>4. PICK a \in Nat : a = n * SoBlocks
      BY Sizes
    <2>5. PICK z \in Nat : z = NoBlocks * SoBlocks /\ a + SoBlocks <= z
      <3>1. SoBlocks \in 1..SoBlocks
        BY Sizes
      <3>2. a + SoBlocks \in 1..(NoBlocks * SoBlocks)
        BY <2>4, <3>1, BlockPlace
      <3> QED
        BY <3>2, Sizes
    <2>6. A_static \in [1..z -> Nat]
      BY <1>2, <2>5 DEF A_Inv, A_StaticInv
    <2>7. HoldsAt(A_static, a + 1, s)
      <3>1. ASSUME NEW k \in 1..m PROVE A_static[(a + 1) - 1 + k] = s[k]
        <4>1. k \in 1..b /\ k <= m /\ (a + 1) - 1 + k = a + k
          OBVIOUS
        <4>2. A_static[a + k] = Filled(s, SoBlocks)[k]
          BY <2>2, <2>4, <2>b, <4>1
        <4> QED
          BY <2>3, <2>b, <4>1, <4>2 DEF Filled
      <3>2. A_static[(a + 1) + m] = 0
        <4>1. m + 1 \in 1..b /\ ~ (m + 1 <= m) /\ (a + 1) + m = a + (m + 1)
          OBVIOUS
        <4>2. A_static[a + (m + 1)] = Filled(s, SoBlocks)[m + 1]
          BY <2>2, <2>4, <2>b, <4>1
        <4> QED
          BY <2>3, <2>b, <4>1, <4>2 DEF Filled
      <3> QED
        BY <2>3, <3>1, <3>2 DEF HoldsAt
    <2>8. (a + 1) + m <= z /\ a + 1 \in Nat \ {0} /\ s \in Seq(Nat \ {0})
      <3>1. (a + 1) + m <= a + b
        OBVIOUS
      <3>2. (a + 1) + m <= z
        BY <2>5, <2>b, <3>1
      <3>3. m \in Nat
        OBVIOUS
      <3> QED
        BY <2>3, <3>2, <3>3
    <2>9. StringAt(A_static, a + 1) = s
      BY <2>3, <2>6, <2>7, <2>8, StringInMemory
    <2> QED
      BY <2>1, <2>4, <2>9 DEF StaticBlock
  <1>3. A_kind = "dynamic" => DOMAIN A_heap = ToSet(A_ar) /\ IsInjective(A_ar)
    BY DEF A_Inv, A_DynamicInv, A_Pointers
  <1> QED
    BY <1>1, <1>2, <1>3 DEF ArrayIsList

(* For every size: after any sequence of operations of the library the      *)
(* array holds the strings put into it, in their order, and the heap        *)
(* exactly its blocks; a static block may differ only if it or the one      *)
(* before it was given a string without room for the terminator.            *)
THEOREM ArrayHoldsItsList == A_Spec => []ArrayIsList
  <1>1. A_Spec => []A_Inv
    BY InitArray, NextArray, PTL DEF A_Spec
  <1> QED
    BY <1>1, ArrayInvImplies, PTL

-----------------------------------------------------------------------------
(* The searches in an array.                                                *)

(* A sum is what the loop over the characters comes to.                     *)
LEMMA SumIs ==
    ASSUME NEW l \in Nat, NEW s \in [1..l -> Nat]
    PROVE  \E f \in [0..l -> Nat] : /\ f[0] = 0 /\ \A k \in 1..l : f[k] = f[k - 1] + s[k]
                                    /\ Sum(s) = f[l]
  <1> DEFINE F(f, m) == [k \in 0..m |-> IF k = 0 THEN 0 ELSE f[k - 1] + s[k]]
             none == {m \in Nat : m <= l /\ ~ \E f : f = F(f, m)}
  <1>1. \E f : f = F(f, l)
    <2>0. SUFFICES ASSUME none # {} PROVE FALSE
      <3>1. l \in Nat /\ l <= l
        OBVIOUS
      <3> HIDE DEF F
      <3> QED
        BY <3>1
    <2>1. PICK m \in none : \A k \in none : m <= k
      <3>1. none \in SUBSET Nat
        OBVIOUS
      <3> HIDE DEF none
      <3> QED
        BY <2>0, <3>1, HasLeast
    <2>2. m # 0
      <3>1. SUFFICES ASSUME m = 0 PROVE FALSE
        OBVIOUS
      <3>2. PICK f : f = [k \in 0..0 |-> 0]
        OBVIOUS
      <3>3. f = F(f, 0)
        BY <3>2
      <3> QED
        BY <2>1, <3>1, <3>3
    <2>3. m - 1 \in Nat /\ m - 1 <= l /\ ~ (m <= m - 1)
      BY <2>1, <2>2
    <2>4. PICK f : f = F(f, m - 1)
      BY <2>1, <2>3
    <2>5. \A k \in 0..(m - 1) : f[k] = IF k = 0 THEN 0 ELSE f[k - 1] + s[k]
      BY <2>4
    <2>6. PICK g : g = [k \in 0..m |-> IF k < m THEN f[k] ELSE f[m - 1] + s[m]]
      OBVIOUS
    <2>7. ASSUME NEW k \in 0..m
          PROVE  (IF k < m THEN f[k] ELSE f[m - 1] + s[m])
                     = (IF k = 0 THEN 0 ELSE g[k - 1] + s[k])
      <3>1. CASE k = 0
        <4>1. 0 < m /\ 0 \in 0..(m - 1)
          BY <2>1, <2>2
        <4>2. f[0] = 0
          BY <2>5, <4>1
        <4> QED
          BY <3>1, <4>1, <4>2
      <3>2. CASE k # 0
        <4>1. k - 1 \in 0..m /\ k - 1 < m /\ (k < m => k \in 0..(m - 1)) /\ (~ (k < m) => k = m)
          BY <3>2
        <4>2. g[k - 1] = f[k - 1]
          BY <2>6, <4>1
        <4> QED
          BY <2>5, <3>2, <4>1, <4>2
      <3> QED
        BY <3>1, <3>2
    <2>8. g = F(g, m)
      BY <2>6, <2>7
    <2> QED
      BY <2>1, <2>8
  <1>2. PICK f : f = (CHOOSE g : g = F(g, l)) /\ f = F(f, l)
    BY <1>1
  <1>3. \A k \in 0..l : f[k] = IF k = 0 THEN 0 ELSE f[k - 1] + s[k]
    BY <1>2
  <1>4. f[0] = 0 /\ \A k \in 1..l : f[k] = f[k - 1] + s[k]
    BY <1>3
  <1> DEFINE bad == {k \in 0..l : f[k] \notin Nat}
  <1>5. bad = {}
    <2> SUFFICES ASSUME bad # {} PROVE FALSE
      OBVIOUS
    <2>1. PICK k \in bad : \A h \in bad : k <= h
      <3>1. bad \in SUBSET Nat
        OBVIOUS
      <3> HIDE DEF bad
      <3> QED
        BY <3>1, HasLeast
    <2>2. k # 0 /\ k \in 1..l /\ k - 1 \in 0..l /\ ~ (k <= k - 1)
      BY <1>4, <2>1
    <2>3. f[k - 1] \in Nat /\ s[k] \in Nat
      BY <2>1, <2>2
    <2> QED
      BY <1>4, <2>1, <2>2, <2>3
  <1>6. f \in [0..l -> Nat]
    <2>1. \A k \in 0..l : f[k] \in Nat
      BY <1>5
    <2>2. f = [k \in 0..l |-> f[k]]
      BY <1>2
    <2> QED
      BY <2>1, <2>2
  <1>7. Sum(s) = f[l]
    <2>1. Len(s) = l
      OBVIOUS
    <2> QED
      BY <1>2, <2>1 DEF Sum
  <1> QED
    BY <1>4, <1>6, <1>7

(* v is u with zeroes behind it.                                            *)
Padded(v, l, u, m) == \A k \in 1..l : v[k] = IF k <= m THEN u[k] ELSE 0

(* The sum of a string is a natural number, and zeroes do not count.        *)
LEMMA SumPadded ==
    ASSUME NEW l \in Nat, NEW m \in 0..l, NEW u \in [1..m -> Nat], NEW v \in [1..l -> Nat],
           Padded(v, l, u, m)
    PROVE  Sum(v) = Sum(u) /\ Sum(u) \in Nat
  <1>p. \A k \in 1..l : v[k] = IF k <= m THEN u[k] ELSE 0
    BY DEF Padded
  <1>0. m \in Nat /\ m <= l
    OBVIOUS
  <1>1. PICK f \in [0..m -> Nat] : /\ f[0] = 0 /\ \A k \in 1..m : f[k] = f[k - 1] + u[k]
                                   /\ Sum(u) = f[m]
    BY <1>0, SumIs
  <1>2. PICK g \in [0..l -> Nat] : /\ g[0] = 0 /\ \A k \in 1..l : g[k] = g[k - 1] + v[k]
                                   /\ Sum(v) = g[l]
    BY SumIs
  <1> DEFINE bad == {k \in 0..l : g[k] # f[IF k <= m THEN k ELSE m]}
  <1>3. bad = {}
    <2> SUFFICES ASSUME bad # {} PROVE FALSE
      OBVIOUS
    <2>1. PICK k \in bad : \A h \in bad : k <= h
      <3>1. bad \in SUBSET Nat
        OBVIOUS
      <3> HIDE DEF bad
      <3> QED
        BY <3>1, HasLeast
    <2>2. k # 0 /\ k \in 1..l /\ k - 1 \in 0..l /\ ~ (k <= k - 1)
      BY <1>0, <1>1, <1>2, <2>1
    <2>3. g[k - 1] = f[IF k - 1 <= m THEN k - 1 ELSE m] /\ g[k] = g[k - 1] + v[k]
      BY <1>2, <2>1, <2>2
    <2>4. CASE k <= m
      <3>1. k - 1 <= m /\ k \in 1..m /\ v[k] = u[k]
        BY <1>p, <2>2, <2>4
      <3>2. f[k] = f[k - 1] + u[k]
        BY <1>1, <3>1
      <3> QED
        BY <2>1, <2>3, <2>4, <3>1, <3>2
    <2>5. CASE ~ (k <= m)
      <3>1. v[k] = 0 /\ (k - 1 <= m => k - 1 = m)
        BY <1>0, <1>p, <2>2, <2>5
      <3>2. g[k - 1] = f[m] /\ f[m] \in Nat
        <4>1. (IF k - 1 <= m THEN k - 1 ELSE m) = m /\ m \in 0..m
          BY <1>0, <3>1
        <4> QED
          BY <2>3, <4>1
      <3>3. g[k] = f[m]
        BY <2>3, <3>1, <3>2
      <3> QED
        BY <2>1, <2>5, <3>3
    <2> QED
      BY <2>4, <2>5
  <1>4. g[l] = f[m]
    <2>1. l \in 0..l /\ (IF l <= m THEN l ELSE m) = m
      BY <1>0
    <2>2. l \notin bad
      BY <1>3
    <2> QED
      BY <2>1, <2>2
  <1> QED
    BY <1>0, <1>1, <1>2, <1>4

(* What the loop of a search keeps after each block.                        *)
SearchStep(sums, n, sum, signed, r, i) ==
    LET d == sums[i] - sum IN
    IF Abs(d) < r.sumdiff /\ i - 1 # n
    THEN [pos |-> i - 1, sumdiff |-> IF signed THEN d ELSE Abs(d)]
    ELSE r

SearchLoop(f, l, sums, n, sum, signed) ==
    /\ f[0] = [pos |-> 0, sumdiff |-> sum]
    /\ \A i \in 1..l : f[i] = SearchStep(sums, n, sum, signed, f[i - 1], i)
    /\ Search(sums, n, sum, signed) = f[l].pos

(* There is a function of what it keeps.                                    *)
LEMMA SearchIs ==
    ASSUME NEW l \in Nat, NEW sums \in [1..l -> Nat], NEW n, NEW sum,
           NEW signed \in BOOLEAN
    PROVE  \E f : SearchLoop(f, l, sums, n, sum, signed)
  <1> DEFINE first == [pos |-> 0, sumdiff |-> sum]
             next(r, i) == SearchStep(sums, n, sum, signed, r, i)
             F(f, m) == [i \in 0..m |-> IF i = 0 THEN first ELSE next(f[i - 1], i)]
             none == {m \in Nat : m <= l /\ ~ \E f : f = F(f, m)}
  <1> HIDE DEF first, next
  <1>1. \E f : f = F(f, l)
    <2>0. SUFFICES ASSUME none # {} PROVE FALSE
      <3>1. l \in Nat /\ l <= l
        OBVIOUS
      <3> HIDE DEF F
      <3> QED
        BY <3>1
    <2>1. PICK m \in none : \A k \in none : m <= k
      <3>1. none \in SUBSET Nat
        OBVIOUS
      <3> HIDE DEF none
      <3> QED
        BY <2>0, <3>1, HasLeast
    <2>2. m # 0
      <3>1. SUFFICES ASSUME m = 0 PROVE FALSE
        OBVIOUS
      <3>2. PICK f : f = [k \in 0..0 |-> first]
        OBVIOUS
      <3>3. f = F(f, 0)
        BY <3>2
      <3> QED
        BY <2>1, <3>1, <3>3
    <2>3. m - 1 \in Nat /\ m - 1 <= l /\ ~ (m <= m - 1)
      BY <2>1, <2>2
    <2>4. PICK f : f = F(f, m - 1)
      BY <2>1, <2>3
    <2>5. \A k \in 0..(m - 1) : f[k] = IF k = 0 THEN first ELSE next(f[k - 1], k)
      BY <2>4
    <2>6. PICK g : g = [k \in 0..m |-> IF k < m THEN f[k] ELSE next(f[m - 1], m)]
      OBVIOUS
    <2>7. ASSUME NEW k \in 0..m
          PROVE  (IF k < m THEN f[k] ELSE next(f[m - 1], m))
                     = (IF k = 0 THEN first ELSE next(g[k - 1], k))
      <3>1. CASE k = 0
        <4>1. 0 < m /\ 0 \in 0..(m - 1)
          BY <2>1, <2>2
        <4>2. f[0] = first
          BY <2>5, <4>1
        <4> QED
          BY <3>1, <4>1, <4>2
      <3>2. CASE k # 0
        <4>1. k - 1 \in 0..m /\ k - 1 < m /\ (k < m => k \in 0..(m - 1)) /\ (~ (k < m) => k = m)
          BY <3>2
        <4>2. g[k - 1] = f[k - 1]
          BY <2>6, <4>1
        <4> QED
          BY <2>5, <3>2, <4>1, <4>2
      <3> QED
        BY <3>1, <3>2
    <2>8. g = F(g, m)
      BY <2>6, <2>7
    <2> QED
      BY <2>1, <2>8
  <1>2. PICK f : f = (CHOOSE g : g = F(g, l)) /\ f = F(f, l)
    BY <1>1
  <1>3. \A k \in 0..l : f[k] = IF k = 0 THEN first ELSE next(f[k - 1], k)
    BY <1>2
  <1>4. f[0] = first /\ \A k \in 1..l : f[k] = next(f[k - 1], k)
    BY <1>3
  <1>5. Search(sums, n, sum, signed) = f[l].pos
    <2>1. Len(sums) = l
      OBVIOUS
    <2> QED
      BY <1>2, <2>1 DEF Search, SearchStep, first, next
  <1>6. SearchLoop(f, l, sums, n, sum, signed)
    BY <1>4, <1>5 DEF SearchLoop, first, next
  <1> QED
    BY <1>6

(* The first of the places in S with the least distance.                    *)
IsFirst(dist, S, p) ==
    p \in S /\ \A k \in S : dist[p] < dist[k] \/ (dist[p] = dist[k] /\ p <= k)

(* A place where a smaller sum is taken.                                    *)
Turns(sums, sum, dist, near, i) ==
    i \in near /\ sums[i + 1] < sum /\ IsFirst(dist, {k \in near : k <= i}, i)

(* The loop has found the first of the nearest so far.                      *)
FoundFirst(sum, dist, near, r, i) ==
    \/ {k \in near : k < i} = {} /\ r = [pos |-> 0, sumdiff |-> sum]
    \/ IsFirst(dist, {k \in near : k < i}, r.pos) /\ r.sumdiff = dist[r.pos]

(* Distances to block n, and the blocks that are near.                      *)
Distances(l, sums, n, dist, near) ==
    /\ dist \in [0..(l - 1) -> Nat]
    /\ \A i \in 0..(l - 1) : dist[i] = Abs(sums[i + 1] - sums[n + 1])
    /\ near = {i \in 0..(l - 1) : i # n /\ dist[i] < sums[n + 1]}

(* A round leaves the first of the nearest, or takes a smaller sum.         *)
Goes(sums, sum, dist, near, signed, h, t) ==
    \/ /\ FoundFirst(sum, dist, near, t, h + 1)
       /\ signed => ~ Turns(sums, sum, dist, near, h)
    \/ /\ signed /\ Turns(sums, sum, dist, near, h)
       /\ t.pos = h /\ t.sumdiff \in Int /\ t.sumdiff < 0

RoundOf(l, sums, n, dist, near, signed, h, r, t) ==
    /\ Distances(l, sums, n, dist, near)
    /\ FoundFirst(sums[n + 1], dist, near, r, h)
    /\ t = SearchStep(sums, n, sums[n + 1], signed, r, h + 1)

(* One round of the loop.                                                   *)
LEMMA SearchRound ==
    ASSUME NEW l \in Nat, NEW sums \in [1..l -> Nat], NEW n \in 0..(l - 1), NEW dist, NEW near,
           NEW signed \in BOOLEAN, NEW h \in 0..(l - 1), NEW r, NEW t,
           RoundOf(l, sums, n, dist, near, signed, h, r, t)
    PROVE  Goes(sums, sums[n + 1], dist, near, signed, h, t)
  <1>0. PICK sum \in Nat : sum = sums[n + 1]
    <2>1. n + 1 \in 1..l
      OBVIOUS
    <2> QED
      BY <2>1
  <1>1. PICK d \in Int : d = sums[h + 1] - sum /\ h \in Nat
    BY <1>0
  <1>2. /\ dist \in [0..(l - 1) -> Nat] /\ dist[h] = Abs(d)
        /\ near = {i \in 0..(l - 1) : i # n /\ dist[i] < sum}
    BY <1>0, <1>1 DEF RoundOf, Distances
  <1>3. PICK a \in Nat : a = Abs(d) /\ a = dist[h]
    BY <1>1, <1>2 DEF Abs
  <1>4. t = IF a < r.sumdiff /\ h # n
            THEN [pos |-> h, sumdiff |-> IF signed THEN d ELSE a] ELSE r
    BY <1>0, <1>1, <1>3 DEF RoundOf, SearchStep
  <1>5. near \subseteq Nat /\ \A k \in near : dist[k] \in Nat /\ dist[k] < sum
    BY <1>2
  <1>6. \A k \in near : (k < h + 1 <=> k < h \/ k = h) /\ (k <= h <=> k < h \/ k = h)
    BY <1>1, <1>5
  <1>f. FoundFirst(sum, dist, near, r, h)
    BY <1>0 DEF RoundOf
  <1>7. CASE a < r.sumdiff /\ h # n
    <2>1. r.sumdiff <= sum /\ r.sumdiff \in Nat /\ \A k \in near : k < h => a < dist[k]
      <3>1. CASE {k \in near : k < h} = {} /\ r = [pos |-> 0, sumdiff |-> sum]
        BY <3>1
      <3>2. CASE IsFirst(dist, {k \in near : k < h}, r.pos) /\ r.sumdiff = dist[r.pos]
        <4>1. PICK p \in near : p = r.pos
          BY <3>2 DEF IsFirst
        <4>2. PICK x \in Nat : x = dist[p] /\ x = r.sumdiff /\ x < sum
          BY <1>5, <3>2, <4>1
        <4>3. ASSUME NEW k \in near, k < h PROVE x <= dist[k] /\ dist[k] \in Nat
          <5>1. dist[p] < dist[k] \/ dist[p] = dist[k]
            BY <3>2, <4>1, <4>3 DEF IsFirst
          <5> QED
            BY <1>5, <4>2, <5>1
        <4> QED
          BY <1>7, <4>2, <4>3
      <3> QED
        BY <1>f, <3>1, <3>2 DEF FoundFirst
    <2>2. h \in near
      BY <1>2, <1>3, <1>7, <2>1
    <2>a. ASSUME NEW k \in near, k < h \/ k = h
          PROVE  dist[h] < dist[k] \/ (dist[h] = dist[k] /\ h <= k)
      BY <1>1, <1>3, <2>1, <2>a
    <2>3. IsFirst(dist, {k \in near : k < h + 1}, h)
      BY <1>6, <2>2, <2>a DEF IsFirst
    <2>4. IsFirst(dist, {k \in near : k <= h}, h)
      BY <1>6, <2>2, <2>a DEF IsFirst
    <2>5. t.pos = h /\ t.sumdiff = IF signed THEN d ELSE a
      BY <1>4, <1>7
    <2>6. CASE signed /\ d < 0
      <3>1. sums[h + 1] < sum
        BY <1>0, <1>1, <2>6
      <3>2. Turns(sums, sum, dist, near, h)
        BY <2>2, <2>4, <3>1 DEF Turns
      <3> QED
        BY <1>0, <1>1, <2>5, <2>6, <3>2 DEF Goes
    <2>7. CASE ~ (signed /\ d < 0)
      <3>1. t.sumdiff = dist[h]
        BY <1>1, <1>3, <2>5, <2>7 DEF Abs
      <3>2. FoundFirst(sum, dist, near, t, h + 1)
        BY <2>3, <2>5, <3>1 DEF FoundFirst
      <3>3. signed => ~ (sums[h + 1] < sum)
        BY <1>0, <1>1, <2>7
      <3> QED
        BY <1>0, <3>2, <3>3 DEF Goes, Turns
    <2> QED
      BY <2>6, <2>7
  <1>8. CASE ~ (a < r.sumdiff /\ h # n)
    <2>1. t = r
      BY <1>4, <1>8
    <2>2. CASE h \notin near
      <3>1. {k \in near : k < h + 1} = {k \in near : k < h}
        BY <1>6, <2>2
      <3>2. FoundFirst(sum, dist, near, t, h + 1)
        BY <1>f, <2>1, <3>1 DEF FoundFirst
      <3> QED
        BY <1>0, <2>2, <3>2 DEF Goes, Turns
    <2>3. CASE h \in near
      <3>1. h # n /\ a < sum /\ ~ (a < r.sumdiff)
        BY <1>2, <1>3, <1>8, <2>3
      <3>2. IsFirst(dist, {k \in near : k < h}, r.pos) /\ r.sumdiff = dist[r.pos]
        BY <1>f, <3>1 DEF FoundFirst
      <3>3. PICK p \in near : p = r.pos /\ p < h /\ dist[p] <= a
        <4>1. PICK p \in near : p = r.pos /\ p < h
          BY <3>2 DEF IsFirst
        <4>2. dist[p] \in Nat /\ ~ (a < dist[p])
          BY <1>5, <3>1, <3>2, <4>1
        <4> QED
          BY <4>1, <4>2
      <3>4. IsFirst(dist, {k \in near : k < h + 1}, r.pos)
        <4>1. ASSUME NEW k \in near, k < h + 1
              PROVE  dist[p] < dist[k] \/ (dist[p] = dist[k] /\ p <= k)
          <5>1. CASE k < h
            BY <3>2, <3>3, <5>1 DEF IsFirst
          <5>2. CASE k = h
            <6>1. dist[p] \in Nat /\ dist[k] = a /\ dist[p] <= a
              BY <1>3, <1>5, <3>3, <5>2
            <6>2. p <= k
              BY <1>1, <1>5, <3>3, <5>2
            <6> QED
              BY <6>1, <6>2
          <5> QED
            BY <1>6, <4>1, <5>1, <5>2
        <4>2. p \in {k \in near : k < h + 1}
          BY <1>6, <3>3
        <4> QED
          BY <3>3, <4>1, <4>2 DEF IsFirst
      <3>5. FoundFirst(sum, dist, near, t, h + 1)
        BY <2>1, <3>2, <3>4 DEF FoundFirst
      <3>6. ~ IsFirst(dist, {k \in near : k <= h}, h)
        <4>1. p \in {k \in near : k <= h} /\ ~ (h <= p)
          BY <1>1, <1>5, <3>3
        <4>2. ~ (dist[h] < dist[p])
          BY <1>3, <1>5, <3>3
        <4> QED
          BY <4>1, <4>2 DEF IsFirst
      <3> QED
        BY <1>0, <3>5, <3>6 DEF Goes, Turns
    <2> QED
      BY <2>2, <2>3
  <1> QED
    BY <1>7, <1>8

(* The places where a smaller sum is taken.                                 *)
TurnsOf(sums, n, dist, near) == {i \in near : Turns(sums, sums[n + 1], dist, near, i)}

(* What a search finds: the first place where a smaller sum is taken, if    *)
(* its differences have signs and there is one, or else the first of the    *)
(* nearest, if any is near.                                                 *)
LEMMA SearchFinds ==
    ASSUME NEW l \in Nat, NEW sums \in [1..l -> Nat], NEW n \in 0..(l - 1), NEW dist, NEW near,
           Distances(l, sums, n, dist, near), NEW signed \in BOOLEAN,
           NEW turns, turns = TurnsOf(sums, n, dist, near),
           NEW p, p = Search(sums, n, sums[n + 1], signed)
    PROVE  IF signed /\ turns # {} THEN p \in turns /\ \A k \in turns : p <= k
           ELSE IF near = {} THEN p = 0 ELSE IsFirst(dist, near, p)
  <1>1. PICK sum \in Nat : sum = sums[n + 1]
    <2>1. n + 1 \in 1..l
      OBVIOUS
    <2> QED
      BY <2>1
  <1>t. turns = {i \in near : Turns(sums, sum, dist, near, i)}
    BY <1>1 DEF TurnsOf
  <1>p. p = Search(sums, n, sum, signed)
    BY <1>1
  <1>a. PICK f : SearchLoop(f, l, sums, n, sum, signed)
    BY SearchIs
  <1>2. /\ f[0] = [pos |-> 0, sumdiff |-> sum]
        /\ \A i \in 1..l : f[i] = SearchStep(sums, n, sum, signed, f[i - 1], i)
        /\ p = f[l].pos
    BY <1>p, <1>a DEF SearchLoop
  <1> DEFINE Before(i)  == /\ FoundFirst(sum, dist, near, f[i], i)
                           /\ signed => \A k \in turns : ~ (k < i)
             After(i)   == /\ signed /\ f[i].sumdiff \in Int /\ f[i].sumdiff < 0
                           /\ f[i].pos \in turns /\ \A k \in turns : f[i].pos <= k
             bad        == {i \in 0..l : ~ (Before(i) \/ After(i))}
  <1>3. near \subseteq Nat /\ turns \subseteq near /\ \A k \in near : k < l
    BY <1>t DEF Distances
  <1>4. Before(0)
    <2>1. \A k \in near : ~ (k < 0)
      BY <1>3
    <2>2. {k \in near : k < 0} = {}
      BY <2>1
    <2> QED
      BY <1>2, <1>3, <2>1, <2>2 DEF FoundFirst
  <1>5. ASSUME NEW h \in 0..(l - 1), Before(h) \/ After(h) PROVE Before(h + 1) \/ After(h + 1)
    <2>1. h + 1 \in 1..l /\ (h + 1) - 1 = h
      OBVIOUS
    <2>2. f[h + 1] = SearchStep(sums, n, sum, signed, f[h], h + 1)
      BY <1>2, <2>1
    <2>3. CASE Before(h)
      <3>1. PICK r, t : r = f[h] /\ t = f[h + 1]
        OBVIOUS
      <3>2. RoundOf(l, sums, n, dist, near, signed, h, r, t)
        BY <1>1, <2>2, <2>3, <3>1 DEF RoundOf
      <3>3. Goes(sums, sum, dist, near, signed, h, t)
        BY <1>1, <3>2, SearchRound
      <3>4. \A k \in turns : (k < h + 1 <=> k < h \/ k = h) /\ (~ (k < h) => h <= k)
        BY <1>3
      <3>5. CASE /\ FoundFirst(sum, dist, near, t, h + 1)
                 /\ signed => ~ Turns(sums, sum, dist, near, h)
        <4>1. signed => h \notin turns
          BY <1>t, <3>5
        <4>2. signed => \A k \in turns : ~ (k < h + 1)
          BY <2>3, <3>4, <4>1
        <4> QED
          BY <3>1, <3>5, <4>2
      <3>6. CASE /\ signed /\ Turns(sums, sum, dist, near, h)
                 /\ t.pos = h /\ t.sumdiff \in Int /\ t.sumdiff < 0
        <4>1. h \in turns
          BY <1>t, <3>6 DEF Turns
        <4>2. \A k \in turns : h <= k
          BY <2>3, <3>4, <3>6
        <4> QED
          BY <3>1, <3>6, <4>1, <4>2
      <3> QED
        BY <1>1, <3>3, <3>5, <3>6 DEF Goes
    <2>4. CASE After(h)
      <3>1. PICK d \in Int : d = sums[h + 1] - sum
        BY <1>1
      <3>2. PICK i \in Nat : i \in turns /\ i = f[h].pos
        BY <1>3, <2>4
      <3>3. ~ (Abs(d) < f[h].sumdiff)
        <4>1. PICK x \in Int : x = f[h].sumdiff /\ x < 0
          BY <2>4
        <4>2. ~ (Abs(d) < x)
          BY <4>1 DEF Abs
        <4> QED
          BY <4>1, <4>2
      <3>4. f[h + 1] = f[h]
        BY <2>2, <3>1, <3>3 DEF SearchStep
      <3> QED
        BY <2>4, <3>4
    <2> QED
      BY <1>5, <2>3, <2>4
  <1> HIDE DEF Before, After
  <1>6. bad = {}
    <2> SUFFICES ASSUME bad # {} PROVE FALSE
      OBVIOUS
    <2>1. PICK i \in bad : \A h \in bad : i <= h
      <3>1. bad \in SUBSET Nat
        OBVIOUS
      <3> HIDE DEF bad
      <3> QED
        BY <3>1, HasLeast
    <2>2. i # 0
      BY <1>4, <2>1
    <2>3. i - 1 \in 0..(l - 1) /\ i - 1 \in 0..l /\ (i - 1) + 1 = i /\ ~ (i <= i - 1)
      BY <2>1, <2>2
    <2>4. Before(i - 1) \/ After(i - 1)
      BY <2>1, <2>3
    <2>5. Before((i - 1) + 1) \/ After((i - 1) + 1)
      BY <1>5, <2>3, <2>4
    <2> QED
      BY <2>1, <2>3, <2>5
  <1>7. Before(l) \/ After(l)
    BY <1>6
  <1>8. CASE After(l)
    BY <1>2, <1>8 DEF After
  <1>9. CASE Before(l)
    <2>1. {k \in near : k < l} = near
      BY <1>3
    <2>2. signed => turns = {}
      <3>1. \A k \in turns : k < l
        BY <1>3
      <3> QED
        BY <1>9, <3>1 DEF Before
    <2>3. \/ near = {} /\ p = 0
          \/ IsFirst(dist, near, p)
      <3>1. PICK r : r = f[l]
        OBVIOUS
      <3>2. FoundFirst(sum, dist, near, r, l) /\ p = r.pos
        BY <1>2, <1>9, <3>1 DEF Before
      <3>3. CASE {k \in near : k < l} = {} /\ r = [pos |-> 0, sumdiff |-> sum]
        BY <2>1, <3>2, <3>3
      <3> QED
        BY <2>1, <3>2, <3>3, Zenon DEF FoundFirst
    <2>4. IsFirst(dist, near, p) => near # {}
      BY DEF IsFirst
    <2> QED
      BY <2>2, <2>3, <2>4
  <1> QED
    BY <1>7, <1>8, <1>9

(* A set of places has a first of the nearest, and only one.                *)
LEMMA FirstExists ==
    ASSUME NEW l \in Nat, NEW dist \in [0..(l - 1) -> Nat], NEW S \in SUBSET (0..(l - 1)), S # {}
    PROVE  \E p \in S : IsFirst(dist, S, p)
  <1> DEFINE values == {dist[k] : k \in S}
  <1>1. PICK m \in values : \A x \in values : m <= x
    <2>1. values \in SUBSET Nat /\ values # {}
      OBVIOUS
    <2> HIDE DEF values
    <2> QED
      BY <2>1, HasLeast
  <1> DEFINE least == {k \in S : dist[k] = m}
  <1>2. PICK p \in least : \A k \in least : p <= k
    <2>1. PICK k \in S : dist[k] = m
      OBVIOUS
    <2>2. \A h \in S : h \in Nat
      OBVIOUS
    <2>3. least \in SUBSET Nat /\ least # {}
      BY <2>1, <2>2
    <2> HIDE DEF least
    <2> QED
      BY <2>3, HasLeast
  <1>3. ASSUME NEW k \in S PROVE dist[p] < dist[k] \/ (dist[p] = dist[k] /\ p <= k)
    <2>1. dist[p] = m /\ dist[p] \in Nat /\ dist[k] \in Nat /\ dist[p] <= dist[k]
      BY <1>1
    <2>2. dist[k] = m => p <= k
      BY <1>2
    <2> QED
      BY <2>1, <2>2
  <1> QED
    BY <1>2, <1>3 DEF IsFirst

LEMMA FirstIsOne ==
    ASSUME NEW l \in Nat, NEW dist \in [0..(l - 1) -> Nat], NEW S \in SUBSET (0..(l - 1)),
           NEW p, NEW q, IsFirst(dist, S, p), IsFirst(dist, S, q)
    PROVE  p = q
  <1>1. p \in S /\ q \in S
    BY DEF IsFirst
  <1>2. p \in Nat /\ q \in Nat /\ dist[p] \in Nat /\ dist[q] \in Nat
    BY <1>1
  <1>3. /\ dist[p] < dist[q] \/ (dist[p] = dist[q] /\ p <= q)
        /\ dist[q] < dist[p] \/ (dist[q] = dist[p] /\ q <= p)
    BY <1>1 DEF IsFirst
  <1> QED
    BY <1>2, <1>3

(* The sums are those of the strings of the list.                           *)
SumsOfList(sums, l) == \A k \in 1..l : sums[k] = Sum(A_list[k])

(* The blocks that the search for block n can take: those nearer than the   *)
(* distance it starts with.                                                 *)
Candidates(n) ==
    {i \in 0..(Len(A_list) - 1) : i # n /\ Distance(i, n) < Sum(A_list[n + 1])}

(* Those of them with a smaller sum that are nearer than all before them.   *)
Smaller(n) ==
    {i \in Candidates(n) : /\ Sum(A_list[i + 1]) < Sum(A_list[n + 1])
                           /\ FirstNearest({k \in Candidates(n) : k <= i}, n) = i}

(* What the list says of distances, in terms of these sums.                 *)
LEMMA ListDistances ==
    ASSUME NEW l \in Nat, NEW sums \in [1..l -> Nat], Len(A_list) = l, SumsOfList(sums, l),
           NEW n \in 0..(l - 1)
    PROVE  \E dist : /\ Distances(l, sums, n, dist, Candidates(n))
                     /\ \A i \in 0..(l - 1) : dist[i] = Distance(i, n)
  <1>s. \A k \in 1..l : sums[k] = Sum(A_list[k])
    BY DEF SumsOfList
  <1>1. PICK dist : dist = [i \in 0..(l - 1) |-> Abs(sums[i + 1] - sums[n + 1])]
    OBVIOUS
  <1>2. \A i \in 0..(l - 1) : i + 1 \in 1..l /\ sums[i + 1] \in Nat
    OBVIOUS
  <1>3. \A i \in 0..(l - 1) : dist[i] = Abs(sums[i + 1] - sums[n + 1]) /\ dist[i] = Distance(i, n)
    BY <1>s, <1>1, <1>2 DEF Distance
  <1>4. dist \in [0..(l - 1) -> Nat]
    <2>1. ASSUME NEW i \in 0..(l - 1) PROVE Abs(sums[i + 1] - sums[n + 1]) \in Nat
      <3>1. PICK a \in Nat, b \in Nat : a = sums[i + 1] /\ b = sums[n + 1]
        BY <1>2
      <3>2. Abs(a - b) \in Nat
        BY DEF Abs
      <3> QED
        BY <3>1, <3>2
    <2> QED
      BY <1>1, <2>1
  <1>5. Candidates(n) = {i \in 0..(l - 1) : i # n /\ dist[i] < sums[n + 1]}
    <2>1. sums[n + 1] = Sum(A_list[n + 1])
      BY <1>s, <1>2
    <2> QED
      BY <1>3, <2>1 DEF Candidates
  <1>6. Distances(l, sums, n, dist, Candidates(n))
    BY <1>3, <1>4, <1>5 DEF Distances
  <1> QED
    BY <1>3, <1>6

(* The first of the nearest of a set is the one that the definition takes.  *)
LEMMA FirstIs ==
    ASSUME NEW l \in Nat, NEW dist \in [0..(l - 1) -> Nat], NEW n \in 0..(l - 1),
           \A i \in 0..(l - 1) : dist[i] = Distance(i, n),
           NEW S \in SUBSET (0..(l - 1)), NEW q, IsFirst(dist, S, q)
    PROVE  FirstNearest(S, n) = q
  <1> DEFINE first(i) == \A k \in S : \/ Distance(i, n) < Distance(k, n)
                                      \/ Distance(i, n) = Distance(k, n) /\ i <= k
  <1>1. ASSUME NEW i \in S PROVE first(i) <=> IsFirst(dist, S, i)
    BY DEF IsFirst
  <1>2. q \in S /\ first(q)
    BY <1>1 DEF IsFirst
  <1>3. FirstNearest(S, n) = CHOOSE i \in S : first(i)
    BY DEF FirstNearest
  <1> HIDE DEF first
  <1>4. FirstNearest(S, n) \in S /\ first(FirstNearest(S, n))
    BY <1>2, <1>3, Zenon
  <1>5. PICK r : r = FirstNearest(S, n) /\ IsFirst(dist, S, r)
    BY <1>1, <1>4
  <1> QED
    BY <1>5, FirstIsOne

(* What a search for block n is to find.                                    *)
Nearest(n) == IF Candidates(n) = {} THEN 0 ELSE FirstNearest(Candidates(n), n)

(* So a search over these sums finds it.                                    *)
LEMMA SearchOfList ==
    ASSUME NEW l \in Nat, NEW sums \in [1..l -> Nat], Len(A_list) = l, SumsOfList(sums, l),
           NEW n \in 0..(l - 1), NEW signed \in BOOLEAN,
           NEW p, p = Search(sums, n, sums[n + 1], signed)
    PROVE  p = IF signed /\ Smaller(n) # {} THEN Min(Smaller(n)) ELSE Nearest(n)
  <1>s. \A k \in 1..l : sums[k] = Sum(A_list[k])
    BY DEF SumsOfList
  <1>1. PICK dist : /\ Distances(l, sums, n, dist, Candidates(n))
                    /\ \A i \in 0..(l - 1) : dist[i] = Distance(i, n)
    BY ListDistances
  <1>2. dist \in [0..(l - 1) -> Nat] /\ Candidates(n) \in SUBSET (0..(l - 1))
    BY <1>1 DEF Distances
  <1>3. \A S \in SUBSET (0..(l - 1)) : \A q : IsFirst(dist, S, q) => FirstNearest(S, n) = q
    BY <1>1, <1>2, FirstIs
  <1>4. ASSUME NEW S \in SUBSET (0..(l - 1)), S # {}
        PROVE  IsFirst(dist, S, FirstNearest(S, n))
    BY <1>2, <1>4, <1>3, FirstExists
  <1>5. PICK turns : turns = TurnsOf(sums, n, dist, Candidates(n))
    OBVIOUS
  <1>6. Smaller(n) = turns
    <2>1. ASSUME NEW i \in Candidates(n)
          PROVE  Turns(sums, sums[n + 1], dist, Candidates(n), i) <=>
                     /\ Sum(A_list[i + 1]) < Sum(A_list[n + 1])
                     /\ FirstNearest({k \in Candidates(n) : k <= i}, n) = i
      <3>1. PICK S : S = {k \in Candidates(n) : k <= i}
        OBVIOUS
      <3>2. S \in SUBSET (0..(l - 1)) /\ i \in S
        BY <1>2, <3>1
      <3>3. IsFirst(dist, S, i) <=> FirstNearest(S, n) = i
        BY <1>4, <1>3, <3>2
      <3>4. sums[i + 1] = Sum(A_list[i + 1]) /\ sums[n + 1] = Sum(A_list[n + 1])
        BY <1>s, <1>2
      <3> QED
        BY <3>1, <3>3, <3>4 DEF Turns
    <2> QED
      BY <1>5, <2>1 DEF Smaller, TurnsOf
  <1>7. IF signed /\ turns # {} THEN p \in turns /\ \A k \in turns : p <= k
        ELSE IF Candidates(n) = {} THEN p = 0 ELSE IsFirst(dist, Candidates(n), p)
    BY <1>1, <1>5, SearchFinds
  <1>8. CASE signed /\ Smaller(n) # {}
    <2>1. turns \in SUBSET Nat /\ turns # {}
      BY <1>2, <1>5, <1>6, <1>8 DEF TurnsOf
    <2>2. PICK m : m = Min(turns) /\ m \in turns /\ \A k \in turns : m <= k
      BY <2>1, MinIsLeast
    <2>3. p \in turns /\ \A k \in turns : p <= k
      BY <1>6, <1>7, <1>8
    <2>4. p = m
      BY <2>1, <2>2, <2>3
    <2> QED
      BY <1>6, <1>8, <2>2, <2>4
  <1>9. CASE ~ (signed /\ Smaller(n) # {})
    <2>1. IF Candidates(n) = {} THEN p = 0 ELSE IsFirst(dist, Candidates(n), p)
      BY <1>6, <1>7, <1>9
    <2>2. p = Nearest(n)
      BY <1>2, <1>3, <2>1 DEF Nearest
    <2> QED
      BY <1>9, <2>2
  <1> QED
    BY <1>8, <1>9

(* The sum of a string is a natural number.                                 *)
LEMMA SumOfString ==
    ASSUME NEW m \in Nat, NEW s \in Strings(m)
    PROVE  Sum(s) \in Nat
  <1>1. PICK k \in Nat : k = Len(s) /\ s \in [1..k -> Nat]
    <2>1. Len(s) \in Nat /\ s \in [1..Len(s) -> Nat]
      BY StringsAre
    <2> QED
      BY <2>1
  <1>2. k \in 0..k
    OBVIOUS
  <1>3. Padded(s, k, s, k)
    BY DEF Padded
  <1> QED
    BY <1>1, <1>2, <1>3, SumPadded

(* The sum of a whole block is that of its string: the rest is zero.        *)
LEMMA WholeBlock ==
    ASSUME A_StaticInv, NEW i \in 0..(NoBlocks - 1), A_Kept(i)
    PROVE  Sum(SubSeq(A_static, i * SoBlocks + 1, (i + 1) * SoBlocks)) = Sum(A_list[i + 1])
  <1>1. PICK b \in Nat \ {0} : b = SoBlocks /\ b - 1 \in Nat
    BY Sizes
  <1>2. PICK a \in Nat : a = i * SoBlocks /\ (i + 1) * SoBlocks = a + b
    <2>1. i \in Nat /\ i * b \in Nat /\ (i + 1) * b = i * b + b
      BY <1>1
    <2> QED
      BY <1>1, <2>1
  <1>3. PICK z \in Nat : z = NoBlocks * SoBlocks /\ a + b <= z
    <2>1. SoBlocks \in 1..SoBlocks
      BY Sizes
    <2>2. a + SoBlocks \in 1..(NoBlocks * SoBlocks)
      BY <1>2, <2>1, BlockPlace
    <2> QED
      BY <1>1, <2>2, Sizes
  <1>4. A_static \in [1..z -> Nat] /\ Len(A_static) = z /\ A_static \in Seq(Nat)
    BY <1>3 DEF A_StaticInv
  <1>5. PICK w : w = SubSeq(A_static, a + 1, a + b)
    OBVIOUS
  <1>6. w \in [1..b -> Nat] /\ \A c \in 1..b : w[c] = A_static[a + c]
    <2>1. w = [c \in 1..b |-> A_static[a + c]]
      <3>1. \A c \in 1..b : (a + 1) + c - 1 = a + c
        OBVIOUS
      <3>2. (a + b) - (a + 1) + 1 = b /\ a + 1 \in 1..z /\ a + b \in 1..z
        BY <1>1, <1>3
      <3>3. SubSeq(A_static, a + 1, a + b) = [c \in 1..b |-> A_static[(a + 1) + c - 1]]
        BY <1>4, <3>2
      <3> QED
        BY <1>5, <3>1, <3>3
    <2>2. \A c \in 1..b : a + c \in 1..z
      BY <1>3
    <2> QED
      BY <1>4, <2>1, <2>2
  <1>7. PICK s \in Strings(b - 1) : s = A_list[i + 1]
    BY <1>1 DEF A_Kept
  <1>8. PICK m \in 0..b : m = Len(s) /\ s \in [1..m -> Nat]
    <2>1. Len(s) \in 0..(b - 1) /\ s \in [1..Len(s) -> Nat \ {0}]
      BY <1>1, StringsAre
    <2>2. Len(s) \in 0..b
      BY <1>1, <2>1
    <2> QED
      BY <2>1, <2>2
  <1>9. Padded(w, b, s, m)
    <2> SUFFICES ASSUME NEW c \in 1..b PROVE w[c] = IF c <= m THEN s[c] ELSE 0
      BY DEF Padded
    <2>1. A_static[a + c] = Filled(s, SoBlocks)[c]
      BY <1>1, <1>2, <1>7 DEF A_Kept
    <2> QED
      BY <1>1, <1>6, <1>8, <2>1 DEF Filled
  <1>10. Sum(w) = Sum(s)
    <2>1. b \in Nat /\ w \in [1..b -> Nat]
      BY <1>1, <1>6
    <2>2. m \in 0..b /\ s \in [1..m -> Nat]
      BY <1>8
    <2> QED
      BY <1>9, <2>1, <2>2, SumPadded
  <1> QED
    BY <1>1, <1>2, <1>5, <1>7, <1>10

(* The first of the nearest that a search can take is the first of the      *)
(* nearest of all others: one that it cannot take is farther.               *)
LEMMA NearestOfOthers ==
    ASSUME NEW l \in Nat, NEW sums \in [1..l -> Nat], Len(A_list) = l, SumsOfList(sums, l),
           NEW n \in 0..(l - 1), HasNear(n)
    PROVE  Nearest(n) = FirstNearest(Others(n), n)
  <1>1. PICK dist : /\ Distances(l, sums, n, dist, Candidates(n))
                    /\ \A i \in 0..(l - 1) : dist[i] = Distance(i, n)
    BY ListDistances
  <1>2. dist \in [0..(l - 1) -> Nat] /\ Candidates(n) \in SUBSET (0..(l - 1))
    BY <1>1 DEF Distances
  <1>3. PICK sum \in Nat : sum = Sum(A_list[n + 1])
    <2>1. n + 1 \in 1..l
      OBVIOUS
    <2> QED
      BY <2>1 DEF SumsOfList
  <1>4. PICK C \in SUBSET (0..(l - 1)), O \in SUBSET (0..(l - 1)) :
            /\ C = Candidates(n) /\ C = {i \in O : dist[i] < sum}
            /\ O = Others(n)
    <2>1. Others(n) = (0..(l - 1)) \ {n}
      BY DEF Others
    <2>2. Candidates(n) = {i \in Others(n) : dist[i] < sum}
      BY <1>1, <1>3, <2>1 DEF Candidates
    <2> QED
      BY <1>2, <2>1, <2>2
  <1>5. PICK h \in C : TRUE
    <2>1. PICK i \in Others(n) : Distance(i, n) < Sum(A_list[n + 1])
      BY DEF HasNear
    <2>2. i \in 0..(l - 1) /\ dist[i] < sum
      BY <1>1, <1>3, <1>4, <2>1
    <2> QED
      BY <1>4, <2>1, <2>2
  <1>6. PICK p \in C : IsFirst(dist, C, p)
    BY <1>2, <1>5, FirstExists
  <1>7. IsFirst(dist, O, p)
    <2>1. p \in O /\ dist[p] < sum /\ dist[p] \in Nat
      BY <1>2, <1>4
    <2>2. ASSUME NEW k \in O PROVE dist[p] < dist[k] \/ (dist[p] = dist[k] /\ p <= k)
      <3>1. dist[k] \in Nat /\ (k \in C \/ ~ (dist[k] < sum))
        BY <1>2, <1>4
      <3>2. CASE k \in C
        BY <1>6, <3>2 DEF IsFirst
      <3>3. CASE ~ (dist[k] < sum)
        BY <2>1, <3>1, <3>3
      <3> QED
        BY <3>1, <3>2, <3>3
    <2> QED
      BY <2>1, <2>2 DEF IsFirst
  <1>8. FirstNearest(C, n) = p /\ FirstNearest(O, n) = p
    <2>1. \A S \in SUBSET (0..(l - 1)) : \A q : IsFirst(dist, S, q) => FirstNearest(S, n) = q
      BY <1>1, <1>2, FirstIs
    <2> QED
      BY <1>6, <1>7, <2>1
  <1> QED
    BY <1>4, <1>5, <1>8 DEF Nearest

(* What the search in a static array finds: the nearest, but the first      *)
(* smaller sum that it takes if there is one (library.c:183).               *)
StaticSearchStays ==
    A_kind = "static" /\ A_spilled = {} =>
        \A n \in 0..(NoBlocks - 1) :
            HasNear(n) => nearestStaticSum(n) =
                IF Smaller(n) = {} THEN FirstNearest(Others(n), n) ELSE Min(Smaller(n))

(* The searches of an array that holds its list.                            *)
LEMMA SearchesFind ==
    ASSUME A_Inv, NEW n \in 0..(Len(A_list) - 1), HasNear(n),
           NEW nearest, nearest = FirstNearest(Others(n), n)
    PROVE  /\ A_kind = "dynamic" => nearestDynamicSum(n) = nearest
           /\ A_kind = "static" /\ A_spilled = {} =>
                 nearestStaticSum(n) = IF Smaller(n) = {} THEN nearest ELSE Min(Smaller(n))
  <1>2. ArrayIsList
    BY ArrayInvImplies
  <1>3. PICK m \in Nat, l \in Nat : A_list \in Seq(Strings(m)) /\ l = Len(A_list)
    <2>1. A_list \in Seq(Strings(bl - 1)) \/ A_list \in Seq(Strings(SoBlocks))
      BY DEF A_Inv, A_DynamicInv, A_StaticInv
    <2> QED
      BY <2>1, Sizes
  <1>4. PICK sums : sums = [k \in 1..l |-> Sum(A_list[k])]
    OBVIOUS
  <1>5. /\ sums \in [1..l -> Nat] /\ \A k \in 1..l : sums[k] = Sum(A_list[k])
        /\ SumsOfList(sums, l) /\ Len(A_list) = l /\ n \in 0..(l - 1)
    <2>1. ASSUME NEW k \in 1..l PROVE Sum(A_list[k]) \in Nat
      <3>1. A_list[k] \in Strings(m)
        BY <1>3, ElementOfSeq
      <3> QED
        BY <3>1, SumOfString
    <2> QED
      BY <1>3, <1>4, <2>1 DEF SumsOfList
  <1>6. n + 1 \in 1..l /\ n \in Nat
    BY <1>5
  <1>1. nearest = Nearest(n)
    BY <1>3, <1>5, NearestOfOthers
  <1>7. ASSUME A_kind = "dynamic" PROVE nearestDynamicSum(n) = nearest
    <2>1. [k \in 1..al |-> Block(k - 1)] = A_list /\ al = l
      BY <1>2, <1>3, <1>7 DEF ArrayIsList, A_Inv, A_DynamicInv, al
    <2>2. \A k \in 1..l : Block(k - 1) = A_list[k]
      BY <2>1
    <2>3. BlockSums = sums
      BY <1>4, <2>1, <2>2 DEF BlockSums
    <2>4. Block(n) = A_list[n + 1]
      <3>1. (n + 1) - 1 = n
        BY <1>6
      <3> QED
        BY <1>6, <2>2, <3>1
    <2>5. PICK p : p = nearestDynamicSum(n)
      OBVIOUS
    <2>6. p = Search(sums, n, sums[n + 1], FALSE)
      BY <1>5, <1>6, <2>3, <2>4, <2>5 DEF nearestDynamicSum
    <2>7. p = IF FALSE /\ Smaller(n) # {} THEN Min(Smaller(n)) ELSE nearest
      BY <1>1, <1>3, <1>5, <2>6, SearchOfList
    <2> QED
      BY <2>5, <2>7
  <1>8. ASSUME A_kind = "static", A_spilled = {}
        PROVE  nearestStaticSum(n) = IF Smaller(n) = {} THEN nearest ELSE Min(Smaller(n))
    <2>1. A_StaticInv /\ l = NoBlocks
      BY <1>3, <1>8 DEF A_Inv, A_StaticInv
    <2>2. \A i \in 0..(NoBlocks - 1) : A_Kept(i) /\ StaticBlock(i) = A_list[i + 1]
      BY <1>2, <1>8, <2>1 DEF A_StaticInv, ArrayIsList
    <2> DEFINE whole(i) == SubSeq(A_static, i * SoBlocks + 1, (i + 1) * SoBlocks)
    <2>3. ASSUME NEW k \in 1..NoBlocks PROVE Sum(whole(k - 1)) = sums[k]
      <3>1. k - 1 \in 0..(NoBlocks - 1) /\ (k - 1) + 1 = k
        BY Sizes
      <3> QED
        BY <1>5, <2>1, <2>2, <3>1, WholeBlock
    <2>4. PICK p : p = nearestStaticSum(n)
      OBVIOUS
    <2>5. sums = [k \in 1..NoBlocks |-> Sum(whole(k - 1))]
      BY <1>4, <1>5, <2>1, <2>3
    <2>6. Sum(StaticBlock(n)) = sums[n + 1]
      BY <1>5, <1>6, <2>1, <2>2
    <2>7. p = Search(sums, n, sums[n + 1], TRUE)
      BY <2>4, <2>5, <2>6 DEF nearestStaticSum
    <2>8. PICK signed \in BOOLEAN : signed = TRUE
      OBVIOUS
    <2>9. p = Search(sums, n, sums[n + 1], signed)
      BY <2>7, <2>8
    <2>10. p = IF signed /\ Smaller(n) # {} THEN Min(Smaller(n)) ELSE Nearest(n)
      BY <1>3, <1>5, <2>9, SearchOfList
    <2> QED
      BY <1>1, <2>4, <2>8, <2>10
  <1> QED
    BY <1>7, <1>8

LEMMA NearestInvImplies == A_Inv => NearestIsNearest /\ StaticSearchStays
  <1> SUFFICES ASSUME A_Inv PROVE NearestIsNearest /\ StaticSearchStays
    OBVIOUS
  <1>1. A_kind = "static" => Len(A_list) = NoBlocks
    BY DEF A_Inv, A_StaticInv
  <1>2. NearestIsNearest
    BY SearchesFind DEF NearestIsNearest
  <1>3. StaticSearchStays
    BY <1>1, SearchesFind DEF StaticSearchStays
  <1> QED
    BY <1>2, <1>3

(* For every size and all strings, after any sequence of operations: the    *)
(* search in a dynamic array finds the first of the nearest of all other    *)
(* blocks, if one is nearer than the block's own sum.                       *)
THEOREM SearchesFindNearest == A_Spec => []NearestIsNearest
  <1>1. A_Spec => []A_Inv
    BY InitArray, NextArray, PTL DEF A_Spec
  <1> QED
    BY <1>1, NearestInvImplies, PTL

(* And exactly how far the search in a static array fails to do so: it      *)
(* finds the nearest block as long as no smaller sum is taken on the way,   *)
(* and stays with the first that is.                                        *)
THEOREM StaticSearchKeepsSmaller == A_Spec => []StaticSearchStays
  <1>1. A_Spec => []A_Inv
    BY InitArray, NextArray, PTL DEF A_Spec
  <1> QED
    BY <1>1, NearestInvImplies, PTL

-----------------------------------------------------------------------------
(* The drivers of the array (cw01/zad2, zad3a and zad3b).                   *)

T_TypeOK ==
    /\ A_kind \in {"dynamic", "static"} /\ T_version \in {"zad2", "zad3a", "zad3b"}
    /\ T_ops \in [1..2 -> T_Ops] /\ T_op \in {1, 2} /\ T_k \in Nat /\ T_al \in Nat
    /\ T_at \in {"create", "operate", "added", "delete", "done", "killed"}
    /\ A_kind = "dynamic" => T_first \in T_Lengths

(* The length before an operation, and what its rounds have changed.        *)
T_Base == IF T_op = 1 THEN T_first ELSE (T_first + Added(1)) - Removed(1)
T_Shift == IF Op.kind = "a" THEN T_k ELSE IF Op.kind = "r" THEN 0 - T_k
           ELSE IF T_at = "added" THEN 1 ELSE 0

(* What kills a program with a dynamic array.                               *)
T_TooMany == Removed(1) >= T_first \/ Removed(2) >= (T_first + Added(1)) - Removed(1)

T_DynamicInv ==
    /\ A_Pointers
    /\ T_at = "create" => T_al = T_first /\ T_op = 1 /\ T_k = 0
    /\ T_at \in {"operate", "added", "delete"} => T_al = Len(A_ar)
    /\ T_at \in {"operate", "added"} =>
          T_k <= Rounds /\ T_al = T_Base + T_Shift
    /\ T_at = "added" => Op.kind = "ar" /\ T_k > 0 /\ T_al > 0
    /\ T_at = "done" => A_ar = <<>>
    /\ T_at = "killed" => T_TooMany

T_Inv ==
    /\ T_TypeOK
    /\ A_kind = "dynamic" => T_DynamicInv
    /\ A_kind = "static" /\ T_at = "killed" => T_version = "zad3a"

(* What the rounds of an operation add and remove in the end.               *)
T_Counts ==
    /\ Op.n \in Nat /\ Rounds \in Nat
    /\ Added(1) \in Nat /\ Removed(1) \in Nat /\ Added(2) \in Nat /\ Removed(2) \in Nat
    /\ Rounds > 0 => Op.n \in Nat \ {0}
    /\ Added(T_op) = (IF Op.kind = "a" THEN Op.n ELSE 0)
    /\ A_kind = "dynamic" /\ Op.kind # "r" => Rounds = Op.n
    /\ A_kind = "dynamic" => Removed(T_op) = (IF Op.kind = "r" THEN Rounds ELSE 0)

(* They are numbers, and what they count.                                   *)
LEMMA RoundsAre == T_TypeOK => T_Counts
  <1> SUFFICES ASSUME T_TypeOK PROVE T_Counts
    OBVIOUS
  <1>1. T_ops[1] \in T_Ops /\ T_ops[2] \in T_Ops /\ (T_op = 1 \/ T_op = 2)
    BY DEF T_TypeOK
  <1>2. T_ops[1].n \in Nat /\ T_ops[2].n \in Nat
    BY <1>1, DriverConstants
  <1>3. rep * T_ops[1].n \in Nat /\ rep * T_ops[2].n \in Nat /\ rep * 0 = 0
    BY <1>2, DriverConstants
  <1>4. Op \in {T_ops[1], T_ops[2]}
    <2>1. CASE T_op = 1
      BY <2>1 DEF Op
    <2>2. CASE T_op = 2
      BY <2>2 DEF Op
    <2> QED
      BY <1>1, <2>1, <2>2
  <1>5. Op.n \in Nat /\ rep * Op.n \in Nat
    BY <1>2, <1>3, <1>4
  <1>6. Added(1) \in Nat /\ Removed(1) \in Nat /\ Added(2) \in Nat /\ Removed(2) \in Nat
    BY <1>2, <1>3 DEF Added, Removed
  <1>7. Rounds \in Nat
    BY <1>5 DEF Rounds
  <1>8. Rounds > 0 => Op.n # 0
    <2>1. SUFFICES ASSUME Op.n = 0 PROVE Rounds = 0
      BY <1>7
    <2>2. rep * Op.n = 0
      BY <1>3, <2>1
    <2> QED
      BY <2>1, <2>2 DEF Rounds
  <1>9. Added(T_op) = (IF Op.kind = "a" THEN Op.n ELSE 0)
    BY DEF Added, Op
  <1>10. A_kind = "dynamic" /\ Op.kind # "r" => Rounds = Op.n
    BY DEF Rounds
  <1>11. A_kind = "dynamic" => Removed(T_op) = (IF Op.kind = "r" THEN Rounds ELSE 0)
    BY DEF Removed, Rounds, Op
  <1> QED
    BY <1>5, <1>6, <1>7, <1>8, <1>9, <1>10, <1>11 DEF T_Counts

(* The length before an operation of a dynamic array is a number.           *)
LEMMA BaseIsNumber ==
    ASSUME T_TypeOK, T_Counts, A_kind = "dynamic"
    PROVE  T_first \in Nat \ {0} /\ T_Base \in Int
  <1>1. T_first \in Nat \ {0}
    BY DriverConstants DEF T_TypeOK
  <1>2. Added(1) \in Nat /\ Removed(1) \in Nat
    BY DEF T_Counts
  <1>3. (T_first + Added(1)) - Removed(1) \in Int
    BY <1>1, <1>2
  <1> QED
    BY <1>1, <1>3 DEF T_Base

(* As they are after a step.                                                *)
LEMMA RoundsWillBe == T_TypeOK' => T_Counts'
  BY RoundsAre, PTL

(* A step that stays with its operation counts to the same number.          *)
LEMMA SameOp ==
    ASSUME UNCHANGED <<A_kind, T_args, T_op>>
    PROVE  Op' = Op /\ Rounds' = Rounds /\ T_Base' = T_Base
  <1>0. UNCHANGED <<T_version, T_ops, T_first>>
    BY DEF T_args
  <1>1. Op' = Op
    BY <1>0 DEF Op
  <1>2. Rounds' = Rounds
    BY <1>0, <1>1 DEF Rounds
  <1>3. Added(1)' = Added(1) /\ Removed(1)' = Removed(1)
    BY <1>0 DEF Added, Removed
  <1>4. T_Base' = T_Base
    BY <1>0, <1>3 DEF T_Base
  <1> QED
    BY <1>1, <1>2, <1>4

(* An index is in the array.                                                *)
LEMMA IndexIsNat ==
    ASSUME NEW k \in Nat, NEW n \in Nat \ {0}, NEW l \in Nat \ {0}
    PROVE  (k % n) % l \in Nat
  <1>1. \A x \in Nat, y \in Nat \ {0} : x % y \in Nat
    OBVIOUS
  <1> QED
    BY <1>1

(* The steps of a program with a dynamic array.                             *)
LEMMA CreateStep ==
    ASSUME T_Inv, CreateDynamic
    PROVE  T_Inv'
  <1>0. T_TypeOK /\ T_DynamicInv /\ A_kind = "dynamic" /\ T_at = "create"
    BY DEF T_Inv, CreateDynamic, Moves
  <1>1. /\ A_ar' = [k \in 1..T_al |-> k] /\ DOMAIN A_heap' = 1..T_al
        /\ T_at' = "operate" /\ UNCHANGED <<A_kind, T_args, T_op, T_k, T_al>>
    BY DEF CreateDynamic, Moves
  <1>2. T_al = T_first /\ T_al \in Nat /\ T_op = 1 /\ T_k = 0
    BY <1>0 DEF T_DynamicInv, T_TypeOK
  <1>3. T_TypeOK'
    BY <1>0, <1>1 DEF T_TypeOK, T_args
  <1>4. A_ar' \in Seq(Nat \ {0}) /\ Len(A_ar') = T_al
    BY <1>1, <1>2
  <1>5. A_Pointers'
    <2>1. ToSet(A_ar') = 1..T_al
      BY <1>1 DEF ToSet
    <2>2. IsInjective(A_ar')
      BY <1>1 DEF IsInjective
    <2> QED
      BY <1>1, <1>4, <2>1, <2>2 DEF A_Pointers
  <1>6. Rounds' \in Nat
    BY <1>3, RoundsWillBe DEF T_Counts
  <1>7. T_al' = T_Base' + T_Shift'
    BY <1>1, <1>2 DEF T_Base, T_Shift, T_args
  <1>8. T_k' <= Rounds' /\ T_al' = T_Base' + T_Shift'
    BY <1>1, <1>2, <1>6, <1>7
  <1>9. T_DynamicInv'
    BY <1>1, <1>4, <1>5, <1>8 DEF T_DynamicInv
  <1> QED
    BY <1>0, <1>1, <1>3, <1>9 DEF T_Inv

(* A block is added in a round.                                             *)
LEMMA AddStep ==
    ASSUME T_Inv, AddDynamic
    PROVE  T_Inv'
  <1>0. T_TypeOK /\ T_DynamicInv /\ A_kind = "dynamic" /\ T_at = "operate" /\ T_Counts
    BY RoundsAre DEF T_Inv, AddDynamic, Moves, addBlockDynamic
  <1>1. /\ T_at' = (IF Op.kind = "ar" THEN "added" ELSE "operate") /\ Op.kind \in {"a", "ar"}
        /\ T_k < Rounds /\ T_k' = T_k + 1 /\ T_al > 0 /\ T_al' = T_al + 1
        /\ UNCHANGED <<A_kind, T_args, T_op>>
        /\ addBlockDynamic(Pos, Word)
    BY DEF AddDynamic, Moves, Round, addBlockDynamic
  <1>2. T_k \in Nat /\ T_al \in Nat /\ Rounds \in Nat /\ T_al = Len(A_ar) /\ A_Pointers
    BY <1>0 DEF T_TypeOK, T_DynamicInv, T_Counts
  <1>3. Pos \in Nat
    <2>1. Op.n \in Nat \ {0} /\ T_al \in Nat \ {0}
      BY <1>0, <1>1, <1>2 DEF T_Counts
    <2> QED
      BY <1>2, <2>1, IndexIsNat DEF Pos
  <1>4. A_Pointers' /\ Len(A_ar') = Len(A_ar) + 1
    <2>1. A_Pointers'
      BY <1>1, <1>2, <1>3, AddKeeps
    <2>2. PICK r, x : A_Inserts(r, x, Pos, Word)
      BY <1>1, <1>2, <1>3, AddBlock
    <2> QED
      BY <2>1, <2>2 DEF A_Inserts
  <1>5. Op' = Op /\ Rounds' = Rounds /\ T_Base' = T_Base
    BY <1>1, SameOp
  <1>6. T_al = T_Base + T_Shift
    BY <1>0 DEF T_DynamicInv
  <1>7. T_Base \in Int
    BY <1>0, BaseIsNumber
  <1>8. T_al' = T_Base' + T_Shift'
    <2>1. CASE Op.kind = "a"
      <3>1. T_Shift = T_k /\ T_Shift' = T_k + 1
        BY <1>1, <1>5, <2>1 DEF T_Shift
      <3> QED
        BY <1>1, <1>2, <1>5, <1>6, <1>7, <3>1
    <2>2. CASE Op.kind = "ar"
      <3>1. T_Shift = 0 /\ T_Shift' = 1
        BY <1>0, <1>1, <1>5, <2>2 DEF T_Shift
      <3> QED
        BY <1>1, <1>2, <1>5, <1>6, <1>7, <3>1
    <2> QED
      BY <1>1, <2>1, <2>2
  <1>9. T_TypeOK'
    BY <1>0, <1>1, <1>2 DEF T_TypeOK, T_args
  <1>10. T_k' <= Rounds' /\ T_k' > 0 /\ T_al' > 0
    BY <1>1, <1>2, <1>5
  <1>11. T_DynamicInv'
    BY <1>1, <1>2, <1>4, <1>5, <1>8, <1>10 DEF T_DynamicInv
  <1> QED
    BY <1>0, <1>1, <1>9, <1>11 DEF T_Inv

(* And removed again.                                                       *)
LEMMA RemoveAddedStep ==
    ASSUME T_Inv, RemoveAdded
    PROVE  T_Inv'
  <1>0. T_TypeOK /\ T_DynamicInv /\ A_kind = "dynamic" /\ T_at = "added" /\ T_Counts
    BY RoundsAre DEF T_Inv, RemoveAdded, Moves, deleteBlockDynamic
  <1>1. /\ T_at' = "operate" /\ T_al' = T_al - 1
        /\ UNCHANGED <<A_kind, T_args, T_op, T_k>>
        /\ deleteBlockDynamic(((T_k - 1) % Op.n) % T_al)
    BY DEF RemoveAdded, Moves, deleteBlockDynamic
  <1>2. /\ T_k \in Nat /\ T_al \in Nat /\ Rounds \in Nat /\ T_al = Len(A_ar) /\ A_Pointers
        /\ Op.kind = "ar" /\ T_k > 0 /\ T_al > 0 /\ T_k <= Rounds
    BY <1>0 DEF T_TypeOK, T_DynamicInv, T_Counts
  <1>3. PICK i \in Nat : i = ((T_k - 1) % Op.n) % T_al
    <2>1. Op.n \in Nat \ {0} /\ T_al \in Nat \ {0} /\ T_k - 1 \in Nat
      BY <1>0, <1>2 DEF T_Counts
    <2> QED
      BY <2>1, IndexIsNat
  <1>4. A_Pointers' /\ Len(A_ar') = Len(A_ar) - 1
    <2>1. deleteBlockDynamic(i)
      BY <1>1, <1>3
    <2>2. A_Pointers'
      BY <1>2, <2>1, DeleteKeeps
    <2>3. PICK r : A_Removes(r, i)
      BY <1>2, <2>1, DeleteBlock
    <2> QED
      BY <2>2, <2>3 DEF A_Removes
  <1>5. Op' = Op /\ Rounds' = Rounds /\ T_Base' = T_Base
    BY <1>1, SameOp
  <1>6. T_al = T_Base + T_Shift
    BY <1>0 DEF T_DynamicInv
  <1>7. T_Base \in Int
    BY <1>0, BaseIsNumber
  <1>8. T_al' = T_Base' + T_Shift'
    <2>1. T_Shift = 1 /\ T_Shift' = 0
      BY <1>0, <1>1, <1>2, <1>5 DEF T_Shift
    <2> QED
      BY <1>1, <1>2, <1>5, <1>6, <1>7, <2>1
  <1>9. T_TypeOK'
    BY <1>0, <1>1, <1>2 DEF T_TypeOK, T_args
  <1>10. T_k' <= Rounds'
    BY <1>1, <1>2, <1>5
  <1>11. T_DynamicInv'
    BY <1>1, <1>2, <1>4, <1>5, <1>8, <1>10 DEF T_DynamicInv
  <1> QED
    BY <1>0, <1>1, <1>9, <1>11 DEF T_Inv

(* A block is removed in a round.                                           *)
LEMMA RemoveStep ==
    ASSUME T_Inv, RemoveDynamic
    PROVE  T_Inv'
  <1>0. T_TypeOK /\ T_DynamicInv /\ A_kind = "dynamic" /\ T_at = "operate" /\ T_Counts
    BY RoundsAre DEF T_Inv, RemoveDynamic, Moves, deleteBlockDynamic
  <1>1. /\ T_at' = "operate" /\ Op.kind = "r"
        /\ T_k < Rounds /\ T_k' = T_k + 1 /\ T_al > 0 /\ T_al' = T_al - 1
        /\ UNCHANGED <<A_kind, T_args, T_op>>
        /\ deleteBlockDynamic(Pos)
    BY DEF RemoveDynamic, Moves, Round, deleteBlockDynamic
  <1>2. T_k \in Nat /\ T_al \in Nat /\ Rounds \in Nat /\ T_al = Len(A_ar) /\ A_Pointers
    BY <1>0 DEF T_TypeOK, T_DynamicInv, T_Counts
  <1>3. Pos \in Nat
    <2>1. Op.n \in Nat \ {0} /\ T_al \in Nat \ {0}
      BY <1>0, <1>1, <1>2 DEF T_Counts
    <2> QED
      BY <1>2, <2>1, IndexIsNat DEF Pos
  <1>4. A_Pointers' /\ Len(A_ar') = Len(A_ar) - 1
    <2>1. A_Pointers'
      BY <1>1, <1>2, <1>3, DeleteKeeps
    <2>2. PICK r : A_Removes(r, Pos)
      BY <1>1, <1>2, <1>3, DeleteBlock
    <2> QED
      BY <2>1, <2>2 DEF A_Removes
  <1>5. Op' = Op /\ Rounds' = Rounds /\ T_Base' = T_Base
    BY <1>1, SameOp
  <1>6. T_al = T_Base + T_Shift
    BY <1>0 DEF T_DynamicInv
  <1>7. T_Base \in Int
    BY <1>0, BaseIsNumber
  <1>8. T_al' = T_Base' + T_Shift'
    <2>1. T_Shift = 0 - T_k /\ T_Shift' = 0 - (T_k + 1)
      BY <1>1, <1>5 DEF T_Shift
    <2> QED
      BY <1>1, <1>2, <1>5, <1>6, <1>7, <2>1
  <1>9. T_TypeOK'
    BY <1>0, <1>1, <1>2 DEF T_TypeOK, T_args
  <1>10. T_k' <= Rounds'
    BY <1>1, <1>2, <1>5
  <1>11. T_DynamicInv'
    BY <1>1, <1>2, <1>4, <1>5, <1>8, <1>10 DEF T_DynamicInv
  <1> QED
    BY <1>0, <1>1, <1>9, <1>11 DEF T_Inv

(* A program dies when nothing is left to take an index of, and then more   *)
(* blocks were to be removed than there were.                               *)
LEMMA DivideStep ==
    ASSUME T_Inv, DivideByZero
    PROVE  T_Inv'
  <1>0. T_TypeOK /\ T_DynamicInv /\ A_kind = "dynamic" /\ T_at = "operate" /\ T_Counts
    BY RoundsAre DEF T_Inv, DivideByZero, Moves
  <1>1. /\ T_at' = "killed" /\ Op.kind \in {"a", "ar", "r"}
        /\ T_k < Rounds /\ T_k' = T_k + 1 /\ T_al = 0
        /\ UNCHANGED <<A_vars, T_args, T_op, T_al>>
    BY DEF DivideByZero, Moves, Round
  <1>2. T_k \in Nat /\ Rounds \in Nat /\ A_Pointers /\ T_op \in {1, 2}
    BY <1>0 DEF T_TypeOK, T_DynamicInv, T_Counts
  <1>3. T_al = T_Base + T_Shift
    BY <1>0 DEF T_DynamicInv
  <1>4. T_first \in Nat \ {0} /\ T_Base \in Int
    BY <1>0, BaseIsNumber
  <1>5. Removed(T_op) \in Nat /\ Removed(T_op) >= T_Base
    <2>1. CASE Op.kind = "r"
      <3>1. T_Shift = 0 - T_k
        BY <2>1 DEF T_Shift
      <3>2. T_Base = T_k
        <4>1. \A b \in Int, k \in Nat : 0 = b + (0 - k) => b = k
          OBVIOUS
        <4> QED
          BY <1>1, <1>2, <1>3, <1>4, <3>1, <4>1
      <3>3. Removed(T_op) = Rounds
        BY <1>0, <2>1 DEF T_Counts
      <3> QED
        BY <1>1, <1>2, <3>2, <3>3
    <2>2. CASE Op.kind # "r"
      <3>1. T_Shift \in Nat
        BY <1>0, <1>2, <2>2 DEF T_Shift
      <3>2. T_Base <= 0
        BY <1>1, <1>3, <1>4, <3>1
      <3>3. Removed(T_op) = 0
        BY <1>0, <2>2 DEF T_Counts
      <3> QED
        BY <1>4, <3>2, <3>3
    <2> QED
      BY <2>1, <2>2
  <1>6. T_TooMany
    <2>1. CASE T_op = 1
      BY <1>5, <2>1 DEF T_TooMany, T_Base
    <2>2. CASE T_op = 2
      BY <1>5, <2>2 DEF T_TooMany, T_Base
    <2> QED
      BY <1>2, <2>1, <2>2
  <1>7. T_TooMany'
    BY <1>1, <1>6 DEF T_TooMany, Removed, Added, T_args
  <1>8. A_Pointers' /\ A_kind' = A_kind
    BY <1>1, <1>2 DEF A_Pointers, A_vars, A_dynamic
  <1>9. T_TypeOK'
    BY <1>0, <1>1, <1>2, <1>8 DEF T_TypeOK, T_args
  <1>10. T_DynamicInv'
    BY <1>1, <1>7, <1>8 DEF T_DynamicInv
  <1> QED
    BY <1>0, <1>8, <1>9, <1>10 DEF T_Inv

(* The next operation starts from what the one before has left.             *)
LEMMA NextOpStep ==
    ASSUME T_Inv, NextOp
    PROVE  T_Inv'
  <1>0. T_TypeOK /\ T_at = "operate" /\ T_Counts
    BY RoundsAre DEF T_Inv, NextOp, Moves
  <1>1. /\ T_at' = (IF T_op = 2 THEN "delete" ELSE "operate")
        /\ Op.kind \in {"s", "?"} \/ T_k = Rounds
        /\ T_op' = (T_op % 2) + 1 /\ T_k' = 0
        /\ UNCHANGED <<A_vars, T_args, T_al>>
    BY DEF NextOp, Moves
  <1>2. UNCHANGED <<A_kind, A_ar, A_heap>> /\ T_op \in {1, 2}
    BY <1>0, <1>1 DEF A_vars, A_dynamic, T_TypeOK
  <1>3. T_op' = IF T_op = 1 THEN 2 ELSE 1
    BY <1>1, <1>2
  <1>4. T_TypeOK'
    BY <1>0, <1>1, <1>2, <1>3 DEF T_TypeOK, T_args
  <1>5. ASSUME A_kind = "dynamic" PROVE T_DynamicInv'
    <2>1. T_DynamicInv
      BY <1>5 DEF T_Inv
    <2>2. A_Pointers' /\ T_al' = Len(A_ar')
      BY <1>0, <1>1, <1>2, <2>1 DEF T_DynamicInv, A_Pointers
    <2>3. CASE T_op = 1
      <3>1. T_al = T_Base + T_Shift
        BY <1>0, <2>1 DEF T_DynamicInv
      <3>2. T_first \in Nat /\ T_Base = T_first
        BY <1>0, <1>5, <2>3, DriverConstants DEF T_Base, T_TypeOK
      <3>3. Added(1)' = Added(1) /\ Removed(1)' = Removed(1)
        BY <1>1 DEF Added, Removed, T_args
      <3>4. T_Base' = (T_first + Added(1)) - Removed(1)
        BY <1>1, <1>3, <2>3, <3>3 DEF T_Base, T_args
      <3>5. T_Shift' = 0
        BY <1>1, <2>3 DEF T_Shift
      <3>6. T_Shift = Added(1) - Removed(1)
        <4>0. Added(1) \in Nat /\ Removed(1) \in Nat /\ Rounds \in Nat /\ T_k \in Nat
          BY <1>0 DEF T_Counts, T_TypeOK
        <4>1. CASE Op.kind = "a"
          <5>1. Added(1) = Op.n /\ Removed(1) = 0 /\ Rounds = Op.n
            BY <1>0, <1>5, <2>3, <4>1 DEF T_Counts
          <5> QED
            BY <1>1, <4>0, <4>1, <5>1 DEF T_Shift
        <4>2. CASE Op.kind = "r"
          <5>1. Added(1) = 0 /\ Removed(1) = Rounds
            BY <1>0, <1>5, <2>3, <4>2 DEF T_Counts
          <5> QED
            BY <1>1, <4>0, <4>2, <5>1 DEF T_Shift
        <4>3. CASE Op.kind \notin {"a", "r"}
          <5>1. Added(1) = 0 /\ Removed(1) = 0
            BY <1>0, <1>5, <2>3, <4>3 DEF T_Counts
          <5> QED
            BY <1>0, <4>3, <5>1 DEF T_Shift
        <4> QED
          BY <4>1, <4>2, <4>3
      <3>7. Added(1) \in Nat /\ Removed(1) \in Nat
        BY <1>0 DEF T_Counts
      <3>8. T_al' = T_Base' + T_Shift'
        BY <1>1, <3>1, <3>2, <3>4, <3>5, <3>6, <3>7
      <3>9. T_k' <= Rounds'
        BY <1>1, <1>4, RoundsWillBe DEF T_Counts
      <3> QED
        BY <1>1, <2>2, <2>3, <3>8, <3>9 DEF T_DynamicInv
    <2>4. CASE T_op = 2
      BY <1>1, <2>2, <2>4 DEF T_DynamicInv
    <2> QED
      BY <1>2, <2>3, <2>4
  <1>6. T_at' # "killed"
    BY <1>1
  <1> QED
    BY <1>2, <1>4, <1>5, <1>6 DEF T_Inv

(* When the array is deleted nothing stays allocated, as the length that    *)
(* the program keeps is the array's.                                        *)
LEMMA DeleteStep ==
    ASSUME T_Inv, DeleteDynamic
    PROVE  T_Inv'
  <1>0. T_TypeOK /\ T_DynamicInv /\ A_kind = "dynamic" /\ T_at = "delete"
    BY DEF T_Inv, DeleteDynamic, Moves
  <1>1. /\ T_at' = "done" /\ A_ar' = <<>>
        /\ DOMAIN A_heap' = DOMAIN A_heap \ {A_ar[k] : k \in 1..T_al}
        /\ UNCHANGED <<A_kind, T_args, T_op, T_k, T_al>>
    BY DEF DeleteDynamic, Moves
  <1>2. DOMAIN A_heap' = {}
    <2>1. T_al = Len(A_ar) /\ A_Pointers
      BY <1>0 DEF T_DynamicInv
    <2> QED
      BY <1>1, <2>1, PointersAre
  <1>3. A_Pointers'
    <2>1. <<>> \in Seq(Nat \ {0}) /\ ToSet(<<>>) = {} /\ IsInjective(<<>>)
      BY DEF ToSet, IsInjective
    <2> QED
      BY <1>1, <1>2, <2>1 DEF A_Pointers
  <1>4. T_TypeOK'
    BY <1>0, <1>1 DEF T_TypeOK, T_args
  <1>5. T_DynamicInv'
    BY <1>1, <1>3 DEF T_DynamicInv
  <1> QED
    BY <1>0, <1>1, <1>4, <1>5 DEF T_Inv

(* A program with a static array keeps no length.                           *)
LEMMA StaticStep ==
    ASSUME T_Inv, A_kind' = "static", A_kind = "static",
           T_at' \in {"operate", "added", "done", "killed"},
           T_k' \in Nat, T_at' = "killed" => T_version = "zad3a",
           UNCHANGED <<T_args, T_op, T_al>>
    PROVE  T_Inv'
  BY DEF T_Inv, T_TypeOK, T_args

-----------------------------------------------------------------------------
(* In the beginning a program has its arguments.                            *)
LEMMA InitDriver == T_Init => T_Inv
  <1> SUFFICES ASSUME T_Init PROVE T_Inv
    OBVIOUS
  <1>1. T_TypeOK /\ T_at = "create" /\ T_op = 1 /\ T_k = 0
    <2>1. T_al \in Nat
      BY DriverConstants DEF T_Init
    <2> QED
      BY <2>1 DEF T_Init, T_TypeOK
  <1>2. ASSUME A_kind = "dynamic" PROVE T_DynamicInv
    <2>1. A_ar = <<>> /\ DOMAIN A_heap = {} /\ T_al = T_first
      BY <1>2 DEF T_Init
    <2>2. <<>> \in Seq(Nat \ {0}) /\ ToSet(<<>>) = {} /\ IsInjective(<<>>)
      BY DEF ToSet, IsInjective
    <2>3. A_Pointers
      BY <2>1, <2>2 DEF A_Pointers
    <2> QED
      BY <1>1, <2>1, <2>3 DEF T_DynamicInv
  <1> QED
    BY <1>1, <1>2 DEF T_Inv

(* Every step of a program keeps the invariant.                             *)
LEMMA NextDriver == T_Inv /\ [T_Next]_T_vars => T_Inv'
  <1> SUFFICES ASSUME T_Inv, [T_Next]_T_vars PROVE T_Inv'
    OBVIOUS
  <1>k. T_k \in Nat
    BY DEF T_Inv, T_TypeOK
  <1>1. CASE CreateDynamic
    BY <1>1, CreateStep
  <1>2. CASE AddDynamic
    BY <1>2, AddStep
  <1>3. CASE RemoveAdded
    BY <1>3, RemoveAddedStep
  <1>4. CASE RemoveDynamic
    BY <1>4, RemoveStep
  <1>5. CASE DivideByZero
    BY <1>5, DivideStep
  <1>6. CASE CreateStatic \/ CreateStatic3a
    <2>1. /\ A_kind' = "static" /\ A_kind = "static"
          /\ UNCHANGED <<T_args, T_op, T_al, T_k>>
      BY <1>6 DEF CreateStatic, CreateStatic3a, createArrayStatic, Moves
    <2>2. T_at' \in {"operate", "killed"} /\ (T_at' = "killed" => T_version = "zad3a")
      BY <1>6 DEF CreateStatic, CreateStatic3a, Moves
    <2> QED
      BY <1>k, <2>1, <2>2, StaticStep
  <1>7. CASE OnStatic
    <2>1. A_kind' = "static" /\ A_kind = "static"
      BY <1>7 DEF OnStatic, insertBlockStatic, deleteBlockStatic
    <2>2. /\ T_at' \in {"operate", "added"} /\ T_k' \in Nat
          /\ UNCHANGED <<T_args, T_op, T_al>>
      BY <1>7, <1>k DEF OnStatic, Moves, Round
    <2> QED
      BY <2>1, <2>2, StaticStep
  <1>8. CASE RemoveAddedStatic
    <2>1. A_kind' = "static" /\ A_kind = "static"
      BY <1>8 DEF RemoveAddedStatic, deleteBlockStatic
    <2>2. T_at' = "operate" /\ UNCHANGED <<T_args, T_op, T_al, T_k>>
      BY <1>8 DEF RemoveAddedStatic, Moves
    <2> QED
      BY <1>k, <2>1, <2>2, StaticStep
  <1>9. CASE NextOp
    BY <1>9, NextOpStep
  <1>10. CASE DeleteDynamic
    BY <1>10, DeleteStep
  <1>11. CASE DeleteStatic
    <2>1. A_kind' = "static" /\ A_kind = "static"
      BY <1>11 DEF DeleteStatic, deleteArrayStatic
    <2>2. T_at' = "done" /\ UNCHANGED <<T_args, T_op, T_al, T_k>>
      BY <1>11 DEF DeleteStatic, Moves
    <2> QED
      BY <1>k, <2>1, <2>2, StaticStep
  <1>12. CASE UNCHANGED T_vars
    <2>1. UNCHANGED <<A_kind, A_ar, A_heap, T_args, T_at, T_op, T_k, T_al>>
      BY <1>12 DEF T_vars, T_own, A_vars, A_dynamic
    <2>2. Op' = Op /\ Rounds' = Rounds /\ T_Base' = T_Base
      BY <2>1, SameOp
    <2>3. T_Shift' = T_Shift
      BY <2>1, <2>2 DEF T_Shift
    <2>4. T_TypeOK'
      BY <2>1 DEF T_Inv, T_TypeOK, T_args
    <2>5. A_Pointers => A_Pointers'
      BY <2>1 DEF A_Pointers
    <2>6. T_TooMany' = T_TooMany
      BY <2>1 DEF T_TooMany, Removed, Added, T_args
    <2>7. T_DynamicInv => T_DynamicInv'
      BY <2>1, <2>2, <2>3, <2>5, <2>6 DEF T_DynamicInv, T_args
    <2> QED
      BY <2>1, <2>4, <2>7 DEF T_Inv, T_args
  <1> QED
    BY <1>1, <1>2, <1>3, <1>4, <1>5, <1>6, <1>7, <1>8, <1>9, <1>10, <1>11, <1>12 DEF T_Next

(* The invariant says that the length is kept.                              *)
LEMMA DriverInvImplies == T_Inv => LengthIsKept
  <1> SUFFICES ASSUME T_Inv PROVE LengthIsKept
    OBVIOUS
  <1>1. ASSUME A_kind = "dynamic" PROVE T_DynamicInv
    BY <1>1 DEF T_Inv
  <1>2. ASSUME A_kind = "dynamic", T_at = "done" PROVE DOMAIN A_heap = {}
    <2>1. A_ar = <<>> /\ A_Pointers
      BY <1>1, <1>2 DEF T_DynamicInv
    <2> QED
      BY <2>1 DEF A_Pointers, ToSet
  <1>3. A_kind = "dynamic" /\ T_at \in {"operate", "added", "delete"} => T_al = Len(A_ar)
    BY <1>1 DEF T_DynamicInv
  <1>4. T_at = "killed" => \/ A_kind = "static" /\ T_version = "zad3a"
                           \/ A_kind = "dynamic" /\ T_TooMany
    BY <1>1 DEF T_DynamicInv, T_Inv, T_TypeOK
  <1>5. T_at = "killed" => \/ A_kind = "static" /\ T_version = "zad3a"
                           \/ Removed(1) >= T_first
                           \/ Removed(2) >= T_first + Added(1) - Removed(1)
    <2>1. \A a, b, c \in Nat : a + b - c = (a + b) - c
      OBVIOUS
    <2>2. Added(1) \in Nat /\ Removed(1) \in Nat
      BY RoundsAre DEF T_Inv, T_Counts
    <2>3. A_kind = "dynamic" =>
              T_first + Added(1) - Removed(1) = (T_first + Added(1)) - Removed(1)
      BY <2>1, <2>2, RoundsAre, BaseIsNumber DEF T_Inv
    <2> QED
      BY <1>1, <1>4, <2>3 DEF T_TooMany, T_Inv, T_DynamicInv
  <1>6. A_kind = "dynamic" /\ T_at = "done" => DOMAIN A_heap = {}
    BY <1>2
  <1> QED
    BY <1>3, <1>5, <1>6, Zenon DEF LengthIsKept

(* For every array, every pair of operations and all their numbers: the     *)
(* length that a program keeps is its array's after any operations, so that *)
(* in the end nothing stays allocated, and it dies only of a removal of all *)
(* its own blocks or more or, in zad3a, of the static array.                *)
THEOREM DriverKeepsLength == T_Spec => []LengthIsKept
  <1>1. T_Spec => []T_Inv
    BY InitDriver, NextDriver, PTL DEF T_Spec
  <1> QED
    BY <1>1, DriverInvImplies, PTL

-----------------------------------------------------------------------------
(* The search of cw02/zad2 and cw03/zad1.                                   *)

(* Days are compared year by year, month by month and day by day.           *)
LEMMA DaysCompared ==
    ASSUME NEW a \in Days, NEW b \in Days
    PROVE  /\ cmpTM(a, b) = -1 <=> Earlier(a, b)
           /\ cmpTM(a, b) = 1  <=> Earlier(b, a)
           /\ cmpTM(a, b) = 0  <=> a = b
  <1> DEFINE differ == {k \in 1..3 : a[k] # b[k]}
             least  == CHOOSE x \in differ : \A y \in differ : x <= y
  <1>1. /\ a[1] \in Int /\ a[2] \in Int /\ a[3] \in Int
        /\ b[1] \in Int /\ b[2] \in Int /\ b[3] \in Int
    BY DEF Days
  <1>2. a = b <=> a[1] = b[1] /\ a[2] = b[2] /\ a[3] = b[3]
    BY DEF Days
  <1>3. cmpTM(a, b) = IF differ = {} THEN 0 ELSE IF a[least] < b[least] THEN -1 ELSE 1
    BY DEF cmpTM
  <1>4. CASE differ = {}
    <2>1. 1 \notin differ /\ 2 \notin differ /\ 3 \notin differ
      BY <1>4
    <2>2. a[1] = b[1] /\ a[2] = b[2] /\ a[3] = b[3]
      BY <2>1
    <2>3. cmpTM(a, b) = 0
      BY <1>3, <1>4, Zenon
    <2> QED
      BY <1>1, <1>2, <2>2, <2>3 DEF Earlier
  <1>5. CASE differ # {}
    <2>1. PICK k \in differ : k = least /\ \A y \in differ : k <= y
      <3>1. differ \in SUBSET Nat
        OBVIOUS
      <3> HIDE DEF differ
      <3>2. \E m \in differ : \A y \in differ : m <= y
        BY <1>5, <3>1, HasLeast
      <3> QED
        BY <3>2, Zenon
    <2>2. cmpTM(a, b) = IF a[k] < b[k] THEN -1 ELSE 1
      BY <1>3, <1>5, <2>1
    <2>3. CASE k = 1
      <3>1. a[1] # b[1]
        BY <2>1, <2>3
      <3> QED
        BY <1>1, <1>2, <2>2, <2>3, <3>1 DEF Earlier
    <2>4. CASE k = 2
      <3>0. 1 \notin differ
        <4>1. \A y \in differ : 2 <= y
          BY <2>1, <2>4
        <4> HIDE DEF differ
        <4> QED
          BY <4>1
      <3>1. a[2] # b[2] /\ 1 \notin differ
        BY <2>1, <2>4, <3>0
      <3>2. a[1] = b[1]
        BY <3>1
      <3> QED
        BY <1>1, <1>2, <2>2, <2>4, <3>1, <3>2 DEF Earlier
    <2>5. CASE k = 3
      <3>0. 1 \notin differ /\ 2 \notin differ
        <4>1. \A y \in differ : 3 <= y
          BY <2>1, <2>5
        <4> HIDE DEF differ
        <4> QED
          BY <4>1
      <3>1. a[3] # b[3] /\ 1 \notin differ /\ 2 \notin differ
        BY <2>1, <2>5, <3>0
      <3>2. a[1] = b[1] /\ a[2] = b[2]
        BY <3>1
      <3> QED
        BY <1>1, <1>2, <2>2, <2>5, <3>1, <3>2 DEF Earlier
    <2> QED
      BY <2>1, <2>3, <2>4, <2>5
  <1> QED
    BY <1>4, <1>5

(* A directory is reached from itself, and what is in one that is reached   *)
(* is reached, too.                                                         *)
LEMMA BelowIsClosed ==
    ASSUME NEW tree, NEW t
    PROVE  /\ t \in Below(tree, t)
           /\ \A d \in Below(tree, t) \intersect DOMAIN tree : \A m \in DOMAIN tree[d] :
                 tree[d][m].type = "dir" => tree[d][m].to \in Below(tree, t)
  <1> DEFINE all == {t} \union SubDirs(tree, DOMAIN tree)
             closed(S) == t \in S /\ SubDirs(tree, S) \subseteq S
  <1>1. Below(tree, t) = {x \in all : \A S \in SUBSET all : closed(S) => x \in S}
    BY DEF Below
  <1>2. ASSUME NEW d \in Below(tree, t) \intersect DOMAIN tree, NEW m \in DOMAIN tree[d],
               tree[d][m].type = "dir"
        PROVE  tree[d][m].to \in Below(tree, t)
    <2>1. ASSUME NEW S, d \in S PROVE tree[d][m].to \in SubDirs(tree, S)
      BY <1>2, <2>1 DEF SubDirs
    <2>2. tree[d][m].to \in all
      BY <2>1
    <2>3. ASSUME NEW S \in SUBSET all, closed(S) PROVE tree[d][m].to \in S
      <3>1. d \in S
        BY <1>1, <2>3
      <3> QED
        BY <2>1, <2>3, <3>1
    <2> QED
      BY <1>1, <2>2, <2>3
  <1> QED
    BY <1>1, <1>2

(* What is reached from a directory is the directory, or is reached from    *)
(* one of those in it.                                                      *)
LEMMA BelowSplits ==
    ASSUME NEW tree, NEW t, NEW d \in Below(tree, t)
    PROVE  \/ d = t
           \/ /\ t \in DOMAIN tree
              /\ \E m \in DOMAIN tree[t] :
                    tree[t][m].type = "dir" /\ d \in Below(tree, tree[t][m].to)
  <1> DEFINE all == {t} \union SubDirs(tree, DOMAIN tree)
             closed(S) == t \in S /\ SubDirs(tree, S) \subseteq S
             split(x) == \/ x = t
                         \/ /\ t \in DOMAIN tree
                            /\ \E m \in DOMAIN tree[t] :
                                  tree[t][m].type = "dir" /\ x \in Below(tree, tree[t][m].to)
             S == {x \in all : split(x)}
  <1>1. Below(tree, t) = {x \in all : \A R \in SUBSET all : closed(R) => x \in R}
    BY DEF Below
  <1>2. t \in S
    OBVIOUS
  <1>3. ASSUME NEW y \in SubDirs(tree, S) PROVE y \in S
    <2>1. PICK c \in S \intersect DOMAIN tree : \E n \in DOMAIN tree[c] :
              tree[c][n].type = "dir" /\ y = tree[c][n].to
      BY <1>3 DEF SubDirs
    <2>2. PICK n \in DOMAIN tree[c] : tree[c][n].type = "dir" /\ y = tree[c][n].to
      BY <2>1
    <2>3. y \in all
      BY <2>1, <2>2 DEF SubDirs
    <2>4. split(y)
      <3>1. CASE c = t
        <4>1. y \in Below(tree, tree[t][n].to)
          BY <2>2, <3>1, BelowIsClosed
        <4> QED
          BY <2>1, <2>2, <3>1, <4>1
      <3>2. CASE c # t
        <4>1. PICK m \in DOMAIN tree[t] :
                  /\ t \in DOMAIN tree
                  /\ tree[t][m].type = "dir" /\ c \in Below(tree, tree[t][m].to)
          BY <2>1, <3>2
        <4>2. y \in Below(tree, tree[t][m].to)
          BY <2>1, <2>2, <4>1, BelowIsClosed
        <4> QED
          BY <4>1, <4>2
      <3> QED
        BY <3>1, <3>2
    <2> QED
      BY <2>3, <2>4
  <1>4. d \in S
    <2>1. S \in SUBSET all /\ SubDirs(tree, S) \subseteq S
      BY <1>3
    <2> HIDE DEF S
    <2> QED
      BY <1>1, <1>2, <2>1
  <1> QED
    BY <1>4

(* The frames are of directories that can be reached, and only matching     *)
(* files are printed.                                                       *)
D_Frames == [dir : Below(D_tree, Root), next : Nat \ {0}, buffer : Seq(Matching)]

D_TypeOK ==
    /\ D_version \in {"call", "nftw", "fork"} /\ D_op \in {"<", ">", "="} /\ D_tree \in Trees
    /\ D_stack \in Seq(D_Frames) /\ D_out \in Seq(Matching)

(* What a frame has still to look at, with the directories in it.           *)
StillIn(tree, f, e) ==
    /\ f.dir \in DOMAIN tree
    /\ \/ e[1] = f.dir /\ e[2] >= f.next
       \/ \E m \in DOMAIN tree[f.dir] : /\ m >= f.next /\ tree[f.dir][m].type = "dir"
                                        /\ e[1] \in Below(tree, tree[f.dir][m].to)

(* A matching file was written, or is in a buffer, or will be seen.         *)
NotLost(e) ==
    \/ e \in ToSet(D_out)
    \/ \E i \in 1..Len(D_stack) : e \in ToSet(D_stack[i].buffer) \/ StillIn(D_tree, D_stack[i], e)

(* Calls share a buffer: what a caller left in it is in its callee's, or    *)
(* written.                                                                 *)
Shared ==
    D_version # "fork" =>
        \A i \in 1..Len(D_stack) : i + 1 <= Len(D_stack) =>
            ToSet(D_stack[i].buffer) \subseteq ToSet(D_out) \union ToSet(D_stack[i + 1].buffer)

D_Inv == D_TypeOK /\ Shared /\ \A e \in Matching : NotLost(e)

(* The matching files are entries of directories that can be reached.       *)
LEMMA MatchesAre ==
    ASSUME NEW e
    PROVE  e \in Matching <=>
             \E d \in Below(D_tree, Root) \intersect DOMAIN D_tree : \E n \in DOMAIN D_tree[d] :
                e = <<d, n>> /\ Listed(D_tree[d][n].type) /\ OnAskedSide(D_tree[d][n].day)
  BY DEF Matching, Reached

(* The comparison asks for the days of that side.                           *)
LEMMA AskedIs ==
    ASSUME D_TypeOK, NEW day \in Days
    PROVE  Asked(day) <=> OnAskedSide(day)
  <1>1. Day \in Days
    BY SearchConstants
  <1>2. D_op \in {"<", ">", "="}
    BY DEF D_TypeOK
  <1> QED
    BY <1>1, <1>2, DaysCompared DEF Asked, OnAskedSide

(* The last frame and its entries.                                          *)
LEMMA FrameIs ==
    ASSUME D_TypeOK, D_stack # <<>>
    PROVE  \E l \in Nat \ {0} :
              /\ l = Len(D_stack) /\ Frame = D_stack[l] /\ Frame \in D_Frames
              /\ \A i \in 1..l : D_stack[i] \in D_Frames
              /\ Front(D_stack) \in Seq(D_Frames) /\ Len(Front(D_stack)) = l - 1
              /\ \A i \in 1..(l - 1) : Front(D_stack)[i] = D_stack[i]
  <1>1. D_stack \in Seq(D_Frames)
    BY DEF D_TypeOK
  <1>2. PICK l \in Nat \ {0} : l = Len(D_stack)
    BY <1>1
  <1>3. \A i \in 1..l : D_stack[i] \in D_Frames
    BY <1>1, <1>2, ElementOfSeq
  <1>4. l \in 1..l
    OBVIOUS
  <1>5. Front(D_stack) = SubSeq(D_stack, 1, l - 1)
    BY <1>2 DEF Front
  <1>6. /\ Front(D_stack) \in Seq(D_Frames) /\ Len(Front(D_stack)) = l - 1
        /\ \A i \in 1..(l - 1) : Front(D_stack)[i] = D_stack[i]
    BY <1>1, <1>2, <1>5
  <1> QED
    BY <1>2, <1>3, <1>4, <1>6 DEF Frame, Last

(* The entry that is looked at.                                             *)
LEMMA EntriesAre ==
    ASSUME D_TypeOK, D_stack # <<>>, Frame.next <= Len(Entries)
    PROVE  /\ Frame.dir \in Below(D_tree, Root) \intersect DOMAIN D_tree
           /\ Entries = D_tree[Frame.dir] /\ Frame.next \in DOMAIN D_tree[Frame.dir]
           /\ Entry \in DirEntries
           /\ Frame.next \in Nat \ {0}
  <1>1. Frame \in D_Frames
    BY FrameIs
  <1>2. Frame.dir \in Below(D_tree, Root) /\ Frame.next \in Nat \ {0}
    BY <1>1 DEF D_Frames
  <1>3. Frame.dir \in DOMAIN D_tree
    <2>1. SUFFICES ASSUME Frame.dir \notin DOMAIN D_tree PROVE FALSE
      OBVIOUS
    <2>2. Entries = <<>>
      BY <2>1 DEF Entries
    <2>3. Frame.next <= 0
      BY <2>2
    <2> QED
      BY <1>2, <2>3
  <1>4. Entries = D_tree[Frame.dir] /\ D_tree[Frame.dir] \in Seq(DirEntries)
    BY <1>3, SearchConstants DEF Entries, D_TypeOK
  <1>5. Frame.next \in 1..Len(Entries) /\ Len(Entries) \in Nat
    BY <1>2, <1>4
  <1>6. Frame.next \in DOMAIN Entries /\ Entry \in DirEntries
    BY <1>4, <1>5, ElementOfSeq DEF Entry
  <1> QED
    BY <1>2, <1>3, <1>4, <1>6

(* A step does not change what is asked for.                                *)
LEMMA SameSearch ==
    ASSUME UNCHANGED D_args
    PROVE  Matching' = Matching /\ D_Frames' = D_Frames
  <1>1. Matching' = Matching
    BY DEF D_args, Matching, Reached, Listed, OnAskedSide
  <1> QED
    BY <1>1 DEF D_args, D_Frames

(* The stack with another last frame.                                       *)
LastIs(q, f) ==
    /\ q \in Seq(D_Frames) /\ Len(q) = Len(D_stack) /\ q[Len(D_stack)] = f
    /\ \A i \in 1..(Len(D_stack) - 1) : q[i] = D_stack[i]

(* Which is what replaces it.                                               *)
LEMMA Replaced ==
    ASSUME D_TypeOK, D_stack # <<>>, NEW f, f \in D_Frames, NEW q, q = Append(Front(D_stack), f)
    PROVE  LastIs(q, f)
  <1>1. PICK l \in Nat \ {0} :
              /\ l = Len(D_stack)
              /\ Front(D_stack) \in Seq(D_Frames) /\ Len(Front(D_stack)) = l - 1
              /\ \A i \in 1..(l - 1) : Front(D_stack)[i] = D_stack[i]
    BY FrameIs
  <1>2. PICK p \in Seq(D_Frames) : p = Front(D_stack) /\ Len(p) = l - 1
    BY <1>1
  <1>3. q \in Seq(D_Frames) /\ Len(q) = (l - 1) + 1 /\ q[(l - 1) + 1] = f
        /\ \A i \in 1..(l - 1) : q[i] = p[i]
    BY <1>2
  <1>4. (l - 1) + 1 = l
    OBVIOUS
  <1> QED
    BY <1>1, <1>2, <1>3, <1>4 DEF LastIs

(* The elements of two sequences.                                           *)
LEMMA ElementsOf ==
    ASSUME NEW S, NEW p \in Seq(S)
    PROVE  /\ ToSet(p) \subseteq S
           /\ \A x \in S : Append(p, x) \in Seq(S) /\ ToSet(Append(p, x)) = ToSet(p) \union {x}
           /\ \A q \in Seq(S) : p \o q \in Seq(S) /\ ToSet(p \o q) = ToSet(p) \union ToSet(q)
  <1>1. DOMAIN p = 1..Len(p) /\ Len(p) \in Nat /\ \A i \in 1..Len(p) : p[i] \in S
    BY ElementOfSeq
  <1>2. ASSUME NEW x \in S
        PROVE  Append(p, x) \in Seq(S) /\ ToSet(Append(p, x)) = ToSet(p) \union {x}
    <2>1. PICK q : q = Append(p, x)
      OBVIOUS
    <2>2. /\ q \in Seq(S) /\ DOMAIN q = 1..(Len(p) + 1) /\ q[Len(p) + 1] = x
          /\ \A i \in 1..Len(p) : q[i] = p[i]
      BY <1>1, <2>1
    <2>3. \A i \in 1..(Len(p) + 1) : i \in 1..Len(p) \/ i = Len(p) + 1
      BY <1>1
    <2>4. 1..Len(p) \subseteq 1..(Len(p) + 1) /\ Len(p) + 1 \in 1..(Len(p) + 1)
      BY <1>1
    <2>5. ToSet(q) = ToSet(p) \union {x}
      BY <1>1, <2>2, <2>3, <2>4 DEF ToSet
    <2> QED
      BY <2>1, <2>2, <2>5
  <1>3. ASSUME NEW q \in Seq(S)
        PROVE  p \o q \in Seq(S) /\ ToSet(p \o q) = ToSet(p) \union ToSet(q)
    <2>1. PICK r : r = p \o q
      OBVIOUS
    <2>0. Len(q) \in Nat /\ DOMAIN q = 1..Len(q)
      BY ElementOfSeq
    <2>2. PICK k \in Nat, l \in Nat : k = Len(p) /\ l = Len(q) /\ DOMAIN q = 1..l
      BY <1>1, <2>0
    <2>3. /\ r \in Seq(S) /\ DOMAIN r = 1..(k + l)
          /\ \A i \in 1..(k + l) : r[i] = IF i <= k THEN p[i] ELSE q[i - k]
      BY <2>1, <2>2, ConcatProperties
    <2>4. ASSUME NEW i \in 1..k PROVE i \in 1..(k + l) /\ r[i] = p[i]
      <3>1. i \in 1..(k + l) /\ i <= k
        OBVIOUS
      <3> QED
        BY <2>3, <3>1
    <2>5. ASSUME NEW i \in 1..l PROVE k + i \in 1..(k + l) /\ r[k + i] = q[i]
      <3>1. k + i \in 1..(k + l) /\ ~ (k + i <= k) /\ (k + i) - k = i
        OBVIOUS
      <3> QED
        BY <2>3, <3>1
    <2>6. ASSUME NEW i \in 1..(k + l) PROVE r[i] \in ToSet(p) \union ToSet(q)
      <3>1. CASE i <= k
        BY <1>1, <2>2, <2>3, <3>1 DEF ToSet
      <3>2. CASE ~ (i <= k)
        <4>1. i - k \in 1..l
          BY <3>2
        <4> QED
          BY <2>2, <2>3, <3>2, <4>1 DEF ToSet
      <3> QED
        BY <3>1, <3>2
    <2>7. ToSet(r) = ToSet(p) \union ToSet(q)
      <3>1. ToSet(r) \subseteq ToSet(p) \union ToSet(q)
        BY <2>3, <2>6 DEF ToSet
      <3>2. ToSet(p) \subseteq ToSet(r)
        BY <1>1, <2>2, <2>3, <2>4 DEF ToSet
      <3>3. ToSet(q) \subseteq ToSet(r)
        <4>1. \A i \in 1..l : \E h \in DOMAIN r : q[i] = r[h]
          BY <2>3, <2>5
        <4> HIDE <2>3, <2>5
        <4> QED
          BY <2>2, <4>1 DEF ToSet
      <3> QED
        BY <3>1, <3>2, <3>3
    <2> QED
      BY <2>1, <2>3, <2>7
  <1> QED
    BY <1>1, <1>2, <1>3 DEF ToSet

(* The frame after an entry.                                                *)
LEMMA AdvancedIs ==
    ASSUME D_TypeOK, D_stack # <<>>
    PROVE  /\ Advanced \in D_Frames /\ Advanced.dir = Frame.dir
           /\ Advanced.next = Frame.next + 1 /\ Advanced.buffer = Frame.buffer
           /\ Frame.buffer \in Seq(Matching) /\ Frame.dir \in Below(D_tree, Root)
           /\ \A b \in Seq(Matching) : LET f == [Advanced EXCEPT !.buffer = b]
                                       IN  /\ f \in D_Frames /\ f.dir = Frame.dir
                                           /\ f.next = Frame.next + 1 /\ f.buffer = b
  <1>1. PICK f : f = Frame
    OBVIOUS
  <1>2. f \in D_Frames
    BY <1>1, FrameIs
  <1>3. Advanced = [f EXCEPT !.next = f.next + 1]
    BY <1>1 DEF Advanced
  <1>4. /\ f.dir \in Below(D_tree, Root) /\ f.next \in Nat \ {0} /\ f.buffer \in Seq(Matching)
        /\ f = [dir |-> f.dir, next |-> f.next, buffer |-> f.buffer]
    BY <1>2 DEF D_Frames
  <1>5. Advanced = [dir |-> f.dir, next |-> f.next + 1, buffer |-> f.buffer]
    BY <1>3, <1>4
  <1>6. f.next + 1 \in Nat \ {0}
    BY <1>4
  <1>7. ASSUME NEW b \in Seq(Matching)
        PROVE  /\ [Advanced EXCEPT !.buffer = b] =
                      [dir |-> f.dir, next |-> f.next + 1, buffer |-> b]
               /\ [dir |-> f.dir, next |-> f.next + 1, buffer |-> b] \in D_Frames
    BY <1>4, <1>5, <1>6 DEF D_Frames
  <1> QED
    BY <1>1, <1>4, <1>5, <1>6, <1>7 DEF D_Frames

(* What was left in a frame is what its entry was, or is still left.        *)
LEMMA WhatIsLeft ==
    ASSUME D_TypeOK, D_stack # <<>>, Frame.next <= Len(Entries), NEW e \in Matching,
           StillIn(D_tree, Frame, e), NEW f, f.dir = Frame.dir, f.next = Frame.next + 1
    PROVE  \/ StillIn(D_tree, f, e)
           \/ /\ e = <<Frame.dir, Frame.next>>
              /\ Listed(Entry.type) /\ OnAskedSide(Entry.day)
           \/ Entry.type = "dir" /\ e[1] \in Below(D_tree, Entry.to)
  <1>1. PICK n0 \in Nat \ {0} : n0 = Frame.next
    BY EntriesAre
  <1>0. PICK d0 : d0 = Frame.dir
    OBVIOUS
  <1>2. Entry = D_tree[d0][n0] /\ d0 \in DOMAIN D_tree /\ D_tree[d0] \in Seq(DirEntries)
    BY <1>0, <1>1, EntriesAre, SearchConstants DEF Entry, D_TypeOK
  <1>3. DOMAIN D_tree[d0] \subseteq Nat
    BY <1>2
  <1>4. CASE e[1] = d0 /\ e[2] >= n0
    <2>1. PICK d \in DOMAIN D_tree : \E n \in DOMAIN D_tree[d] :
              e = <<d, n>> /\ Listed(D_tree[d][n].type) /\ OnAskedSide(D_tree[d][n].day)
      BY MatchesAre
    <2>2. PICK n \in DOMAIN D_tree[d] :
              e = <<d, n>> /\ Listed(D_tree[d][n].type) /\ OnAskedSide(D_tree[d][n].day)
      BY <2>1
    <2>3. d = d0 /\ n \in Nat /\ n >= n0
      BY <1>3, <1>4, <2>2
    <2>4. CASE n = n0
      BY <1>0, <1>1, <1>2, <2>2, <2>3, <2>4
    <2>5. CASE n # n0
      <3>1. n >= n0 + 1
        BY <2>3, <2>5
      <3>2. e[1] = f.dir /\ e[2] >= f.next /\ f.dir \in DOMAIN D_tree
        BY <1>0, <1>1, <1>2, <1>4, <2>2, <3>1
      <3> QED
        BY <3>2 DEF StillIn
    <2> QED
      BY <2>4, <2>5
  <1>5. ASSUME NEW m \in DOMAIN D_tree[d0], m >= n0, D_tree[d0][m].type = "dir",
               e[1] \in Below(D_tree, D_tree[d0][m].to)
        PROVE  StillIn(D_tree, f, e) \/ (Entry.type = "dir" /\ e[1] \in Below(D_tree, Entry.to))
    <2>1. CASE m = n0
      BY <1>2, <1>5, <2>1
    <2>2. CASE m # n0
      <3>1. m >= n0 + 1
        BY <1>3, <1>5, <2>2
      <3> QED
        <4>1. f.dir = d0 /\ f.next = n0 + 1
          BY <1>0, <1>1
        <4>2. f.dir \in DOMAIN D_tree /\ m \in DOMAIN D_tree[f.dir] /\ m >= f.next
              /\ D_tree[f.dir][m].type = "dir" /\ e[1] \in Below(D_tree, D_tree[f.dir][m].to)
          BY <1>2, <1>5, <3>1, <4>1
        <4> QED
          BY <4>2 DEF StillIn
    <2> QED
      BY <2>1, <2>2
  <1> QED
    BY <1>0, <1>1, <1>4, <1>5 DEF StillIn

(* A frame that starts has all that is below its directory to look at.      *)
LEMMA NewFrame ==
    ASSUME D_tree \in Trees, NEW e \in Matching, NEW f, f.next = 1, e[1] \in Below(D_tree, f.dir)
    PROVE  StillIn(D_tree, f, e)
  <1>1. PICK d \in DOMAIN D_tree : \E n \in DOMAIN D_tree[d] : e = <<d, n>>
    BY MatchesAre
  <1>2. PICK n \in DOMAIN D_tree[d] : e = <<d, n>>
    BY <1>1
  <1>3. \A c \in DOMAIN D_tree : \A k \in DOMAIN D_tree[c] : k \in Nat /\ k >= 1
    <2>1. ASSUME NEW c \in DOMAIN D_tree PROVE \A k \in DOMAIN D_tree[c] : k \in Nat /\ k >= 1
      <3>1. D_tree[c] \in Seq(DirEntries)
        BY SearchConstants
      <3>2. DOMAIN D_tree[c] = 1..Len(D_tree[c]) /\ Len(D_tree[c]) \in Nat
        BY <3>1
      <3> QED
        BY <3>2
    <2> QED
      BY <2>1
  <1>4. CASE e[1] = f.dir
    <2>1. f.dir = d /\ e[2] = n /\ n >= 1
      BY <1>2, <1>3, <1>4
    <2> QED
      BY <1>4, <2>1 DEF StillIn
  <1>5. CASE e[1] # f.dir
    <2>1. PICK m \in DOMAIN D_tree[f.dir] :
              /\ f.dir \in DOMAIN D_tree
              /\ D_tree[f.dir][m].type = "dir" /\ e[1] \in Below(D_tree, D_tree[f.dir][m].to)
      BY <1>5, BelowSplits
    <2>2. m >= f.next
      BY <1>3, <2>1
    <2> QED
      BY <2>1, <2>2 DEF StillIn
  <1> QED
    BY <1>4, <1>5

(* A frame at its end has nothing left.                                     *)
LEMMA NothingLeft ==
    ASSUME D_TypeOK, AtEnd, NEW e \in Matching
    PROVE  ~ StillIn(D_tree, Frame, e)
  <1> SUFFICES ASSUME StillIn(D_tree, Frame, e) PROVE FALSE
    OBVIOUS
  <1>1. PICK d0 : d0 = Frame.dir
    OBVIOUS
  <1>2. d0 \in DOMAIN D_tree
    BY <1>1 DEF StillIn
  <1>3. Entries = D_tree[d0] /\ D_tree[d0] \in Seq(DirEntries)
    BY <1>1, <1>2, SearchConstants DEF Entries, D_TypeOK
  <1>4. PICK k \in Nat : k = Len(Entries) /\ DOMAIN D_tree[d0] = 1..k
    BY <1>3
  <1>5. PICK n0 \in Nat : n0 = Frame.next /\ n0 > k
    <2>1. Frame.next \in Nat
      BY FrameIs DEF AtEnd, D_Frames
    <2> QED
      BY <1>4, <2>1 DEF AtEnd
  <1>6. ~ (\E m \in DOMAIN D_tree[d0] : m >= n0)
    BY <1>4, <1>5
  <1>7. e[1] = d0 => e[2] \in DOMAIN D_tree[d0]
    BY MatchesAre
  <1> QED
    BY <1>1, <1>5, <1>6, <1>7 DEF StillIn

-----------------------------------------------------------------------------
(* A step that looks at an entry that is no directory.                      *)
Looks(f) ==
    /\ D_stack # <<>> /\ UNCHANGED D_args /\ f \in D_Frames
    /\ D_stack' = Append(Front(D_stack), f)
    /\ D_out' \in Seq(Matching) /\ ToSet(D_out) \subseteq ToSet(D_out')
    /\ ToSet(Frame.buffer) \subseteq ToSet(D_out') \union ToSet(f.buffer)
    /\ \A e \in Matching : StillIn(D_tree, Frame, e) =>
           \/ e \in ToSet(D_out') \union ToSet(f.buffer)
           \/ StillIn(D_tree, f, e)

(* Nothing is lost by it.                                                   *)
LEMMA LooksAt ==
    ASSUME D_Inv, NEW f, Looks(f)
    PROVE  D_Inv'
  <1>a. /\ D_stack # <<>> /\ UNCHANGED D_args /\ f \in D_Frames
        /\ D_stack' = Append(Front(D_stack), f)
    BY DEF Looks
  <1>b. /\ D_out' \in Seq(Matching) /\ ToSet(D_out) \subseteq ToSet(D_out')
        /\ ToSet(Frame.buffer) \subseteq ToSet(D_out') \union ToSet(f.buffer)
    BY DEF Looks
  <1>c. \A e \in Matching : StillIn(D_tree, Frame, e) =>
            \/ e \in ToSet(D_out') \union ToSet(f.buffer)
            \/ StillIn(D_tree, f, e)
    BY DEF Looks
  <1>1. D_TypeOK
    BY DEF D_Inv
  <1>2. PICK l \in Nat \ {0} : l = Len(D_stack) /\ Frame = D_stack[l]
    BY <1>1, <1>a, FrameIs
  <1>3. /\ D_stack' \in Seq(D_Frames) /\ Len(D_stack') = l /\ D_stack'[l] = f
        /\ \A i \in 1..(l - 1) : D_stack'[i] = D_stack[i]
    <2>1. PICK q : q = D_stack' /\ q = Append(Front(D_stack), f)
      BY <1>a
    <2>2. D_TypeOK /\ D_stack # <<>> /\ f \in D_Frames
      BY <1>1, <1>a
    <2>3. q = Append(Front(D_stack), f)
      BY <2>1
    <2>4. LastIs(q, f)
      BY <2>2, <2>3, Replaced
    <2> QED
      BY <1>2, <2>1, <2>4 DEF LastIs
  <1>4. Matching' = Matching /\ D_Frames' = D_Frames /\ D_tree' = D_tree /\ D_version' = D_version
    BY <1>a, SameSearch DEF D_args
  <1>5. D_TypeOK'
    BY <1>1, <1>3, <1>4, <1>a, <1>b DEF D_TypeOK, D_args
  <1>6. Shared'
    <2> SUFFICES ASSUME D_version # "fork", NEW i \in 1..l, i + 1 <= l
                 PROVE  ToSet(D_stack'[i].buffer) \subseteq
                            ToSet(D_out') \union ToSet(D_stack'[i + 1].buffer)
      BY <1>3, <1>4 DEF Shared
    <2>1. ToSet(D_stack[i].buffer) \subseteq ToSet(D_out) \union ToSet(D_stack[i + 1].buffer)
      BY <1>2 DEF D_Inv, Shared
    <2>2. i \in 1..(l - 1) /\ D_stack'[i] = D_stack[i]
      BY <1>3
    <2>3. CASE i + 1 = l
      BY <1>2, <1>3, <1>b, <2>1, <2>2, <2>3
    <2>4. CASE i + 1 # l
      <3>1. D_stack'[i + 1] = D_stack[i + 1]
        BY <1>3, <2>4
      <3> QED
        BY <1>b, <2>1, <2>2, <3>1
    <2> QED
      BY <2>3, <2>4
  <1>7. ASSUME NEW e \in Matching PROVE NotLost(e)'
    <2>1. NotLost(e)
      BY DEF D_Inv
    <2>2. CASE e \in ToSet(D_out)
      BY <1>b, <2>2 DEF NotLost
    <2>3. ASSUME NEW i \in 1..l, e \in ToSet(D_stack[i].buffer) \/ StillIn(D_tree, D_stack[i], e)
          PROVE  NotLost(e)'
      <3>1. CASE i = l
        <4>1. \/ e \in ToSet(D_out') \/ e \in ToSet(D_stack'[l].buffer)
              \/ StillIn(D_tree', D_stack'[l], e)
          BY <1>2, <1>3, <1>4, <1>b, <1>c, <2>3, <3>1
        <4>2. l \in 1..Len(D_stack')
          BY <1>3
        <4> QED
          BY <4>1, <4>2 DEF NotLost
      <3>2. CASE i # l
        <4>1. i \in 1..Len(D_stack') /\ D_stack'[i] = D_stack[i]
          BY <1>3, <3>2
        <4> QED
          BY <1>4, <2>3, <4>1 DEF NotLost
      <3> QED
        BY <3>1, <3>2
    <2> QED
      BY <1>2, <2>1, <2>2, <2>3 DEF NotLost
  <1> QED
    BY <1>4, <1>5, <1>6, <1>7 DEF D_Inv

(* Nothing is lost when a file is printed: it is in the buffer, or written. *)
LEMMA PrintKeeps == ASSUME D_Inv, D_Print PROVE D_Inv'
  <1> DEFINE e0   == <<Frame.dir, Frame.next>>
             held == Append(Frame.buffer, e0)
             now  == Len(held) >= D_room
             f    == [Advanced EXCEPT !.buffer = IF now THEN <<>> ELSE held]
  <1>1. D_TypeOK /\ D_out \in Seq(Matching)
    BY DEF D_Inv, D_TypeOK
  <1>2. /\ D_stack # <<>> /\ Frame.next <= Len(Entries) /\ Entry.type # "dir"
        /\ Listed(Entry.type) /\ Asked(Entry.day) /\ UNCHANGED D_args
    BY DEF D_Print, More
  <1>3. D_out' = (IF now THEN D_out \o held ELSE D_out) /\ D_stack' = Append(Front(D_stack), f)
    BY DEF D_Print
  <1>4. e0 \in Matching
    <2>1. Entry.day \in Days
      BY <1>1, <1>2, EntriesAre DEF DirEntries
    <2>2. OnAskedSide(Entry.day)
      BY <1>1, <1>2, <2>1, AskedIs
    <2>3. /\ Frame.dir \in Below(D_tree, Root) \intersect DOMAIN D_tree
          /\ Frame.next \in DOMAIN D_tree[Frame.dir] /\ Entry = D_tree[Frame.dir][Frame.next]
      BY <1>1, <1>2, EntriesAre DEF Entry
    <2> QED
      BY <1>2, <2>2, <2>3, MatchesAre
  <1>5. Frame.buffer \in Seq(Matching)
    BY <1>1, <1>2, AdvancedIs
  <1>6. held \in Seq(Matching) /\ ToSet(held) = ToSet(Frame.buffer) \union {e0}
    BY <1>4, <1>5, ElementsOf
  <1>7. f \in D_Frames /\ f.dir = Frame.dir /\ f.next = Frame.next + 1
        /\ f.buffer = IF now THEN <<>> ELSE held
    <2>1. (IF now THEN <<>> ELSE held) \in Seq(Matching)
      BY <1>6
    <2> HIDE DEF now, held
    <2> QED
      BY <1>1, <1>2, <2>1, AdvancedIs
  <1>8. /\ D_out' \in Seq(Matching) /\ ToSet(D_out) \subseteq ToSet(D_out')
        /\ ToSet(held) \subseteq ToSet(D_out') \union ToSet(f.buffer)
    <2> HIDE DEF now, held, f
    <2>1. CASE now
      <3>1. D_out' = D_out \o held
        BY <1>3, <2>1
      <3> QED
        BY <1>1, <1>6, <3>1, ElementsOf
    <2>2. CASE ~ now
      BY <1>1, <1>3, <1>7, <2>2
    <2> QED
      BY <2>1, <2>2
  <1>9. ASSUME NEW e \in Matching, StillIn(D_tree, Frame, e)
        PROVE  e \in ToSet(D_out') \union ToSet(f.buffer) \/ StillIn(D_tree, f, e)
    <2> HIDE DEF f
    <2>1. StillIn(D_tree, f, e) \/ e = e0
      BY <1>1, <1>2, <1>7, <1>9, WhatIsLeft
    <2> QED
      BY <1>6, <1>8, <2>1
  <1> HIDE DEF f, held
  <1>10. ToSet(Frame.buffer) \subseteq ToSet(D_out') \union ToSet(f.buffer)
    BY <1>6, <1>8
  <1>11. Looks(f)
    BY <1>2, <1>3, <1>7, <1>8, <1>9, <1>10 DEF Looks
  <1> QED
    BY <1>11, LooksAt

(* A file that is not listed is no match.                                   *)
LEMMA SkipKeeps == ASSUME D_Inv, D_Skip PROVE D_Inv'
  <1>1. D_TypeOK /\ D_out \in Seq(Matching)
    BY DEF D_Inv, D_TypeOK
  <1>2. /\ D_stack # <<>> /\ Frame.next <= Len(Entries) /\ Entry.type # "dir"
        /\ ~ (Listed(Entry.type) /\ Asked(Entry.day)) /\ UNCHANGED <<D_args, D_out>>
        /\ D_stack' = Append(Front(D_stack), Advanced)
    BY DEF D_Skip, More
  <1>3. ~ (Listed(Entry.type) /\ OnAskedSide(Entry.day))
    <2>1. Entry.day \in Days
      BY <1>1, <1>2, EntriesAre DEF DirEntries
    <2> QED
      BY <1>1, <1>2, <2>1, AskedIs
  <1>4. PICK f : f = Advanced
    OBVIOUS
  <1>5. /\ f \in D_Frames /\ f.dir = Frame.dir /\ f.next = Frame.next + 1
        /\ f.buffer = Frame.buffer
    BY <1>1, <1>2, <1>4, AdvancedIs
  <1>6. \A e \in Matching : StillIn(D_tree, Frame, e) => StillIn(D_tree, f, e)
    BY <1>1, <1>2, <1>3, <1>5, WhatIsLeft
  <1>7. D_out' = D_out /\ UNCHANGED D_args /\ D_stack' = Append(Front(D_stack), f)
    BY <1>2, <1>4
  <1>8. D_out' \in Seq(Matching) /\ ToSet(D_out) \subseteq ToSet(D_out')
    BY <1>1, <1>7
  <1>9. Looks(f)
    BY <1>2, <1>5, <1>6, <1>7, <1>8 DEF Looks
  <1> QED
    BY <1>9, LooksAt

(* What is below a directory is left to the frame that is entered for it.   *)
LEMMA EnterKeeps == ASSUME D_Inv, D_Enter PROVE D_Inv'
  <1> DEFINE q == Append(Front(D_stack), Advanced)
  <1>1. D_TypeOK
    BY DEF D_Inv
  <1>2. /\ D_stack # <<>> /\ Frame.next <= Len(Entries) /\ Entry.type = "dir"
        /\ UNCHANGED <<D_args, D_out>>
    BY DEF D_Enter, More
  <1>3. PICK c : c = [dir |-> Entry.to, next |-> 1, buffer |-> Frame.buffer]
    OBVIOUS
  <1>4. PICK f : f = Advanced
    OBVIOUS
  <1>5. /\ f \in D_Frames /\ f.dir = Frame.dir /\ f.next = Frame.next + 1
        /\ f.buffer = Frame.buffer /\ Frame.buffer \in Seq(Matching)
    BY <1>1, <1>2, <1>4, AdvancedIs
  <1>6. Entry.to \in Below(D_tree, Root)
    <2>1. /\ Frame.dir \in Below(D_tree, Root) \intersect DOMAIN D_tree
          /\ Frame.next \in DOMAIN D_tree[Frame.dir] /\ Entry = D_tree[Frame.dir][Frame.next]
      BY <1>1, <1>2, EntriesAre DEF Entry
    <2> QED
      BY <1>2, <2>1, BelowIsClosed
  <1>7. c \in D_Frames
    BY <1>3, <1>5, <1>6 DEF D_Frames
  <1>8. PICK l \in Nat \ {0} : l = Len(D_stack) /\ Frame = D_stack[l]
    BY <1>1, <1>2, FrameIs
  <1>9. /\ q \in Seq(D_Frames) /\ Len(q) = l /\ q[l] = f
        /\ \A i \in 1..(l - 1) : q[i] = D_stack[i]
    <2>1. q = Append(Front(D_stack), f)
      BY <1>4
    <2> HIDE DEF q
    <2>2. D_TypeOK /\ D_stack # <<>> /\ f \in D_Frames
      BY <1>1, <1>2, <1>5
    <2>3. LastIs(q, f)
      BY <2>1, <2>2, Replaced
    <2> QED
      BY <1>8, <2>3 DEF LastIs
  <1>10. D_stack' = Append(q, c)
    BY <1>3 DEF D_Enter
  <1> HIDE DEF q
  <1>11. /\ D_stack' \in Seq(D_Frames) /\ Len(D_stack') = l + 1 /\ D_stack'[l + 1] = c
         /\ D_stack'[l] = f /\ \A i \in 1..(l - 1) : D_stack'[i] = D_stack[i]
    <2>1. \A i \in 1..l : D_stack'[i] = q[i]
      BY <1>7, <1>9, <1>10
    <2> QED
      BY <1>7, <1>9, <1>10, <2>1
  <1>12. /\ Matching' = Matching /\ D_Frames' = D_Frames /\ D_tree' = D_tree
         /\ D_version' = D_version /\ D_out' = D_out
    BY <1>2, SameSearch DEF D_args
  <1>13. D_TypeOK'
    BY <1>1, <1>2, <1>11, <1>12 DEF D_TypeOK, D_args
  <1>14. Shared'
    <2> SUFFICES ASSUME D_version # "fork", NEW i \in 1..(l + 1), i + 1 <= l + 1
                 PROVE  ToSet(D_stack'[i].buffer) \subseteq
                            ToSet(D_out) \union ToSet(D_stack'[i + 1].buffer)
      BY <1>11, <1>12 DEF Shared
    <2>1. CASE i = l
      BY <1>3, <1>5, <1>11, <2>1
    <2>2. CASE i # l
      <3>1. i \in 1..(l - 1) /\ i \in 1..l /\ i + 1 <= l /\ i + 1 \in 1..l
        BY <2>2
      <3>2. ToSet(D_stack[i].buffer) \subseteq ToSet(D_out) \union ToSet(D_stack[i + 1].buffer)
        BY <1>8, <3>1 DEF D_Inv, Shared
      <3>3. D_stack'[i].buffer = D_stack[i].buffer
        BY <1>11, <3>1
      <3>4. D_stack'[i + 1].buffer = D_stack[i + 1].buffer
        <4>1. CASE i + 1 = l
          BY <1>5, <1>8, <1>11, <4>1
        <4>2. CASE i + 1 # l
          <5>1. i + 1 \in 1..(l - 1)
            BY <3>1, <4>2
          <5> QED
            BY <1>11, <5>1
        <4> QED
          BY <4>1, <4>2
      <3> QED
        BY <3>2, <3>3, <3>4
    <2> QED
      BY <2>1, <2>2
  <1>15. ASSUME NEW e \in Matching PROVE NotLost(e)'
    <2>1. NotLost(e)
      BY DEF D_Inv
    <2>2. CASE e \in ToSet(D_out)
      BY <1>12, <2>2 DEF NotLost
    <2>3. ASSUME NEW i \in 1..l, e \in ToSet(D_stack[i].buffer) \/ StillIn(D_tree, D_stack[i], e)
          PROVE  NotLost(e)'
      <3>1. CASE i # l
        <4>1. i \in 1..Len(D_stack') /\ D_stack'[i] = D_stack[i]
          BY <1>11, <3>1
        <4> QED
          BY <1>12, <2>3, <4>1 DEF NotLost
      <3>2. CASE i = l
        <4>0. l \in 1..Len(D_stack') /\ l + 1 \in 1..Len(D_stack')
          BY <1>11
        <4>1. CASE e \in ToSet(D_stack'[l].buffer) \/ StillIn(D_tree, D_stack'[l], e)
          BY <1>12, <4>0, <4>1 DEF NotLost
        <4>2. CASE ~ (e \in ToSet(D_stack'[l].buffer) \/ StillIn(D_tree, D_stack'[l], e))
          <5>1. e \notin ToSet(f.buffer) /\ ~ StillIn(D_tree, f, e)
            BY <1>11, <4>2
          <5>2. StillIn(D_tree, Frame, e)
            BY <1>5, <1>8, <2>3, <3>2, <5>1
          <5>3. ~ Listed(Entry.type)
            BY <1>2 DEF Listed
          <5>4. e[1] \in Below(D_tree, Entry.to)
            BY <1>1, <1>2, <1>5, <5>1, <5>2, <5>3, WhatIsLeft
          <5>5. D_tree \in Trees /\ c.next = 1 /\ e[1] \in Below(D_tree, c.dir)
            BY <1>1, <1>3, <5>4 DEF D_TypeOK
          <5>6. StillIn(D_tree, c, e)
            BY <5>5, NewFrame
          <5> QED
            BY <1>11, <1>12, <4>0, <5>6 DEF NotLost
        <4> QED
          BY <4>1, <4>2
      <3> QED
        BY <3>1, <3>2
    <2> QED
      BY <1>8, <2>1, <2>2, <2>3 DEF NotLost
  <1> QED
    BY <1>12, <1>13, <1>14, <1>15 DEF D_Inv

(* A call leaves nothing, and its buffer is its caller's.                   *)
LEMMA ReturnKeeps == ASSUME D_Inv, D_Return PROVE D_Inv'
  <1>1. D_TypeOK
    BY DEF D_Inv
  <1>2. /\ D_stack # <<>> /\ AtEnd /\ Len(D_stack) > 1 /\ D_version # "fork"
        /\ UNCHANGED <<D_args, D_out>>
    BY DEF D_Return, AtEnd
  <1>3. PICK l \in Nat \ {0} :
            /\ l = Len(D_stack) /\ Frame = D_stack[l] /\ Frame \in D_Frames
            /\ \A i \in 1..l : D_stack[i] \in D_Frames
            /\ Front(D_stack) \in Seq(D_Frames) /\ Len(Front(D_stack)) = l - 1
            /\ \A i \in 1..(l - 1) : Front(D_stack)[i] = D_stack[i]
    BY <1>1, <1>2, FrameIs
  <1>4. PICK k \in Nat \ {0} : k = l - 1 /\ l = k + 1
    <2>1. l > 1
      BY <1>2, <1>3
    <2> QED
      BY <2>1
  <1>5. PICK p \in Seq(D_Frames) : p = Front(D_stack) /\ Len(p) = k
    BY <1>3, <1>4
  <1>6. Last(p) = D_stack[k] /\ k \in 1..k /\ k \in 1..l /\ l \in 1..l
    BY <1>3, <1>4, <1>5 DEF Last
  <1>7. PICK f : f = [D_stack[k] EXCEPT !.buffer = Frame.buffer]
    OBVIOUS
  <1>8. /\ f \in D_Frames /\ f.dir = D_stack[k].dir /\ f.next = D_stack[k].next
        /\ f.buffer = Frame.buffer
    BY <1>3, <1>6, <1>7 DEF D_Frames
  <1>9. D_stack' = Append(Front(p), f)
    BY <1>5, <1>6, <1>7 DEF D_Return
  <1>10. Front(p) = SubSeq(p, 1, k - 1)
    BY <1>5 DEF Front
  <1>11. /\ Front(p) \in Seq(D_Frames) /\ Len(Front(p)) = k - 1
         /\ \A i \in 1..(k - 1) : Front(p)[i] = p[i]
    BY <1>5, <1>10
  <1>12. PICK r \in Seq(D_Frames) : r = Front(p) /\ Len(r) = k - 1
    BY <1>11
  <1>13. /\ D_stack' \in Seq(D_Frames) /\ Len(D_stack') = k /\ D_stack'[k] = f
         /\ \A i \in 1..(k - 1) : D_stack'[i] = D_stack[i]
    <2>1. /\ D_stack' \in Seq(D_Frames) /\ Len(D_stack') = (k - 1) + 1
          /\ D_stack'[(k - 1) + 1] = f
          /\ \A i \in 1..(k - 1) : D_stack'[i] = r[i]
      BY <1>8, <1>9, <1>12
    <2>2. (k - 1) + 1 = k
      OBVIOUS
    <2>3. \A i \in 1..(k - 1) : r[i] = D_stack[i]
      BY <1>3, <1>4, <1>5, <1>11, <1>12
    <2> QED
      BY <2>1, <2>2, <2>3
  <1>14. /\ Matching' = Matching /\ D_Frames' = D_Frames /\ D_tree' = D_tree
         /\ D_version' = D_version /\ D_out' = D_out
    BY <1>2, SameSearch DEF D_args
  <1>u. D_op' = D_op
    BY <1>2 DEF D_args
  <1>15. D_TypeOK'
    BY <1>1, <1>13, <1>14, <1>u DEF D_TypeOK
  <1>16. ToSet(D_stack[k].buffer) \subseteq ToSet(D_out) \union ToSet(Frame.buffer)
    <2>1. k \in 1..Len(D_stack) /\ k + 1 <= Len(D_stack)
      BY <1>3, <1>4
    <2>2. ToSet(D_stack[k].buffer) \subseteq ToSet(D_out) \union ToSet(D_stack[k + 1].buffer)
      BY <1>2, <2>1 DEF D_Inv, Shared
    <2> QED
      BY <1>3, <1>4, <2>2
  <1>17. Shared'
    <2> SUFFICES ASSUME NEW i \in 1..k, i + 1 <= k
                 PROVE  ToSet(D_stack'[i].buffer) \subseteq
                            ToSet(D_out) \union ToSet(D_stack'[i + 1].buffer)
      BY <1>13, <1>14 DEF Shared
    <2>1. i \in 1..(k - 1) /\ i \in 1..l /\ i + 1 <= l
      BY <1>4
    <2>2. ToSet(D_stack[i].buffer) \subseteq ToSet(D_out) \union ToSet(D_stack[i + 1].buffer)
      BY <1>2, <1>3, <2>1 DEF D_Inv, Shared
    <2>3. D_stack'[i] = D_stack[i]
      BY <1>13, <2>1
    <2>4. CASE i + 1 = k
      BY <1>8, <1>13, <1>16, <2>2, <2>3, <2>4
    <2>5. CASE i + 1 # k
      <3>1. D_stack'[i + 1] = D_stack[i + 1]
        BY <1>13, <2>5
      <3> QED
        BY <2>2, <2>3, <3>1
    <2> QED
      BY <2>4, <2>5
  <1>18. ASSUME NEW e \in Matching PROVE NotLost(e)'
    <2>1. NotLost(e)
      BY DEF D_Inv
    <2>2. CASE e \in ToSet(D_out)
      BY <1>14, <2>2 DEF NotLost
    <2>3. ASSUME NEW i \in 1..l, e \in ToSet(D_stack[i].buffer) \/ StillIn(D_tree, D_stack[i], e)
          PROVE  NotLost(e)'
      <3>0. k \in 1..Len(D_stack') /\ D_stack'[k].buffer = Frame.buffer
        BY <1>6, <1>8, <1>13
      <3>1. CASE i = l
        <4>1. e \in ToSet(Frame.buffer)
          BY <1>1, <1>2, <1>3, <2>3, <3>1, NothingLeft
        <4> QED
          BY <3>0, <4>1 DEF NotLost
      <3>2. CASE i = k
        <4>1. CASE e \in ToSet(D_stack[i].buffer)
          BY <1>14, <1>16, <3>0, <3>2, <4>1 DEF NotLost
        <4>2. CASE StillIn(D_tree, D_stack[i], e)
          <5>1. StillIn(D_tree, f, e)
            BY <1>8, <3>2, <4>2 DEF StillIn
          <5> QED
            BY <1>13, <1>14, <3>0, <5>1 DEF NotLost
        <4> QED
          BY <2>3, <4>1, <4>2
      <3>3. CASE i # l /\ i # k
        <4>1. i \in 1..Len(D_stack') /\ D_stack'[i] = D_stack[i]
          <5>1. i \in 1..k /\ i \in 1..(k - 1)
            BY <1>4, <3>3
          <5> QED
            BY <1>13, <5>1
        <4> QED
          BY <1>14, <2>3, <4>1 DEF NotLost
      <3> QED
        BY <3>1, <3>2, <3>3
    <2> QED
      BY <1>3, <2>1, <2>2, <2>3 DEF NotLost
  <1> QED
    BY <1>14, <1>15, <1>17, <1>18 DEF D_Inv

(* A process that ends leaves nothing, and its buffer is written.           *)
LEMMA ExitKeeps == ASSUME D_Inv, D_Exit PROVE D_Inv'
  <1>1. D_TypeOK /\ D_out \in Seq(Matching)
    BY DEF D_Inv, D_TypeOK
  <1>2. /\ D_stack # <<>> /\ AtEnd /\ (Len(D_stack) = 1 \/ D_version = "fork")
        /\ D_stack' = Front(D_stack) /\ D_out' = D_out \o Frame.buffer /\ UNCHANGED D_args
    BY DEF D_Exit, AtEnd
  <1>3. PICK l \in Nat \ {0} :
            /\ l = Len(D_stack) /\ Frame = D_stack[l]
            /\ Front(D_stack) \in Seq(D_Frames) /\ Len(Front(D_stack)) = l - 1
            /\ \A i \in 1..(l - 1) : Front(D_stack)[i] = D_stack[i]
    BY <1>1, <1>2, FrameIs
  <1>4. /\ Matching' = Matching /\ D_Frames' = D_Frames /\ D_tree' = D_tree
        /\ D_version' = D_version
    BY <1>2, SameSearch DEF D_args
  <1>5. Frame.buffer \in Seq(Matching)
    BY <1>1, <1>2, AdvancedIs
  <1>6. D_out' \in Seq(Matching) /\ ToSet(D_out') = ToSet(D_out) \union ToSet(Frame.buffer)
    BY <1>1, <1>2, <1>5, ElementsOf
  <1>7. D_TypeOK'
    BY <1>1, <1>2, <1>3, <1>4, <1>6 DEF D_TypeOK, D_args
  <1>8. Shared'
    <2> SUFFICES ASSUME D_version # "fork", NEW i \in 1..(l - 1), i + 1 <= l - 1 PROVE FALSE
      BY <1>2, <1>3, <1>4 DEF Shared
    <2>1. l = 1
      BY <1>2, <1>3
    <2> QED
      BY <2>1
  <1>9. ASSUME NEW e \in Matching PROVE NotLost(e)'
    <2>1. NotLost(e)
      BY DEF D_Inv
    <2>2. CASE e \in ToSet(D_out)
      BY <1>6, <2>2 DEF NotLost
    <2>3. ASSUME NEW i \in 1..l, e \in ToSet(D_stack[i].buffer) \/ StillIn(D_tree, D_stack[i], e)
          PROVE  NotLost(e)'
      <3>1. CASE i = l
        <4>1. e \in ToSet(Frame.buffer)
          BY <1>1, <1>2, <1>3, <2>3, <3>1, NothingLeft
        <4> QED
          BY <1>6, <4>1 DEF NotLost
      <3>2. CASE i # l
        <4>1. i \in 1..(l - 1)
          BY <3>2
        <4>2. i \in 1..Len(D_stack') /\ D_stack'[i] = D_stack[i]
          BY <1>2, <1>3, <4>1
        <4> QED
          BY <1>4, <2>3, <4>2 DEF NotLost
      <3> QED
        BY <3>1, <3>2
    <2> QED
      BY <1>3, <2>1, <2>2, <2>3 DEF NotLost
  <1> QED
    BY <1>4, <1>7, <1>8, <1>9 DEF D_Inv

(* In the beginning the whole tree is left.                                 *)
LEMMA InitKeeps == D_Init => D_Inv
  <1> SUFFICES ASSUME D_Init PROVE D_Inv
    OBVIOUS
  <1>1. PICK f : f = [dir |-> Root, next |-> 1, buffer |-> <<>>]
    OBVIOUS
  <1>2. /\ D_tree \in Trees /\ D_stack = <<f>> /\ D_out = <<>>
        /\ D_version \in {"call", "nftw", "fork"} /\ D_op \in {"<", ">", "="}
    BY <1>1 DEF D_Init
  <1>3. f.dir = Root /\ f.next = 1 /\ f \in D_Frames
    <2>1. Root \in Below(D_tree, Root)
      BY BelowIsClosed
    <2> QED
      BY <1>1, <2>1 DEF D_Frames
  <1>4. Len(D_stack) = 1 /\ D_stack[1] = f /\ D_stack \in Seq(D_Frames)
    BY <1>2, <1>3
  <1>5. D_TypeOK
    BY <1>2, <1>4 DEF D_TypeOK
  <1>6. Shared
    BY <1>4 DEF Shared
  <1>7. ASSUME NEW e \in Matching PROVE NotLost(e)
    <2>1. e[1] \in Below(D_tree, Root)
      BY MatchesAre
    <2>2. StillIn(D_tree, f, e)
      BY <1>2, <1>3, <2>1, NewFrame
    <2> QED
      BY <1>4, <2>2 DEF NotLost
  <1> QED
    BY <1>5, <1>6, <1>7 DEF D_Inv

(* Every step keeps the invariant.                                          *)
LEMMA NextDInv == D_Inv /\ [D_Next]_D_vars => D_Inv'
  <1> SUFFICES ASSUME D_Inv, [D_Next]_D_vars PROVE D_Inv'
    OBVIOUS
  <1>1. CASE D_Next
    BY <1>1, PrintKeeps, SkipKeeps, EnterKeeps, ReturnKeeps, ExitKeeps DEF D_Next
  <1>2. CASE UNCHANGED D_vars
    <2>1. UNCHANGED D_args /\ D_stack' = D_stack /\ D_out' = D_out /\ D_tree' = D_tree
          /\ D_version' = D_version
      BY <1>2 DEF D_vars, D_args
    <2>2. Matching' = Matching /\ D_Frames' = D_Frames
      BY <2>1, SameSearch
    <2>3. D_TypeOK'
      BY <2>1, <2>2 DEF D_Inv, D_TypeOK, D_args
    <2>4. Shared'
      BY <2>1 DEF D_Inv, Shared
    <2>5. \A e \in Matching : NotLost(e)'
      BY <2>1 DEF D_Inv, NotLost
    <2> QED
      BY <2>2, <2>3, <2>4, <2>5 DEF D_Inv
  <1> QED
    BY <1>1, <1>2

(* The invariant says that at the end every match was listed.               *)
LEMMA DInvImplies == D_Inv => EveryMatchListed
  <1> SUFFICES ASSUME D_Inv, D_stack = <<>> PROVE ToSet(D_out) = Matching
    BY DEF EveryMatchListed
  <1>1. D_out \in Seq(Matching)
    BY DEF D_Inv, D_TypeOK
  <1>2. ToSet(D_out) \subseteq Matching
    BY <1>1, ElementsOf
  <1>3. Len(D_stack) = 0
    OBVIOUS
  <1>4. \A e \in Matching : e \in ToSet(D_out)
    BY <1>3 DEF D_Inv, NotLost
  <1> QED
    BY <1>2, <1>4

(* For every tree that can be read, every day and every size of the buffer: *)
(* each of the three programs lists all files below its directory that were *)
(* modified on the asked side of the day, and nothing else: none is lost in *)
(* a buffer that calls share or that a forked process has a copy of         *)
(* (cw02/zad2a, cw02/zad2b, cw03/zad1).                                     *)
THEOREM SearchListsMatches == D_Spec => []EveryMatchListed
  <1>1. D_Spec => []D_Inv
    BY InitKeeps, NextDInv, PTL DEF D_Spec
  <1> QED
    BY <1>1, DInvImplies, PTL
=============================================================================
