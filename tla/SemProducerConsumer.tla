------------------------- MODULE SemProducerConsumer -------------------------
(****************************************************************************)
(* cw09/zad2: the program of cw09/zad1 with POSIX semaphores.  write_lock,  *)
(* read_lock and the buffer_lock of each cell are semaphores that start at  *)
(* 1; a thread whose cell is not as it needs it leaves the cell and waits   *)
(* for a token of someone_is_reading or someone_is_writing, which are       *)
(* posted once for every line taken and stored.  Tokens are counted, so     *)
(* they can be stale, and nobody owns a semaphore.                          *)
(*                                                                          *)
(* With NK, main does not just return: it cancels every thread, which then  *)
(* ends wherever it is (asynchronous cancellation), and joins them.  The    *)
(* steps are therefore split at every point where dying makes a difference: *)
(* a line can have been read and not stored, or looked at and not cleared.  *)
(****************************************************************************)
EXTENDS Integers, Sequences, FiniteSets

CONSTANTS Producers, Consumers, N, NLines, LineLength, L, search_mode, NKs

Threads == Producers \union Consumers
Cells   == 0..(N - 1)
Lines   == 1..NLines
NULL    == 0

ASSUME SemConstantsAssumption ==
    /\ Producers \intersect Consumers = {}
    /\ IsFiniteSet(Producers) /\ IsFiniteSet(Consumers)
    /\ N \in Nat \ {0} /\ NLines \in Nat
    /\ LineLength \in [1..NLines -> Nat]
    /\ L \in Nat /\ search_mode \in Nat /\ NKs \subseteq Nat

VARIABLES pc,
          main_pc,
          requested,           \* threads main has sent pthread_cancel to
          cancelled,           \* the ones among them that it has ended
          write_lock,          \* values of the semaphores
          read_lock,
          buffer_lock,
          someone_is_reading,
          someone_is_writing,
          global_buffer,
          writing_pos,
          reading_pos,
          line_buf,            \* the line a producer has read and not stored
          file_pos,            \* lines read from the file
          line_nr,             \* lines stored in a cell
          end_time,
          line_counter,
          consumed             \* history variable: lines looked at, in order

sems   == <<write_lock, read_lock, buffer_lock, someone_is_reading,
            someone_is_writing>>
ring   == <<global_buffer, writing_pos, reading_pos>>
file   == <<line_buf, file_pos, line_nr>>
result == <<line_counter, consumed>>
main   == <<main_pc, requested, cancelled>>
vars   == <<pc, main, sems, ring, file, end_time, result>>

(* main initialises someone_is_reading twice and someone_is_writing never:  *)
(* a static sem_t is all zeros, which is a semaphore with no token.         *)
Init ==
    /\ pc = [t \in Threads |-> IF t \in Producers THEN "P_lock_write"
                                                  ELSE "C_lock_read"]
    /\ main_pc \in {IF NK = 0 THEN "join_P" ELSE "sleep" : NK \in NKs}
    /\ requested = {} /\ cancelled = {}
    /\ write_lock = 1 /\ read_lock = 1
    /\ buffer_lock = [i \in Cells |-> 1]
    /\ someone_is_reading = 0 /\ someone_is_writing = 0
    /\ global_buffer = [i \in Cells |-> NULL]
    /\ writing_pos = 0 /\ reading_pos = 0
    /\ line_buf = [p \in Producers |-> NULL]
    /\ file_pos = 0 /\ line_nr = 0
    /\ end_time = 0 /\ line_counter = 0 /\ consumed = <<>>

-----------------------------------------------------------------------------
(* NK # 0: main sleeps, and cancels the threads when the time is over.      *)
Timed == main_pc \in {"sleep", "cancel", "join_all", "ended"}

Goto(t, from, to) ==
    /\ t \notin cancelled
    /\ pc[t] = from
    /\ pc' = [pc EXCEPT ![t] = to]

(* sem_wait and sem_post of a cell's semaphore.                             *)
WaitCell(i) == /\ buffer_lock[i] > 0
               /\ buffer_lock' = [buffer_lock EXCEPT ![i] = @ - 1]
PostCell(i) == buffer_lock' = [buffer_lock EXCEPT ![i] = @ + 1]

(* Frames: the steps that only use one semaphore.                           *)
OnlyCell  == UNCHANGED <<main, write_lock, read_lock, someone_is_reading,
                         someone_is_writing, ring, file, end_time, result>>
OnlyWrite == UNCHANGED <<main, read_lock, buffer_lock, someone_is_reading,
                         someone_is_writing, ring, file, end_time, result>>
OnlyRead  == UNCHANGED <<main, write_lock, buffer_lock, someone_is_reading,
                         someone_is_writing, ring, file, end_time, result>>
OnlyReading == UNCHANGED <<main, write_lock, read_lock, buffer_lock,
                           someone_is_writing, ring, file, end_time, result>>
OnlyWriting == UNCHANGED <<main, write_lock, read_lock, buffer_lock,
                           someone_is_reading, ring, file, end_time, result>>

NextPos(i) == (i + 1) % N

(* The three tests of C_start_routine on the length of line l.              *)
Found(l) ==
    \/ LineLength[l] < L /\ search_mode = 0
    \/ LineLength[l] = L /\ search_mode = 1
    \/ LineLength[l] > L /\ search_mode = 2

-----------------------------------------------------------------------------
(* P_start_routine                                                          *)

(* Seeded fault: sem_wait does not take the token of write_lock.            *)
P_LockWrite_KeepsToken(p) ==
    /\ Goto(p, "P_lock_write", "P_lock_cell")
    /\ write_lock > 0
    /\ UNCHANGED write_lock
    /\ OnlyWrite

P_LockWrite(p) ==
    /\ Goto(p, "P_lock_write", "P_lock_cell")
    /\ write_lock > 0
    /\ write_lock' = write_lock - 1
    /\ OnlyWrite

(* Before the first look at the cell and again after waiting.               *)
P_LockCell(p) ==
    /\ Goto(p, "P_lock_cell", "P_check")
    /\ WaitCell(writing_pos)
    /\ OnlyCell

(* The cell is full: leave it (and wait for a line to be taken).            *)
P_Full(p) ==
    /\ Goto(p, "P_check", "P_wait")
    /\ global_buffer[writing_pos] # NULL
    /\ PostCell(writing_pos)
    /\ OnlyCell

P_WaitReading(p) ==
    /\ Goto(p, "P_wait", "P_lock_cell")
    /\ someone_is_reading > 0
    /\ someone_is_reading' = someone_is_reading - 1
    /\ OnlyReading

P_GetLine(p) ==
    /\ Goto(p, "P_check", "P_store")
    /\ global_buffer[writing_pos] = NULL
    /\ file_pos < NLines
    /\ file_pos' = file_pos + 1
    /\ line_buf' = [line_buf EXCEPT ![p] = file_pos + 1]
    /\ UNCHANGED <<main, sems, ring, line_nr, end_time, result>>

P_Store(p) ==
    /\ Goto(p, "P_store", "P_post")
    /\ global_buffer' = [global_buffer EXCEPT ![writing_pos] = line_buf[p]]
    /\ line_nr' = line_nr + 1
    /\ UNCHANGED <<main, sems, writing_pos, reading_pos, line_buf, file_pos,
                   end_time, result>>

(* Seeded fault: the other semaphore is posted.                             *)
P_Post_Wrong(p) ==
    /\ Goto(p, "P_post", "P_unlock_cell")
    /\ someone_is_reading' = someone_is_reading + 1
    /\ OnlyReading

P_Post(p) ==
    /\ Goto(p, "P_post", "P_unlock_cell")
    /\ someone_is_writing' = someone_is_writing + 1
    /\ OnlyWriting

P_UnlockCell(p) ==
    /\ Goto(p, "P_unlock_cell", "P_advance")
    /\ PostCell(writing_pos)
    /\ OnlyCell

P_Advance(p) ==
    /\ Goto(p, "P_advance", "P_lock_write")
    /\ writing_pos' = NextPos(writing_pos)
    /\ write_lock' = write_lock + 1
    /\ UNCHANGED <<main, read_lock, buffer_lock, someone_is_reading,
                   someone_is_writing, global_buffer, reading_pos, file,
                   end_time, result>>

P_Eof(p) ==
    /\ Goto(p, "P_check", "P_eof_post")
    /\ global_buffer[writing_pos] = NULL
    /\ file_pos = NLines
    /\ UNCHANGED <<main, sems, ring, file, end_time, result>>

(* The last token of a producer comes before it sets end_time.              *)
P_EofPost(p) ==
    /\ Goto(p, "P_eof_post", "P_eof_unlock_cell")
    /\ someone_is_writing' = someone_is_writing + 1
    /\ OnlyWriting

P_EofUnlockCell(p) ==
    /\ Goto(p, "P_eof_unlock_cell", "P_eof_unlock_write")
    /\ PostCell(writing_pos)
    /\ OnlyCell

P_EofUnlockWrite(p) ==
    /\ Goto(p, "P_eof_unlock_write", "P_set_end")
    /\ write_lock' = write_lock + 1
    /\ OnlyWrite

P_SetEnd(p) ==
    /\ Goto(p, "P_set_end", "done")
    /\ end_time' = IF Timed THEN end_time ELSE 1
    /\ UNCHANGED <<main, sems, ring, file, result>>

-----------------------------------------------------------------------------
(* C_start_routine                                                          *)

C_LockRead(c) ==
    /\ Goto(c, "C_lock_read", "C_lock_cell")
    /\ read_lock > 0
    /\ read_lock' = read_lock - 1
    /\ OnlyRead

C_LockCell(c) ==
    /\ Goto(c, "C_lock_cell", "C_check")
    /\ WaitCell(reading_pos)
    /\ OnlyCell

C_Empty(c) ==
    /\ Goto(c, "C_check", "C_test_end")
    /\ global_buffer[reading_pos] = NULL
    /\ UNCHANGED <<main, sems, ring, file, end_time, result>>

C_MoreToCome(c) ==
    /\ Goto(c, "C_test_end", "C_leave")
    /\ end_time = 0
    /\ UNCHANGED <<main, sems, ring, file, end_time, result>>

C_Leave(c) ==
    /\ Goto(c, "C_leave", "C_wait")
    /\ PostCell(reading_pos)
    /\ OnlyCell

C_WaitWriting(c) ==
    /\ Goto(c, "C_wait", "C_lock_cell")
    /\ someone_is_writing > 0
    /\ someone_is_writing' = someone_is_writing - 1
    /\ OnlyWriting

C_NotEmpty(c) ==
    /\ Goto(c, "C_check", "C_look")
    /\ global_buffer[reading_pos] # NULL
    /\ UNCHANGED <<main, sems, ring, file, end_time, result>>

(* Look at the line and count it if it matches.                             *)
C_Look(c) ==
    /\ Goto(c, "C_look", "C_clear")
    /\ line_counter' = IF Found(global_buffer[reading_pos]) THEN line_counter + 1
                                                            ELSE line_counter
    /\ consumed' = Append(consumed, global_buffer[reading_pos])
    /\ UNCHANGED <<main, sems, ring, file, end_time>>

(* Seeded fault: the cell is not emptied.                                   *)
C_Clear_Leaves(c) ==
    /\ Goto(c, "C_clear", "C_post")
    /\ UNCHANGED <<main, sems, ring, file, end_time, result>>

C_Clear(c) ==
    /\ Goto(c, "C_clear", "C_post")
    /\ global_buffer' = [global_buffer EXCEPT ![reading_pos] = NULL]
    /\ UNCHANGED <<main, sems, writing_pos, reading_pos, file, end_time, result>>

C_Post(c) ==
    /\ Goto(c, "C_post", "C_unlock_cell")
    /\ someone_is_reading' = someone_is_reading + 1
    /\ OnlyReading

C_UnlockCell(c) ==
    /\ Goto(c, "C_unlock_cell", "C_advance")
    /\ PostCell(reading_pos)
    /\ OnlyCell

C_Advance(c) ==
    /\ Goto(c, "C_advance", "C_lock_read")
    /\ reading_pos' = NextPos(reading_pos)
    /\ read_lock' = read_lock + 1
    /\ UNCHANGED <<main, write_lock, buffer_lock, someone_is_reading,
                   someone_is_writing, global_buffer, writing_pos, file,
                   end_time, result>>

C_End(c) ==
    /\ Goto(c, "C_test_end", "C_end_unlock_cell")
    /\ end_time # 0
    /\ UNCHANGED <<main, sems, ring, file, end_time, result>>

C_EndUnlockCell(c) ==
    /\ Goto(c, "C_end_unlock_cell", "C_end_unlock_read")
    /\ PostCell(reading_pos)
    /\ OnlyCell

C_EndUnlockRead(c) ==
    /\ Goto(c, "C_end_unlock_read", "done")
    /\ read_lock' = read_lock + 1
    /\ OnlyRead

-----------------------------------------------------------------------------
(* main, once the threads exist.                                            *)

M_JoinProducers ==
    /\ main_pc = "join_P"
    /\ \A p \in Producers : pc[p] = "done"
    /\ main_pc' = "join_C"
    /\ UNCHANGED <<pc, requested, cancelled, sems, ring, file, end_time, result>>

M_JoinConsumers ==
    /\ main_pc = "join_C"
    /\ \A c \in Consumers : pc[c] = "done"
    /\ main_pc' = "done"
    /\ UNCHANGED <<pc, requested, cancelled, sems, ring, file, end_time, result>>

M_TimeIsOver ==
    /\ main_pc = "sleep"
    /\ main_pc' = "cancel"
    /\ UNCHANGED <<pc, requested, cancelled, sems, ring, file, end_time, result>>

(* pthread_cancel, for the producers first, then for the consumers, each in *)
(* the order of their array.                                                *)
M_Cancel ==
    LET left == IF Producers \subseteq requested THEN Consumers ELSE Producers IN
    /\ main_pc = "cancel"
    /\ requested' = requested \union {CHOOSE t \in left : t \notin requested}
    /\ main_pc' = IF requested' = Threads THEN "join_all" ELSE "cancel"
    /\ UNCHANGED <<pc, cancelled, sems, ring, file, end_time, result>>

(* The cancellation takes effect: the thread ends where it is, with all the *)
(* tokens it holds.                                                         *)
Die(t) ==
    /\ t \in requested \ cancelled
    /\ pc[t] # "done"
    /\ cancelled' = cancelled \union {t}
    /\ UNCHANGED <<pc, main_pc, requested, sems, ring, file, end_time, result>>

M_JoinAll ==
    /\ main_pc = "join_all"
    /\ \A t \in Threads : pc[t] = "done" \/ t \in cancelled
    /\ main_pc' = "ended"
    /\ UNCHANGED <<pc, requested, cancelled, sems, ring, file, end_time, result>>

P_Step(p) ==
    \/ P_LockWrite(p)      \/ P_LockCell(p)       \/ P_Full(p)
    \/ P_WaitReading(p)    \/ P_GetLine(p)        \/ P_Store(p)
    \/ P_Post(p)           \/ P_UnlockCell(p)     \/ P_Advance(p)
    \/ P_Eof(p)            \/ P_EofPost(p)        \/ P_EofUnlockCell(p)
    \/ P_EofUnlockWrite(p) \/ P_SetEnd(p)

C_Step(c) ==
    \/ C_LockRead(c)       \/ C_LockCell(c)       \/ C_Empty(c)
    \/ C_MoreToCome(c)     \/ C_Leave(c)          \/ C_WaitWriting(c)
    \/ C_NotEmpty(c)       \/ C_Look(c)           \/ C_Clear(c)
    \/ C_Post(c)           \/ C_UnlockCell(c)     \/ C_Advance(c)
    \/ C_End(c)            \/ C_EndUnlockCell(c)  \/ C_EndUnlockRead(c)

Main ==
    \/ M_JoinProducers \/ M_JoinConsumers
    \/ M_TimeIsOver    \/ M_Cancel      \/ M_JoinAll

Next ==
    \/ Main
    \/ \E p \in Producers : P_Step(p)
    \/ \E c \in Consumers : C_Step(c)
    \/ \E t \in Threads : Die(t)

Spec == Init /\ [][Next]_vars

(* Every thread that can run does, main's sleep ends and a cancellation is  *)
(* delivered.  Getting a semaphore that others keep taking is not promised. *)
FairSpec ==
    /\ Spec
    /\ WF_vars(Main)
    /\ \A p \in Producers : WF_vars(P_Step(p))
    /\ \A c \in Consumers : WF_vars(C_Step(c))
    /\ WF_vars(\E t \in Threads : Die(t))

-----------------------------------------------------------------------------
(* Properties                                                               *)

P_Places == {"P_lock_write", "P_lock_cell", "P_check", "P_wait", "P_store", "P_post",
             "P_unlock_cell", "P_advance", "P_eof_post", "P_eof_unlock_cell",
             "P_eof_unlock_write", "P_set_end", "done"}
C_Places == {"C_lock_read", "C_lock_cell", "C_check", "C_test_end", "C_leave",
             "C_wait", "C_look", "C_clear", "C_post", "C_unlock_cell", "C_advance",
             "C_end_unlock_cell", "C_end_unlock_read", "done"}

P_HoldsWrite == P_Places \ {"P_lock_write", "P_set_end", "done"}
C_HoldsRead  == C_Places \ {"C_lock_read", "done"}
P_HoldsCell  == {"P_check", "P_store", "P_post", "P_unlock_cell", "P_eof_post",
                 "P_eof_unlock_cell"}
C_HoldsCell  == {"C_check", "C_test_end", "C_leave", "C_look", "C_clear", "C_post",
                 "C_unlock_cell", "C_end_unlock_cell"}

P_AfterStore == {"P_post", "P_unlock_cell", "P_advance"}
C_AfterLook  == {"C_clear", "C_post", "C_unlock_cell", "C_advance"}

(* The state is of the expected shape: both positions stay inside the ring, *)
(* cells hold lines of the file, semaphores never get below zero.           *)
TypeOK ==
    /\ pc \in [Threads -> P_Places \union C_Places]
    /\ \A p \in Producers : pc[p] \in P_Places
    /\ \A c \in Consumers : pc[c] \in C_Places
    /\ write_lock \in Nat /\ read_lock \in Nat
    /\ buffer_lock \in [Cells -> Nat]
    /\ someone_is_reading \in Nat /\ someone_is_writing \in Nat
    /\ global_buffer \in [Cells -> 0..NLines]
    /\ writing_pos \in Cells /\ reading_pos \in Cells
    /\ line_buf \in [Producers -> 0..NLines]
    /\ file_pos \in 0..NLines /\ line_nr \in 0..NLines
    /\ end_time \in {0, 1} /\ line_counter \in Nat
    /\ consumed \in Seq(Lines)

(* Tokens are conserved, also by the threads that were cancelled while they *)
(* held one: every lock is free or has one holder, so that at most one      *)
(* producer is near writing_pos, one consumer near reading_pos and one      *)
(* thread in each cell.                                                     *)
LockTokens ==
    /\ write_lock + Cardinality({p \in Producers : pc[p] \in P_HoldsWrite}) = 1
    /\ read_lock + Cardinality({c \in Consumers : pc[c] \in C_HoldsRead}) = 1
    /\ \A i \in Cells :
          buffer_lock[i]
            + Cardinality({p \in Producers : pc[p] \in P_HoldsCell /\ i = writing_pos})
            + Cardinality({c \in Consumers : pc[c] \in C_HoldsCell /\ i = reading_pos})
          = 1

(* The same promise as with mutexes and condition variables, also for a run *)
(* cut off by cancellations: lines are looked at once each and in order.    *)
(* A line leaves the queue when it is looked at, a little before its cell   *)
(* is cleared.                                                              *)
RingAsQueue == [i \in 1..(line_nr - Len(consumed)) |->
                   global_buffer[(Len(consumed) + i - 1) % N]]

LQ == INSTANCE LineQueue WITH Capacity <- N, NLines <- NLines,
          Matching <- {l \in Lines : Found(l)}, read <- line_nr,
          queue <- RingAsQueue, consumed <- consumed, found <- line_counter

(* The threads together are the queue of lines of LineQueue.                *)
ImplementsLineQueue == LQ!LQSpec

(* Why they hold.  The token of a lock is with at most one thread, between  *)
(* taking and releasing it (WriteToken, ReadToken, CellTokens).  The line a *)
(* producer has read is the next one to be stored, and its cell is empty    *)
(* (LineInHand).  The lines stored and not yet cleared are a window of the  *)
(* file of at most N lines, in the cells their numbers stand for (Window);  *)
(* it includes the line that was looked at and is about to be cleared.  The *)
(* positions follow the two ends of the window (WritingPos, ReadingPos).    *)
WriteToken ==
    /\ write_lock \in {0, 1}
    /\ \A p \in Producers : pc[p] \in P_HoldsWrite => write_lock = 0
    /\ write_lock = 0 => \E p \in Producers : pc[p] \in P_HoldsWrite
    /\ \A p, q \in Producers : pc[p] \in P_HoldsWrite /\ pc[q] \in P_HoldsWrite => p = q

ReadToken ==
    /\ read_lock \in {0, 1}
    /\ \A c \in Consumers : pc[c] \in C_HoldsRead => read_lock = 0
    /\ read_lock = 0 => \E c \in Consumers : pc[c] \in C_HoldsRead
    /\ \A c, d \in Consumers : pc[c] \in C_HoldsRead /\ pc[d] \in C_HoldsRead => c = d

CellTokens ==
    /\ \A i \in Cells : buffer_lock[i] \in {0, 1}
    /\ \A p \in Producers : pc[p] \in P_HoldsCell => buffer_lock[writing_pos] = 0
    /\ \A c \in Consumers : pc[c] \in C_HoldsCell => buffer_lock[reading_pos] = 0
    /\ \A i \in Cells : buffer_lock[i] = 0 =>
          \/ i = writing_pos /\ \E p \in Producers : pc[p] \in P_HoldsCell
          \/ i = reading_pos /\ \E c \in Consumers : pc[c] \in C_HoldsCell
    /\ \A p \in Producers, c \in Consumers :
          pc[p] \in P_HoldsCell /\ pc[c] \in C_HoldsCell => writing_pos # reading_pos

LineInHand ==
    /\ \A p \in Producers : pc[p] = "P_store" =>
          /\ line_buf[p] = line_nr + 1 /\ file_pos = line_nr + 1
          /\ global_buffer[writing_pos] = NULL
    /\ (\A p \in Producers : pc[p] # "P_store") => file_pos = line_nr
    /\ \A c \in Consumers : pc[c] = "C_look" => global_buffer[reading_pos] # NULL

(* The lines that have left their cells.                                    *)
Cleared == IF \E c \in Consumers : pc[c] = "C_clear" THEN Len(consumed) - 1 ELSE Len(consumed)

Window ==
    /\ Cleared \in Nat /\ Len(consumed) <= line_nr /\ line_nr <= Cleared + N
    /\ \A l \in Cleared + 1 .. line_nr : global_buffer[(l - 1) % N] = l
    /\ \A i \in Cells : global_buffer[i] # NULL =>
          /\ global_buffer[i] \in Cleared + 1 .. line_nr
          /\ i = (global_buffer[i] - 1) % N

WritingPos ==
    /\ (\A p \in Producers : pc[p] \notin P_AfterStore) => writing_pos = line_nr % N
    /\ (\E p \in Producers : pc[p] \in P_AfterStore) =>
          line_nr > 0 /\ writing_pos = (line_nr - 1) % N

ReadingPos ==
    /\ (\A c \in Consumers : pc[c] \notin C_AfterLook) =>
          reading_pos = Len(consumed) % N
    /\ (\E c \in Consumers : pc[c] \in C_AfterLook) =>
          Len(consumed) > 0 /\ reading_pos = (Len(consumed) - 1) % N

ConsumedInOrder == \A i \in 1..Len(consumed) : consumed[i] = i

IInv ==
    /\ TypeOK     /\ WriteToken /\ ReadToken  /\ CellTokens
    /\ LineInHand /\ Window     /\ WritingPos /\ ReadingPos /\ ConsumedInOrder

(* A timed run ends: wherever the cancellations meet the threads, main's    *)
(* joins return.  Without NK every line is read and looked at, the producers *)
(* end, and so do the consumers, unless one of them is on its way to wait   *)
(* when no token is left: a single token is enough for all of them.         *)
RunCompletes ==
    <>(IF Timed THEN main_pc = "ended"
       ELSE /\ Len(consumed) = NLines
            /\ \A p \in Producers : pc[p] = "done"
            /\ \/ \A c \in Consumers : pc[c] = "done"
               \/ /\ someone_is_writing = 0
                  /\ \E c \in Consumers : pc[c] \in {"C_leave", "C_wait"})
=============================================================================
