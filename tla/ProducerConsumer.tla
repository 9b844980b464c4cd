-------------------------- MODULE ProducerConsumer --------------------------
(****************************************************************************)
(* cw09/zad1: P producer threads read a file line by line into a ring of N  *)
(* cells, K consumer threads look for lines of a given length.  write_lock  *)
(* lets one producer at a time near writing_pos, read_lock one consumer     *)
(* near reading_pos; each cell has a mutex of its own, and two condition    *)
(* variables tell producers that a cell was emptied (someone_is_reading)    *)
(* and consumers that one was filled (someone_is_writing).                  *)
(*                                                                          *)
(* A step of the model is the code between two points where another thread  *)
(* can see or influence something: a lock taken or released, the test of a  *)
(* cell, the test of end_time, a broadcast, the wait of a condition         *)
(* variable.  The steps are named after the threads' functions: P_... for   *)
(* P_start_routine, C_... for C_start_routine.                              *)
(****************************************************************************)
EXTENDS Integers, Sequences, FiniteSets

CONSTANTS Producers, Consumers,  \* the P and the K threads
          NoThread,              \* owner of a mutex that is free
          N,                     \* cells of the ring
          NLines,                \* lines of the file
          LineLength,            \* strlen of each line, newline included
          L, search_mode,        \* what to look for: < L (0), = L (1), > L (2)
          NKs,                   \* NK of the options: seconds to run, 0: to the end of the file
          SpuriousWakeups        \* may pthread_cond_wait return unprovoked?

Threads == Producers \union Consumers
Cells   == 0..(N - 1)
Lines   == 1..NLines
NULL    == 0                     \* content of an empty cell

ASSUME ConstantsAssumption ==
    /\ Producers \intersect Consumers = {}
    /\ NoThread \notin Producers \union Consumers
    /\ N \in Nat \ {0}
    /\ NLines \in Nat
    /\ LineLength \in [1..NLines -> Nat]
    /\ L \in Nat /\ search_mode \in Nat /\ NKs \subseteq Nat
    /\ SpuriousWakeups \in BOOLEAN

VARIABLES pc,             \* where each thread is
          main_pc,        \* where main is
          write_lock,     \* owner of each mutex, or NoThread
          read_lock,
          buffer_lock,
          global_buffer,  \* cell -> number of the line in it, or NULL
          writing_pos,
          reading_pos,
          line_nr,        \* lines read so far: also the position in the file
          end_time,
          line_counter,
          consumed        \* history variable: lines looked at, in that order

locks  == <<write_lock, read_lock, buffer_lock>>
ring   == <<global_buffer, writing_pos, reading_pos, line_nr>>
result == <<line_counter, consumed>>
vars   == <<pc, main_pc, locks, ring, end_time, result>>

Init ==
    /\ pc = [t \in Threads |-> IF t \in Producers THEN "P_lock_write"
                                                  ELSE "C_lock_read"]
    /\ main_pc \in {IF NK = 0 THEN "join_P" ELSE "sleep" : NK \in NKs}
    /\ write_lock = NoThread /\ read_lock = NoThread
    /\ buffer_lock = [i \in Cells |-> NoThread]
    /\ global_buffer = [i \in Cells |-> NULL]
    /\ writing_pos = 0 /\ reading_pos = 0
    /\ line_nr = 0 /\ end_time = 0
    /\ line_counter = 0 /\ consumed = <<>>

-----------------------------------------------------------------------------
(* Building blocks of the threads' steps.                                   *)

(* NK # 0: main sleeps instead of joining threads.                          *)
Timed == main_pc \in {"sleep", "exited"}

(* Thread t runs from one point of its function to another; returning from  *)
(* main (NK seconds are over) ends every thread where it is.                *)
Goto(t, from, to) ==
    /\ main_pc # "exited"
    /\ pc[t] = from
    /\ pc' = [pc EXCEPT ![t] = to]

(* Pthread mutexes of the cells: taken when free, released by the owner.    *)
LockCell(t, i)   == /\ buffer_lock[i] = NoThread
                    /\ buffer_lock' = [buffer_lock EXCEPT ![i] = t]
UnlockCell(i)    == buffer_lock' = [buffer_lock EXCEPT ![i] = NoThread]

(* pthread_cond_broadcast: every thread waiting at "from" goes on to lock   *)
(* its mutex again.                                                         *)
Broadcast(t, at, to, from, relock) ==
    /\ main_pc # "exited"
    /\ pc[t] = at
    /\ pc' = [u \in Threads |-> IF u = t THEN to
                                ELSE IF pc[u] = from THEN relock ELSE pc[u]]

(* Next cell of the ring.                                                   *)
NextPos(i) == (i + 1) % N

(* The three tests of C_start_routine on the length of line l.              *)
Found(l) ==
    \/ LineLength[l] < L /\ search_mode = 0
    \/ LineLength[l] = L /\ search_mode = 1
    \/ LineLength[l] > L /\ search_mode = 2

-----------------------------------------------------------------------------
(* P_start_routine                                                          *)

P_LockWrite(p) ==
    /\ Goto(p, "P_lock_write", "P_lock_cell")
    /\ write_lock = NoThread
    /\ write_lock' = p
    /\ UNCHANGED <<main_pc, read_lock, buffer_lock, ring, end_time, result>>

P_LockCell(p) ==
    /\ Goto(p, "P_lock_cell", "P_check")
    /\ LockCell(p, writing_pos)
    /\ UNCHANGED <<main_pc, write_lock, read_lock, ring, end_time, result>>

(* The cell is still full: pthread_cond_wait releases its mutex and waits.  *)
P_Full(p) ==
    /\ Goto(p, "P_check", "P_wait")
    /\ global_buffer[writing_pos] # NULL
    /\ UnlockCell(writing_pos)
    /\ UNCHANGED <<main_pc, write_lock, read_lock, ring, end_time, result>>

(* pthread_cond_wait returns with the mutex.                                *)
P_Relock(p) ==
    /\ Goto(p, "P_relock", "P_check")
    /\ LockCell(p, writing_pos)
    /\ UNCHANGED <<main_pc, write_lock, read_lock, ring, end_time, result>>

(* Seeded fault: the cell is filled without waiting until it is empty.       *)
P_ReadLine_Unchecked(p) ==
    /\ Goto(p, "P_check", "P_broadcast")
    /\ line_nr < NLines
    /\ global_buffer' = [global_buffer EXCEPT ![writing_pos] = line_nr + 1]
    /\ line_nr' = line_nr + 1
    /\ UNCHANGED <<main_pc, locks, writing_pos, reading_pos, end_time, result>>

(* getline returns the next line of the file, which goes into the cell.     *)
P_ReadLine(p) ==
    /\ Goto(p, "P_check", "P_broadcast")
    /\ global_buffer[writing_pos] = NULL
    /\ line_nr < NLines
    /\ global_buffer' = [global_buffer EXCEPT ![writing_pos] = line_nr + 1]
    /\ line_nr' = line_nr + 1
    /\ UNCHANGED <<main_pc, locks, writing_pos, reading_pos, end_time, result>>

(* getline returns -1.                                                      *)
P_Eof(p) ==
    /\ Goto(p, "P_check", "P_eof_broadcast")
    /\ global_buffer[writing_pos] = NULL
    /\ line_nr = NLines
    /\ UNCHANGED <<main_pc, locks, ring, end_time, result>>

(* Seeded fault: the producer broadcasts the condition of the producers.     *)
P_Broadcast_WrongCondition(p) ==
    /\ Broadcast(p, "P_broadcast", "P_unlock_cell", "P_wait", "P_relock")
    /\ UNCHANGED <<main_pc, locks, ring, end_time, result>>

P_Broadcast(p) ==
    /\ Broadcast(p, "P_broadcast", "P_unlock_cell", "C_wait", "C_relock")
    /\ UNCHANGED <<main_pc, locks, ring, end_time, result>>

P_UnlockCell(p) ==
    /\ Goto(p, "P_unlock_cell", "P_advance")
    /\ UnlockCell(writing_pos)
    /\ UNCHANGED <<main_pc, write_lock, read_lock, ring, end_time, result>>

(* writing_pos is only used under write_lock: its update and the unlock     *)
(* are one step.                                                            *)
P_Advance(p) ==
    /\ Goto(p, "P_advance", "P_lock_write")
    /\ writing_pos' = NextPos(writing_pos)
    /\ write_lock' = NoThread
    /\ UNCHANGED <<main_pc, read_lock, buffer_lock, global_buffer, reading_pos,
                   line_nr, end_time, result>>

(* The last broadcast of a producer comes before it sets end_time.          *)
P_EofBroadcast(p) ==
    /\ Broadcast(p, "P_eof_broadcast", "P_eof_unlock_cell", "C_wait", "C_relock")
    /\ UNCHANGED <<main_pc, locks, ring, end_time, result>>

P_EofUnlockCell(p) ==
    /\ Goto(p, "P_eof_unlock_cell", "P_eof_unlock_write")
    /\ UnlockCell(writing_pos)
    /\ UNCHANGED <<main_pc, write_lock, read_lock, ring, end_time, result>>

P_EofUnlockWrite(p) ==
    /\ Goto(p, "P_eof_unlock_write", "P_set_end")
    /\ write_lock' = NoThread
    /\ UNCHANGED <<main_pc, read_lock, buffer_lock, ring, end_time, result>>

P_SetEnd(p) ==
    /\ Goto(p, "P_set_end", "done")
    /\ end_time' = IF Timed THEN end_time ELSE 1
    /\ UNCHANGED <<main_pc, locks, ring, result>>

-----------------------------------------------------------------------------
(* C_start_routine                                                          *)

C_LockRead(c) ==
    /\ Goto(c, "C_lock_read", "C_lock_cell")
    /\ read_lock = NoThread
    /\ read_lock' = c
    /\ UNCHANGED <<main_pc, write_lock, buffer_lock, ring, end_time, result>>

C_LockCell(c) ==
    /\ Goto(c, "C_lock_cell", "C_check")
    /\ LockCell(c, reading_pos)
    /\ UNCHANGED <<main_pc, write_lock, read_lock, ring, end_time, result>>

(* The cell is empty; end_time is looked at in a step of its own.           *)
C_Empty(c) ==
    /\ Goto(c, "C_check", "C_test_end")
    /\ global_buffer[reading_pos] = NULL
    /\ UNCHANGED <<main_pc, locks, ring, end_time, result>>

C_MoreToCome(c) ==
    /\ Goto(c, "C_test_end", "C_cond_wait")
    /\ end_time = 0
    /\ UNCHANGED <<main_pc, locks, ring, end_time, result>>

C_Wait(c) ==
    /\ Goto(c, "C_cond_wait", "C_wait")
    /\ UnlockCell(reading_pos)
    /\ UNCHANGED <<main_pc, write_lock, read_lock, ring, end_time, result>>

C_Relock(c) ==
    /\ Goto(c, "C_relock", "C_check")
    /\ LockCell(c, reading_pos)
    /\ UNCHANGED <<main_pc, write_lock, read_lock, ring, end_time, result>>

(* Seeded fault: the line is taken without a broadcast.                      *)
C_TakeLine_Silent(c) ==
    /\ Goto(c, "C_check", "C_unlock_cell")
    /\ global_buffer[reading_pos] # NULL
    /\ line_counter' = IF Found(global_buffer[reading_pos]) THEN line_counter + 1
                                                            ELSE line_counter
    /\ consumed' = Append(consumed, global_buffer[reading_pos])
    /\ global_buffer' = [global_buffer EXCEPT ![reading_pos] = NULL]
    /\ UNCHANGED <<main_pc, locks, writing_pos, reading_pos, line_nr, end_time>>

(* Look at the line, count it if it matches, empty the cell.                *)
C_TakeLine(c) ==
    /\ Goto(c, "C_check", "C_broadcast")
    /\ global_buffer[reading_pos] # NULL
    /\ line_counter' = IF Found(global_buffer[reading_pos]) THEN line_counter + 1
                                                            ELSE line_counter
    /\ consumed' = Append(consumed, global_buffer[reading_pos])
    /\ global_buffer' = [global_buffer EXCEPT ![reading_pos] = NULL]
    /\ UNCHANGED <<main_pc, locks, writing_pos, reading_pos, line_nr, end_time>>

C_Broadcast(c) ==
    /\ Broadcast(c, "C_broadcast", "C_unlock_cell", "P_wait", "P_relock")
    /\ UNCHANGED <<main_pc, locks, ring, end_time, result>>

C_UnlockCell(c) ==
    /\ Goto(c, "C_unlock_cell", "C_advance")
    /\ UnlockCell(reading_pos)
    /\ UNCHANGED <<main_pc, write_lock, read_lock, ring, end_time, result>>

C_Advance(c) ==
    /\ Goto(c, "C_advance", "C_lock_read")
    /\ reading_pos' = NextPos(reading_pos)
    /\ read_lock' = NoThread
    /\ UNCHANGED <<main_pc, write_lock, buffer_lock, global_buffer, writing_pos,
                   line_nr, end_time, result>>

(* Seeded fault: end_time is looked at before the cell, not after.           *)
C_End_TestedFirst(c) ==
    /\ Goto(c, "C_check", "C_end_unlock_cell")
    /\ end_time # 0
    /\ UNCHANGED <<main_pc, locks, ring, end_time, result>>

C_End(c) ==
    /\ Goto(c, "C_test_end", "C_end_unlock_cell")
    /\ end_time # 0
    /\ UNCHANGED <<main_pc, locks, ring, end_time, result>>

C_EndUnlockCell(c) ==
    /\ Goto(c, "C_end_unlock_cell", "C_end_unlock_read")
    /\ UnlockCell(reading_pos)
    /\ UNCHANGED <<main_pc, write_lock, read_lock, ring, end_time, result>>

C_EndUnlockRead(c) ==
    /\ Goto(c, "C_end_unlock_read", "done")
    /\ read_lock' = NoThread
    /\ UNCHANGED <<main_pc, write_lock, buffer_lock, ring, end_time, result>>

-----------------------------------------------------------------------------
(* main, once the threads exist, and the freedom of pthread_cond_wait.      *)

M_JoinProducers ==
    /\ main_pc = "join_P"
    /\ \A p \in Producers : pc[p] = "done"
    /\ main_pc' = "join_C"
    /\ UNCHANGED <<pc, locks, ring, end_time, result>>

M_JoinConsumers ==
    /\ main_pc = "join_C"
    /\ \A c \in Consumers : pc[c] = "done"
    /\ main_pc' = "done"
    /\ UNCHANGED <<pc, locks, ring, end_time, result>>

(* With NK main sleeps, then returns: the process ends wherever it is.      *)
M_TimeIsOver ==
    /\ main_pc = "sleep"
    /\ main_pc' = "exited"
    /\ UNCHANGED <<pc, locks, ring, end_time, result>>

SpuriousWakeup(t) ==
    /\ SpuriousWakeups
    /\ \/ Goto(t, "P_wait", "P_relock")
       \/ Goto(t, "C_wait", "C_relock")
    /\ UNCHANGED <<main_pc, locks, ring, end_time, result>>

P_Step(p) ==
    \/ P_LockWrite(p)      \/ P_LockCell(p)       \/ P_Full(p)
    \/ P_Relock(p)         \/ P_ReadLine(p)       \/ P_Broadcast(p)
    \/ P_UnlockCell(p)     \/ P_Advance(p)        \/ P_Eof(p)
    \/ P_EofBroadcast(p)   \/ P_EofUnlockCell(p)  \/ P_EofUnlockWrite(p)
    \/ P_SetEnd(p)

C_Step(c) ==
    \/ C_LockRead(c)       \/ C_LockCell(c)       \/ C_Empty(c)
    \/ C_MoreToCome(c)     \/ C_Wait(c)           \/ C_Relock(c)
    \/ C_TakeLine(c)       \/ C_Broadcast(c)      \/ C_UnlockCell(c)
    \/ C_Advance(c)        \/ C_End(c)            \/ C_EndUnlockCell(c)
    \/ C_EndUnlockRead(c)

Main == M_JoinProducers \/ M_JoinConsumers \/ M_TimeIsOver

Next ==
    \/ Main
    \/ \E p \in Producers : P_Step(p)
    \/ \E c \in Consumers : C_Step(c)
    \/ \E t \in Threads : SpuriousWakeup(t)

Spec == Init /\ [][Next]_vars

(* The scheduler runs every thread that can run: main and each thread are   *)
(* fair.  A thread that waits for a mutex is not promised that it gets it   *)
(* while others keep taking it, nor that it ever wakes up spuriously; but   *)
(* spurious wakeups are exceptions and do not go on for ever.               *)
FairSpec ==
    /\ Spec
    /\ WF_vars(Main)
    /\ \A p \in Producers : WF_vars(P_Step(p))
    /\ \A c \in Consumers : WF_vars(C_Step(c))
    /\ <>[][\A t \in Threads : ~ SpuriousWakeup(t)]_vars

-----------------------------------------------------------------------------
(* Properties                                                               *)

P_Places == {"P_lock_write", "P_lock_cell", "P_check", "P_wait", "P_relock",
             "P_broadcast", "P_unlock_cell", "P_advance", "P_eof_broadcast",
             "P_eof_unlock_cell", "P_eof_unlock_write", "P_set_end", "done"}
C_Places == {"C_lock_read", "C_lock_cell", "C_check", "C_test_end",
             "C_cond_wait", "C_wait", "C_relock", "C_broadcast",
             "C_unlock_cell", "C_advance", "C_end_unlock_cell",
             "C_end_unlock_read", "done"}

(* The state is of the expected shape: in particular both positions stay    *)
(* inside the ring and cells only ever hold lines of the file.              *)
TypeOK ==
    /\ pc \in [Threads -> P_Places \union C_Places]
    /\ \A p \in Producers : pc[p] \in P_Places
    /\ \A c \in Consumers : pc[c] \in C_Places
    /\ main_pc \in {"join_P", "join_C", "done", "sleep", "exited"}
    /\ write_lock \in Producers \union {NoThread}
    /\ read_lock \in Consumers \union {NoThread}
    /\ buffer_lock \in [Cells -> Threads \union {NoThread}]
    /\ global_buffer \in [Cells -> 0..NLines]
    /\ writing_pos \in Cells /\ reading_pos \in Cells
    /\ line_nr \in 0..NLines
    /\ end_time \in {0, 1}
    /\ line_counter \in Nat
    /\ consumed \in Seq(Lines)

(* The ring, seen from the consumers, is the queue of cw09's promise: lines *)
(* are looked at once each, in the order of the file, none is overwritten   *)
(* before it was looked at, and the ones found are counted.                 *)
RingAsQueue == [i \in 1..(line_nr - Len(consumed)) |->
                   global_buffer[(Len(consumed) + i - 1) % N]]

LQ == INSTANCE LineQueue WITH Capacity <- N, NLines <- NLines,
          Matching <- {l \in Lines : Found(l)}, read <- line_nr,
          queue <- RingAsQueue, consumed <- consumed, found <- line_counter

(* The threads together are the queue of lines of LineQueue.                *)
ImplementsLineQueue == LQ!LQSpec

(* No wakeup is lost: a producer that waits for its cell has not been       *)
(* overtaken by the consumer who empties it (the cell is full, or the       *)
(* broadcast is still to come), and likewise for a consumer that waits for  *)
(* its cell to be filled.                                                   *)
NoLostWakeup ==
    /\ \A p \in Producers : pc[p] = "P_wait" =>
          \/ global_buffer[writing_pos] # NULL
          \/ \E c \in Consumers : pc[c] = "C_broadcast"
    /\ \A c \in Consumers : pc[c] = "C_wait" =>
          \/ global_buffer[reading_pos] = NULL
          \/ \E p \in Producers : pc[p] = "P_broadcast"

(* Places of a consumer that has found the end.                              *)
C_Ending == {"C_end_unlock_cell", "C_end_unlock_read", "done"}

(* A consumer only ends when there is nothing left to do: its file is read  *)
(* to the end and every line was looked at.                                 *)
EndMeansDrained ==
    (\E c \in Consumers : pc[c] \in C_Ending) =>
        line_nr = NLines /\ Len(consumed) = NLines

(* The number main prints is the number of lines of the file that match.    *)
FoundAll ==
    main_pc = "done" => line_counter = Cardinality({l \in Lines : Found(l)})

(* Why the properties hold.  The owner of a mutex is the thread that is     *)
(* between taking and releasing it (WriteLockOwner, ReadLockOwner,          *)
(* CellLockOwner); the lines read and not yet looked at, a window of at     *)
(* most N line numbers, are in the cells their numbers stand for, and every *)
(* other cell is empty (Window); the positions follow the two ends of the   *)
(* window, but for the moment between a step and the update of its position *)
(* (WritingPos, ReadingPos).                                                *)
P_HoldsWrite == P_Places \ {"P_lock_write", "P_set_end", "done"}
C_HoldsRead  == C_Places \ {"C_lock_read", "done"}
P_HoldsCell  == {"P_check", "P_broadcast", "P_unlock_cell",
                 "P_eof_broadcast", "P_eof_unlock_cell"}
C_HoldsCell  == {"C_check", "C_test_end", "C_cond_wait", "C_broadcast",
                 "C_unlock_cell", "C_end_unlock_cell"}
P_AfterStore == {"P_broadcast", "P_unlock_cell", "P_advance"}
C_AfterTake  == {"C_broadcast", "C_unlock_cell", "C_advance"}
P_AtEof      == {"P_eof_broadcast", "P_eof_unlock_cell", "P_eof_unlock_write",
                 "P_set_end", "done"}

WriteLockOwner == \A p \in Producers : write_lock = p <=> pc[p] \in P_HoldsWrite
ReadLockOwner  == \A c \in Consumers : read_lock = c <=> pc[c] \in C_HoldsRead
CellLockOwner  == \A i \in Cells :
    /\ \A p \in Producers :
          buffer_lock[i] = p <=> pc[p] \in P_HoldsCell /\ i = writing_pos
    /\ \A c \in Consumers :
          buffer_lock[i] = c <=> pc[c] \in C_HoldsCell /\ i = reading_pos

Window ==
    /\ Len(consumed) <= line_nr /\ line_nr <= Len(consumed) + N
    /\ \A l \in Len(consumed) + 1 .. line_nr : global_buffer[(l - 1) % N] = l
    /\ \A i \in Cells : global_buffer[i] # NULL =>
          /\ global_buffer[i] \in Len(consumed) + 1 .. line_nr
          /\ i = (global_buffer[i] - 1) % N

WritingPos ==
    /\ (\A p \in Producers : pc[p] \notin P_AfterStore) => writing_pos = line_nr % N
    /\ (\E p \in Producers : pc[p] \in P_AfterStore) =>
          line_nr > 0 /\ writing_pos = (line_nr - 1) % N

ReadingPos ==
    /\ (\A c \in Consumers : pc[c] \notin C_AfterTake) =>
          reading_pos = Len(consumed) % N
    /\ (\E c \in Consumers : pc[c] \in C_AfterTake) =>
          Len(consumed) > 0 /\ reading_pos = (Len(consumed) - 1) % N

ConsumedInOrder == \A i \in 1..Len(consumed) : consumed[i] = i

EofSeen ==
    (end_time = 1 \/ \E p \in Producers : pc[p] \in P_AtEof) => line_nr = NLines

CheckedEmpty ==
    \A c \in Consumers : pc[c] \in {"C_test_end", "C_cond_wait"} =>
       global_buffer[reading_pos] = NULL

IInv ==
    /\ TypeOK          /\ WriteLockOwner  /\ ReadLockOwner  /\ CellLockOwner
    /\ Window          /\ WritingPos      /\ ReadingPos     /\ ConsumedInOrder
    /\ EofSeen         /\ CheckedEmpty    /\ NoLostWakeup   /\ EndMeansDrained

(* Unless the process ends after NK seconds, and if the threads are fair,   *)
(* every line of the file is read and looked at, whatever becomes of the    *)
(* threads afterwards; and consumers that look at end_time once it is set   *)
(* all end, one after the other: only one that is already on its way into   *)
(* pthread_cond_wait when the last producer sets it can stay behind.        *)
RunCompletes ==
    /\ ~ Timed => <>(Len(consumed) = NLines)
    /\ (/\ \A p \in Producers : pc[p] = "done"
        /\ end_time = 1
        /\ \A c \in Consumers : pc[c] \notin {"C_cond_wait", "C_wait"})
           ~> (\A c \in Consumers : pc[c] = "done")

(* What main expects when it joins them (the comments at zad1.c:254, 259):  *)
(* the consumers finish.                                                    *)
ConsumersFinish == ~ Timed => <>(\A c \in Consumers : pc[c] = "done")
=============================================================================
