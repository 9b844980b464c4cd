----------------------- MODULE ProducerConsumerProofs -----------------------
(****************************************************************************)
(* Theorems about ProducerConsumer for every number of threads, every ring  *)
(* size and every file, with or without NK and spurious wakeups.            *)
(****************************************************************************)
EXTENDS ProducerConsumer, RingArithmetic, SequenceTheorems, FiniteSetTheorems,
        TLAPS

(* The values a position takes are cells.                                   *)
LEMMA NextPosInRing == \A i \in Cells : NextPos(i) \in Cells
  BY ConstantsAssumption, Division DEF Cells, NextPos

(* At the start of the threads the state is of the expected shape.          *)
LEMMA InitTypeOK == Init => TypeOK
  BY ConstantsAssumption
  DEF Init, TypeOK, Threads, Cells, NULL, P_Places, C_Places

(* Every step of a thread or of main keeps the shape of the state.          *)
LEMMA NextTypeOK == TypeOK /\ [Next]_vars => TypeOK'
  <1> SUFFICES ASSUME TypeOK, [Next]_vars PROVE TypeOK'
    OBVIOUS
  <1> USE ConstantsAssumption DEF TypeOK, Threads, Goto, Broadcast, LockCell,
      UnlockCell, locks, ring, result, P_Places, C_Places
  <1>1. ASSUME NEW p \in Producers, P_Step(p) PROVE TypeOK'
    <2>1. CASE P_LockWrite(p)
      BY <2>1 DEF P_LockWrite
    <2>2. CASE P_LockCell(p)
      BY <2>2 DEF P_LockCell
    <2>3. CASE P_Full(p)
      BY <2>3 DEF P_Full
    <2>4. CASE P_Relock(p)
      BY <2>4 DEF P_Relock
    <2>5. CASE P_ReadLine(p)
      BY <2>5 DEF P_ReadLine
    <2>6. CASE P_Broadcast(p)
      BY <2>6 DEF P_Broadcast
    <2>7. CASE P_UnlockCell(p)
      BY <2>7 DEF P_UnlockCell
    <2>8. CASE P_Advance(p)
      BY <2>8, NextPosInRing DEF P_Advance
    <2>9. CASE P_Eof(p)
      BY <2>9 DEF P_Eof
    <2>10. CASE P_EofBroadcast(p)
      BY <2>10 DEF P_EofBroadcast
    <2>11. CASE P_EofUnlockCell(p)
      BY <2>11 DEF P_EofUnlockCell
    <2>12. CASE P_EofUnlockWrite(p)
      BY <2>12 DEF P_EofUnlockWrite
    <2>13. CASE P_SetEnd(p)
      BY <2>13 DEF P_SetEnd
    <2> QED
      BY <1>1, <2>1, <2>2, <2>3, <2>4, <2>5, <2>6, <2>7, <2>8, <2>9, <2>10,
         <2>11, <2>12, <2>13 DEF P_Step
  <1>2. ASSUME NEW c \in Consumers, C_Step(c) PROVE TypeOK'
    <2>1. CASE C_LockRead(c)
      BY <2>1 DEF C_LockRead
    <2>2. CASE C_LockCell(c)
      BY <2>2 DEF C_LockCell
    <2>3. CASE C_Empty(c)
      BY <2>3 DEF C_Empty
    <2>4. CASE C_MoreToCome(c)
      BY <2>4 DEF C_MoreToCome
    <2>5. CASE C_Wait(c)
      BY <2>5 DEF C_Wait
    <2>6. CASE C_Relock(c)
      BY <2>6 DEF C_Relock
    <2>7. CASE C_TakeLine(c)
      BY <2>7 DEF C_TakeLine, Cells, Lines, NULL
    <2>8. CASE C_Broadcast(c)
      BY <2>8 DEF C_Broadcast
    <2>9. CASE C_UnlockCell(c)
      BY <2>9 DEF C_UnlockCell
    <2>10. CASE C_Advance(c)
      BY <2>10, NextPosInRing DEF C_Advance
    <2>11. CASE C_End(c)
      BY <2>11 DEF C_End
    <2>12. CASE C_EndUnlockCell(c)
      BY <2>12 DEF C_EndUnlockCell
    <2>13. CASE C_EndUnlockRead(c)
      BY <2>13 DEF C_EndUnlockRead
    <2> QED
      BY <1>2, <2>1, <2>2, <2>3, <2>4, <2>5, <2>6, <2>7, <2>8, <2>9, <2>10,
         <2>11, <2>12, <2>13 DEF C_Step
  <1>3. CASE Main
    BY <1>3 DEF Main, M_JoinProducers, M_JoinConsumers, M_TimeIsOver
  <1>4. ASSUME NEW t \in Threads, SpuriousWakeup(t) PROVE TypeOK'
    BY <1>4 DEF SpuriousWakeup
  <1>5. CASE UNCHANGED vars
    BY <1>5 DEF vars
  <1> QED
    BY <1>1, <1>2, <1>3, <1>4, <1>5 DEF Next

(* In every run the state keeps its shape: positions stay in the ring,      *)
(* cells hold lines of the file.                                            *)
THEOREM TypeCorrect == Spec => []TypeOK
  BY InitTypeOK, NextTypeOK, PTL DEF Spec

-----------------------------------------------------------------------------
(* The locks.                                                               *)

LockInv == TypeOK /\ WriteLockOwner /\ ReadLockOwner /\ CellLockOwner

(* At the start no thread owns a mutex.                                     *)
LEMMA InitLockInv == Init => LockInv
  BY InitTypeOK, ConstantsAssumption
  DEF Init, LockInv, WriteLockOwner, ReadLockOwner, CellLockOwner, Threads, Cells,
      P_Places, C_Places, P_HoldsWrite, C_HoldsRead, P_HoldsCell, C_HoldsCell

(* A mutex is owned by exactly the thread that is between the lock and the  *)
(* unlock of its function, whatever step is taken.                          *)
LEMMA NextLockInv == LockInv /\ [Next]_vars => LockInv'
  <1> SUFFICES ASSUME LockInv, [Next]_vars PROVE LockInv'
    OBVIOUS
  <1> USE ConstantsAssumption DEF LockInv
  <1>0. TypeOK'
    BY NextTypeOK
  <1> USE DEF WriteLockOwner, ReadLockOwner, CellLockOwner, TypeOK, Threads, Goto,
      Broadcast, LockCell, UnlockCell, locks, ring, result, P_HoldsWrite, C_HoldsRead,
      P_HoldsCell, C_HoldsCell, P_Places, C_Places
  <1>1. ASSUME NEW p \in Producers, P_Step(p)
        PROVE  WriteLockOwner' /\ ReadLockOwner' /\ CellLockOwner'
    <2>1. CASE P_LockWrite(p)
      BY <2>1 DEF P_LockWrite
    <2>2. CASE P_LockCell(p)
      BY <2>2 DEF P_LockCell
    <2>3. CASE P_Full(p)
      BY <2>3 DEF P_Full
    <2>4. CASE P_Relock(p)
      BY <2>4 DEF P_Relock
    <2>5. CASE P_ReadLine(p)
      BY <2>5 DEF P_ReadLine
    <2>6. CASE P_Broadcast(p)
      BY <2>6 DEF P_Broadcast
    <2>7. CASE P_UnlockCell(p)
      BY <2>7 DEF P_UnlockCell
    <2>8. CASE P_Advance(p)
      <3>1. pc[p] = "P_advance" /\ pc' = [pc EXCEPT ![p] = "P_lock_write"]
        BY <2>8 DEF P_Advance
      <3>2. write_lock = p
        BY <3>1
      <3>3. \A q \in Producers : q # p => pc[q] \notin P_HoldsWrite /\ pc'[q] = pc[q]
        BY <3>1, <3>2
      <3>4. \A q \in Producers : pc[q] \notin P_HoldsCell /\ pc'[q] \notin P_HoldsCell
        BY <3>1, <3>3
      <3>5. WriteLockOwner'
        BY <2>8, <3>1, <3>3 DEF P_Advance
      <3>6. ReadLockOwner'
        BY <2>8, <3>1 DEF P_Advance
      <3>7. CellLockOwner'
        BY <2>8, <3>1, <3>4 DEF P_Advance
      <3> QED
        BY <3>5, <3>6, <3>7
    <2>9. CASE P_Eof(p)
      BY <2>9 DEF P_Eof
    <2>10. CASE P_EofBroadcast(p)
      BY <2>10 DEF P_EofBroadcast
    <2>11. CASE P_EofUnlockCell(p)
      BY <2>11 DEF P_EofUnlockCell
    <2>12. CASE P_EofUnlockWrite(p)
      BY <2>12 DEF P_EofUnlockWrite
    <2>13. CASE P_SetEnd(p)
      BY <2>13 DEF P_SetEnd
    <2> QED
      BY <1>1, <2>1, <2>2, <2>3, <2>4, <2>5, <2>6, <2>7, <2>8, <2>9, <2>10,
         <2>11, <2>12, <2>13 DEF P_Step
  <1>2. ASSUME NEW c \in Consumers, C_Step(c)
        PROVE  WriteLockOwner' /\ ReadLockOwner' /\ CellLockOwner'
    <2>1. CASE C_LockRead(c)
      BY <2>1 DEF C_LockRead
    <2>2. CASE C_LockCell(c)
      BY <2>2 DEF C_LockCell
    <2>3. CASE C_Empty(c)
      BY <2>3 DEF C_Empty
    <2>4. CASE C_MoreToCome(c)
      BY <2>4 DEF C_MoreToCome
    <2>5. CASE C_Wait(c)
      BY <2>5 DEF C_Wait
    <2>6. CASE C_Relock(c)
      BY <2>6 DEF C_Relock
    <2>7. CASE C_TakeLine(c)
      BY <2>7 DEF C_TakeLine, Cells, Lines, NULL
    <2>8. CASE C_Broadcast(c)
      BY <2>8 DEF C_Broadcast
    <2>9. CASE C_UnlockCell(c)
      BY <2>9 DEF C_UnlockCell
    <2>10. CASE C_Advance(c)
      <3>1. pc[c] = "C_advance" /\ pc' = [pc EXCEPT ![c] = "C_lock_read"]
        BY <2>10 DEF C_Advance
      <3>2. read_lock = c
        BY <3>1
      <3>3. \A d \in Consumers : d # c => pc[d] \notin C_HoldsRead /\ pc'[d] = pc[d]
        BY <3>1, <3>2
      <3>4. \A d \in Consumers : pc[d] \notin C_HoldsCell /\ pc'[d] \notin C_HoldsCell
        BY <3>1, <3>3
      <3>5. WriteLockOwner'
        BY <2>10, <3>1 DEF C_Advance
      <3>6. ReadLockOwner'
        BY <2>10, <3>1, <3>3 DEF C_Advance
      <3>7. CellLockOwner'
        BY <2>10, <3>1, <3>4 DEF C_Advance
      <3> QED
        BY <3>5, <3>6, <3>7
    <2>11. CASE C_End(c)
      BY <2>11 DEF C_End
    <2>12. CASE C_EndUnlockCell(c)
      BY <2>12 DEF C_EndUnlockCell
    <2>13. CASE C_EndUnlockRead(c)
      BY <2>13 DEF C_EndUnlockRead
    <2> QED
      BY <1>2, <2>1, <2>2, <2>3, <2>4, <2>5, <2>6, <2>7, <2>8, <2>9, <2>10,
         <2>11, <2>12, <2>13 DEF C_Step
  <1>3. CASE Main
    BY <1>3 DEF Main, M_JoinProducers, M_JoinConsumers, M_TimeIsOver
  <1>4. ASSUME NEW t \in Threads, SpuriousWakeup(t)
        PROVE  WriteLockOwner' /\ ReadLockOwner' /\ CellLockOwner'
    <2>1. CASE Goto(t, "P_wait", "P_relock")
      <3>1. t \in Producers
        BY <2>1
      <3> QED
        BY <1>4, <2>1, <3>1 DEF SpuriousWakeup
    <2>2. CASE Goto(t, "C_wait", "C_relock")
      <3>1. t \in Consumers
        BY <2>2
      <3> QED
        BY <1>4, <2>2, <3>1 DEF SpuriousWakeup
    <2> QED
      BY <1>4, <2>1, <2>2 DEF SpuriousWakeup
  <1>5. CASE UNCHANGED vars
    BY <1>5 DEF vars
  <1> QED
    BY <1>0, <1>1, <1>2, <1>3, <1>4, <1>5 DEF Next

(* Whatever thread owns a mutex, the mutexes have the owners that the       *)
(* threads' places call for: one producer at a time is near writing_pos,    *)
(* one consumer near reading_pos, one thread in each cell.                  *)
THEOREM LocksCorrect == Spec => []LockInv
  BY InitLockInv, NextLockInv, PTL DEF Spec

-----------------------------------------------------------------------------
(* The ring.                                                                *)

RingInv == LockInv /\ Window /\ WritingPos /\ ReadingPos /\ ConsumedInOrder

(* At the start the window of lines in the ring is empty.                   *)
LEMMA InitRingInv == Init => RingInv
  <1> SUFFICES ASSUME Init PROVE RingInv
    OBVIOUS
  <1>1. 0 % N = 0
    BY ConstantsAssumption, Division
  <1> QED
    BY <1>1, InitLockInv, ConstantsAssumption
    DEF Init, RingInv, Window, WritingPos, ReadingPos, ConsumedInOrder, Threads,
        Cells, NULL, P_AfterStore, C_AfterTake

(* The steps that leave the ring alone.                                     *)
LEMMA RingUntouched ==
    ASSUME RingInv, UNCHANGED <<ring, consumed>>,
           \A p \in Producers : pc'[p] \in P_AfterStore <=> pc[p] \in P_AfterStore,
           \A c \in Consumers : pc'[c] \in C_AfterTake <=> pc[c] \in C_AfterTake
    PROVE  Window' /\ WritingPos' /\ ReadingPos' /\ ConsumedInOrder'
  BY DEF RingInv, ring, Window, WritingPos, ReadingPos, ConsumedInOrder

(* The only steps that touch the ring or its positions: a line stored, a    *)
(* line taken, and the two positions advanced.                              *)
LEMMA RingTouched ==
    ASSUME TypeOK, [Next]_vars
    PROVE  \/ \E p \in Producers : P_ReadLine(p) \/ P_Advance(p)
           \/ \E c \in Consumers : C_TakeLine(c) \/ C_Advance(c)
           \/ /\ UNCHANGED <<ring, consumed, line_counter>>
              /\ \A p \in Producers : pc'[p] \in P_AfterStore <=> pc[p] \in P_AfterStore
              /\ \A c \in Consumers : pc'[c] \in C_AfterTake <=> pc[c] \in C_AfterTake
  <1> DEFINE Untouched ==
              /\ UNCHANGED <<ring, consumed, line_counter>>
              /\ \A p \in Producers : pc'[p] \in P_AfterStore <=> pc[p] \in P_AfterStore
              /\ \A c \in Consumers : pc'[c] \in C_AfterTake <=> pc[c] \in C_AfterTake
  <1> USE ConstantsAssumption DEF TypeOK, Threads, Goto, Broadcast, ring, result,
      P_AfterStore, C_AfterTake, P_Places, C_Places
  <1>1. ASSUME NEW p \in Producers, P_Step(p), ~ P_ReadLine(p), ~ P_Advance(p)
        PROVE  Untouched
    BY <1>1 DEF P_Step, P_LockWrite, P_LockCell, P_Full, P_Relock, P_Broadcast,
       P_UnlockCell, P_Eof, P_EofBroadcast, P_EofUnlockCell, P_EofUnlockWrite, P_SetEnd
  <1>2. ASSUME NEW c \in Consumers, C_Step(c), ~ C_TakeLine(c), ~ C_Advance(c)
        PROVE  Untouched
    BY <1>2 DEF C_Step, C_LockRead, C_LockCell, C_Empty, C_MoreToCome, C_Wait, C_Relock,
       C_Broadcast, C_UnlockCell, C_End, C_EndUnlockCell, C_EndUnlockRead
  <1>3. CASE Main
    BY <1>3 DEF Main, M_JoinProducers, M_JoinConsumers, M_TimeIsOver
  <1>4. ASSUME NEW t \in Threads, SpuriousWakeup(t)
        PROVE  Untouched
    BY <1>4 DEF SpuriousWakeup
  <1>5. CASE UNCHANGED vars
    BY <1>5 DEF vars
  <1> QED
    BY <1>1, <1>2, <1>3, <1>4, <1>5 DEF Next

(* Nobody but the owner of write_lock is between storing a line and moving  *)
(* writing_pos, and likewise for read_lock.                                 *)
LEMMA OneProducerAtPos ==
    ASSUME LockInv, NEW p \in Producers, pc[p] \in P_HoldsWrite,
           NEW q \in Producers, q # p
    PROVE  pc[q] \notin P_AfterStore
  BY DEF LockInv, WriteLockOwner, P_HoldsWrite, P_AfterStore, P_Places

(* No two consumers are between taking a line and advancing reading_pos.    *)
LEMMA OneConsumerAtPos ==
    ASSUME LockInv, NEW c \in Consumers, pc[c] \in C_HoldsRead,
           NEW d \in Consumers, d # c
    PROVE  pc[d] \notin C_AfterTake
  BY DEF LockInv, ReadLockOwner, C_HoldsRead, C_AfterTake, C_Places

(* A line stored by a producer (zad1.c:87) is the new end of the window.    *)
LEMMA StoreKeepsRing ==
    ASSUME RingInv, NEW p \in Producers, P_ReadLine(p)
    PROVE  Window' /\ WritingPos' /\ ReadingPos' /\ ConsumedInOrder'
  <1> DEFINE k == Len(consumed)
             n == line_nr
             w == writing_pos
  <1> USE ConstantsAssumption
  <1>1. /\ pc[p] = "P_check" /\ pc' = [pc EXCEPT ![p] = "P_broadcast"]
        /\ global_buffer[w] = NULL
        /\ global_buffer' = [global_buffer EXCEPT ![w] = n + 1]
        /\ line_nr' = n + 1 /\ n < NLines
        /\ UNCHANGED <<writing_pos, reading_pos, consumed>>
    BY DEF P_ReadLine, Goto, result
  <1>2. /\ pc \in [Threads -> P_Places \union C_Places]
        /\ k \in Nat /\ n \in Nat /\ w \in Cells /\ w \in 0..(N - 1)
        /\ global_buffer \in [Cells -> 0..NLines]
    BY DEF RingInv, LockInv, TypeOK, Cells
  <1>3. \A q \in Producers : pc[q] \notin P_AfterStore
    BY <1>1, OneProducerAtPos DEF RingInv, P_HoldsWrite, P_AfterStore, P_Places
  <1>4. w = n % N
    BY <1>3 DEF RingInv, WritingPos
  <1>5. /\ k <= n /\ n <= k + N
        /\ \A l \in k + 1 .. n : global_buffer[(l - 1) % N] = l
        /\ \A i \in Cells : global_buffer[i] # NULL =>
              global_buffer[i] \in k + 1 .. n /\ i = (global_buffer[i] - 1) % N
    BY DEF RingInv, Window
  <1> HIDE DEF k, n, w
  <1>6. n + 1 <= k + N
    <2> SUFFICES ASSUME n = k + N PROVE FALSE
      BY <1>2, <1>5
    <2>1. w = k % N
      BY <1>2, <1>4, OnceRound
    <2>2. k + 1 \in k + 1 .. n /\ (k + 1) - 1 = k
      BY <1>2
    <2>3. global_buffer[w] = k + 1
      BY <1>5, <2>1, <2>2
    <2> QED
      BY <1>1, <1>2, <2>3 DEF NULL
  <1>7. Window'
    <2>1. ASSUME NEW l \in k + 1 .. n + 1
          PROVE  global_buffer'[(l - 1) % N] = l
      <3>1. CASE l = n + 1
        BY <1>1, <1>2, <1>4, <3>1
      <3>2. CASE l # n + 1
        <4>1. l \in k + 1 .. n /\ l - 1 \in Nat
          BY <1>2, <3>2
        <4>2. global_buffer[(l - 1) % N] = l /\ (l - 1) % N \in Cells
          BY <1>5, <4>1, Division DEF Cells
        <4>3. l # NULL
          BY <1>2, <4>1 DEF NULL
        <4>4. (l - 1) % N # w
          BY <1>1, <4>2, <4>3
        <4> QED
          BY <1>1, <1>2, <4>2, <4>4
      <3> QED
        BY <3>1, <3>2
    <2>2. ASSUME NEW i \in Cells, global_buffer'[i] # NULL
          PROVE  /\ global_buffer'[i] \in k + 1 .. n + 1
                 /\ i = (global_buffer'[i] - 1) % N
      <3>1. CASE i = w
        <4>1. global_buffer'[i] = n + 1 /\ (n + 1) - 1 = n
          BY <1>1, <1>2, <3>1
        <4>2. n + 1 \in k + 1 .. n + 1
          BY <1>2, <1>5
        <4> QED
          BY <1>4, <3>1, <4>1, <4>2
      <3>2. CASE i # w
        <4>1. global_buffer'[i] = global_buffer[i]
          BY <1>1, <1>2, <3>2
        <4>2. global_buffer[i] \in k + 1 .. n + 1
          BY <1>2, <1>5, <2>2, <4>1
        <4> QED
          BY <1>5, <2>2, <4>1, <4>2
      <3> QED
        BY <3>1, <3>2
    <2>3. k' = k /\ n' = n + 1
      BY <1>1 DEF k, n
    <2> QED
      BY <1>2, <1>5, <1>6, <2>1, <2>2, <2>3 DEF Window, k, n
  <1>8. WritingPos'
    <2>1. pc'[p] = "P_broadcast"
      BY <1>1, <1>2 DEF Threads
    <2>2. line_nr' > 0 /\ line_nr' - 1 = n
      BY <1>1, <1>2
    <2>3. writing_pos' = (line_nr' - 1) % N
      BY <1>1, <1>4, <2>2 DEF w
    <2> QED
      BY <2>1, <2>2, <2>3 DEF WritingPos, P_AfterStore
  <1>9. \A c \in Consumers : pc'[c] = pc[c]
    BY <1>1, <1>2 DEF Threads
  <1>10. ReadingPos' /\ ConsumedInOrder'
    BY <1>1, <1>9 DEF RingInv, ReadingPos, ConsumedInOrder, k
  <1> QED
    BY <1>7, <1>8, <1>10

(* A line taken by a consumer (zad1.c:156) was the beginning of the window. *)
LEMMA TakeKeepsRing ==
    ASSUME RingInv, NEW c \in Consumers, C_TakeLine(c)
    PROVE  /\ Window' /\ WritingPos' /\ ReadingPos' /\ ConsumedInOrder'
           /\ Len(consumed) < line_nr
           /\ reading_pos = Len(consumed) % N
           /\ global_buffer[reading_pos] = Len(consumed) + 1
  <1> DEFINE k == Len(consumed)
             n == line_nr
             r == reading_pos
  <1> USE ConstantsAssumption
  <1>1. /\ pc[c] = "C_check" /\ pc' = [pc EXCEPT ![c] = "C_broadcast"]
        /\ global_buffer[r] # NULL
        /\ global_buffer' = [global_buffer EXCEPT ![r] = NULL]
        /\ consumed' = Append(consumed, global_buffer[r])
        /\ UNCHANGED <<writing_pos, reading_pos, line_nr>>
    BY DEF C_TakeLine, Goto
  <1>2. /\ pc \in [Threads -> P_Places \union C_Places]
        /\ k \in Nat /\ n \in Nat /\ r \in Cells /\ r \in 0..(N - 1)
        /\ global_buffer \in [Cells -> 0..NLines]
        /\ consumed \in Seq(Lines)
    BY DEF RingInv, LockInv, TypeOK, Cells
  <1>3. \A d \in Consumers : pc[d] \notin C_AfterTake
    BY <1>1, OneConsumerAtPos DEF RingInv, C_HoldsRead, C_AfterTake, C_Places
  <1>4. r = k % N
    BY <1>3 DEF RingInv, ReadingPos
  <1>5. /\ k <= n /\ n <= k + N
        /\ \A l \in k + 1 .. n : global_buffer[(l - 1) % N] = l
        /\ \A i \in Cells : global_buffer[i] # NULL =>
              global_buffer[i] \in k + 1 .. n /\ i = (global_buffer[i] - 1) % N
    BY DEF RingInv, Window
  <1>6. \A i \in 1..k : consumed[i] = i
    BY DEF RingInv, ConsumedInOrder
  <1> HIDE DEF n, r
  <1>7. global_buffer[r] \in k + 1 .. n
    BY <1>1, <1>2, <1>5
  <1>8. k < n /\ global_buffer[r] = k + 1
    <2>1. k + 1 \in k + 1 .. n /\ (k + 1) - 1 = k
      BY <1>2, <1>7
    <2> QED
      BY <1>2, <1>4, <1>5, <2>1
  <1>9. /\ Len(consumed') = k + 1
        /\ \A i \in 1..k : consumed'[i] = consumed[i]
        /\ consumed'[k + 1] = k + 1
    <2>1. global_buffer[r] \in Lines
      BY <1>1, <1>2 DEF Lines, NULL
    <2> QED
      BY <1>1, <1>2, <1>8, <2>1, AppendProperties
  <1> HIDE DEF k
  <1>10. Window'
    <2>1. ASSUME NEW l \in k + 2 .. n
          PROVE  global_buffer'[(l - 1) % N] = l
      <3>1. l \in k + 1 .. n /\ l - 1 \in Nat /\ l # k + 1
        BY <1>2
      <3>2. global_buffer[(l - 1) % N] = l /\ (l - 1) % N \in Cells
        BY <1>5, <3>1, Division DEF Cells
      <3>3. (l - 1) % N # r
        BY <1>8, <3>1, <3>2
      <3> QED
        BY <1>1, <1>2, <3>2, <3>3
    <2>2. ASSUME NEW i \in Cells, global_buffer'[i] # NULL
          PROVE  /\ global_buffer'[i] \in k + 2 .. n
                 /\ i = (global_buffer'[i] - 1) % N
      <3>1. i # r /\ global_buffer'[i] = global_buffer[i]
        BY <1>1, <1>2, <2>2
      <3>2. global_buffer[i] \in k + 1 .. n /\ i = (global_buffer[i] - 1) % N
        BY <1>5, <2>2, <3>1
      <3>3. global_buffer[i] # k + 1
        <4>1. (k + 1) - 1 = k
          BY <1>2
        <4> QED
          BY <1>4, <3>1, <3>2, <4>1
      <3> QED
        BY <1>2, <3>1, <3>2, <3>3
    <2>3. k' = k + 1 /\ n' = n
      BY <1>1, <1>9 DEF k, n
    <2>4. k + 1 <= n /\ n <= k + 1 + N /\ k + 1 + 1 = k + 2
      BY <1>2, <1>5, <1>8
    <2> QED
      BY <2>1, <2>2, <2>3, <2>4 DEF Window, k, n
  <1>11. ReadingPos'
    <2>1. pc'[c] = "C_broadcast"
      BY <1>1, <1>2 DEF Threads
    <2>2. Len(consumed') > 0 /\ Len(consumed') - 1 = k
      BY <1>2, <1>9
    <2>3. reading_pos' = (Len(consumed') - 1) % N
      BY <1>1, <1>4, <2>2 DEF r
    <2> QED
      BY <2>1, <2>2, <2>3 DEF ReadingPos, C_AfterTake
  <1>12. \A p \in Producers : pc'[p] = pc[p]
    BY <1>1, <1>2 DEF Threads
  <1>13. WritingPos'
    BY <1>1, <1>12 DEF RingInv, WritingPos, n
  <1>14. ConsumedInOrder'
    BY <1>2, <1>6, <1>9 DEF ConsumedInOrder
  <1> QED
    BY <1>4, <1>8, <1>10, <1>11, <1>13, <1>14 DEF k, n, r

(* Advancing a position (zad1.c:95, 162) puts it back on its end of the     *)
(* window.                                                                  *)
LEMMA AdvanceKeepsRing ==
    ASSUME RingInv
    PROVE  /\ \A p \in Producers : P_Advance(p) =>
                 Window' /\ WritingPos' /\ ReadingPos' /\ ConsumedInOrder'
           /\ \A c \in Consumers : C_Advance(c) =>
                 Window' /\ WritingPos' /\ ReadingPos' /\ ConsumedInOrder'
  <1> USE ConstantsAssumption
  <1>0. /\ pc \in [Threads -> P_Places \union C_Places]
        /\ Len(consumed) \in Nat /\ line_nr \in Nat
    BY DEF RingInv, LockInv, TypeOK
  <1>1. ASSUME NEW p \in Producers, P_Advance(p)
        PROVE  Window' /\ WritingPos' /\ ReadingPos' /\ ConsumedInOrder'
    <2>1. /\ pc[p] = "P_advance" /\ pc' = [pc EXCEPT ![p] = "P_lock_write"]
          /\ writing_pos' = (writing_pos + 1) % N
          /\ UNCHANGED <<global_buffer, reading_pos, line_nr, consumed>>
      BY <1>1 DEF P_Advance, Goto, NextPos, result
    <2>2. line_nr > 0 /\ writing_pos = (line_nr - 1) % N
      BY <2>1 DEF RingInv, WritingPos, P_AfterStore
    <2>3. line_nr - 1 \in Nat /\ (line_nr - 1) + 1 = line_nr
      BY <1>0, <2>2
    <2>4. writing_pos' = line_nr % N
      BY <2>1, <2>2, <2>3, NextCell
    <2>5. pc[p] \in P_HoldsWrite
      BY <2>1 DEF P_HoldsWrite, P_Places
    <2>6. ASSUME NEW q \in Producers PROVE pc'[q] \notin P_AfterStore
      <3>1. CASE q = p
        BY <1>0, <2>1, <3>1 DEF Threads, P_AfterStore
      <3>2. CASE q # p
        BY <1>0, <2>1, <2>5, <3>2, OneProducerAtPos DEF RingInv, Threads
      <3> QED
        BY <3>1, <3>2
    <2>7. \A c \in Consumers : pc'[c] = pc[c]
      BY <1>0, <2>1 DEF Threads
    <2> QED
      BY <2>1, <2>4, <2>6, <2>7
      DEF RingInv, Window, WritingPos, ReadingPos, ConsumedInOrder
  <1>2. ASSUME NEW c \in Consumers, C_Advance(c)
        PROVE  Window' /\ WritingPos' /\ ReadingPos' /\ ConsumedInOrder'
    <2>1. /\ pc[c] = "C_advance" /\ pc' = [pc EXCEPT ![c] = "C_lock_read"]
          /\ reading_pos' = (reading_pos + 1) % N
          /\ UNCHANGED <<global_buffer, writing_pos, line_nr, consumed>>
      BY <1>2 DEF C_Advance, Goto, NextPos, result
    <2>2. Len(consumed) > 0 /\ reading_pos = (Len(consumed) - 1) % N
      BY <2>1 DEF RingInv, ReadingPos, C_AfterTake
    <2>3. Len(consumed) - 1 \in Nat /\ (Len(consumed) - 1) + 1 = Len(consumed)
      BY <1>0, <2>2
    <2>4. reading_pos' = Len(consumed) % N
      BY <2>1, <2>2, <2>3, NextCell
    <2>5. pc[c] \in C_HoldsRead
      BY <2>1 DEF C_HoldsRead, C_Places
    <2>6. ASSUME NEW d \in Consumers PROVE pc'[d] \notin C_AfterTake
      <3>1. CASE d = c
        BY <1>0, <2>1, <3>1 DEF Threads, C_AfterTake
      <3>2. CASE d # c
        BY <1>0, <2>1, <2>5, <3>2, OneConsumerAtPos DEF RingInv, Threads
      <3> QED
        BY <3>1, <3>2
    <2>7. \A p \in Producers : pc'[p] = pc[p]
      BY <1>0, <2>1 DEF Threads
    <2> QED
      BY <2>1, <2>4, <2>6, <2>7
      DEF RingInv, Window, WritingPos, ReadingPos, ConsumedInOrder
  <1> QED
    BY <1>1, <1>2

(* Every step keeps the ring a window of the file.                          *)
LEMMA NextRingInv == RingInv /\ [Next]_vars => RingInv'
  <1> SUFFICES ASSUME RingInv, [Next]_vars PROVE RingInv'
    OBVIOUS
  <1>1. LockInv'
    BY NextLockInv DEF RingInv
  <1>2. Window' /\ WritingPos' /\ ReadingPos' /\ ConsumedInOrder'
    BY RingTouched, RingUntouched, StoreKeepsRing, TakeKeepsRing, AdvanceKeepsRing
    DEF RingInv, LockInv
  <1> QED
    BY <1>1, <1>2 DEF RingInv

(* In every run the lines read and not yet looked at are in their cells,    *)
(* the other cells are empty, and both positions follow their ends of that  *)
(* window; lines are looked at in the order of the file.                    *)
THEOREM RingCorrect == Spec => []RingInv
  BY InitRingInv, NextRingInv, PTL DEF Spec

-----------------------------------------------------------------------------
(* Waiting and ending.                                                      *)

(* The inductive invariant holds at the start of the threads.               *)
LEMMA InitIInv == Init => IInv
  <1> SUFFICES ASSUME Init PROVE IInv
    OBVIOUS
  <1>1. EofSeen /\ CheckedEmpty /\ NoLostWakeup /\ EndMeansDrained
    BY ConstantsAssumption
    DEF Init, EofSeen, CheckedEmpty, NoLostWakeup, EndMeansDrained, C_Ending, P_AtEof,
        Threads
  <1> QED
    BY <1>1, InitRingInv DEF IInv, RingInv, LockInv

(* end_time is only set, and a producer only at the end of the file, when   *)
(* all lines were read.                                                     *)
LEMMA NextEofSeen == IInv /\ [Next]_vars => EofSeen'
  <1> SUFFICES ASSUME IInv, [Next]_vars PROVE EofSeen'
    OBVIOUS
  <1> USE ConstantsAssumption DEF IInv, TypeOK, EofSeen, Threads, Goto, Broadcast,
      locks, ring, result, P_AtEof, P_Places, C_Places
  <1>1. ASSUME NEW p \in Producers, P_ReadLine(p) PROVE EofSeen'
    BY <1>1 DEF P_ReadLine
  <1>2. ASSUME NEW p \in Producers, P_Step(p), ~ P_ReadLine(p) PROVE EofSeen'
    BY <1>2 DEF P_Step, P_LockWrite, P_LockCell, P_Full, P_Relock, P_Broadcast,
       P_UnlockCell, P_Advance, P_Eof, P_EofBroadcast, P_EofUnlockCell,
       P_EofUnlockWrite, P_SetEnd
  <1>3. ASSUME NEW c \in Consumers, C_Step(c) PROVE EofSeen'
    BY <1>3 DEF C_Step, C_LockRead, C_LockCell, C_Empty, C_MoreToCome, C_Wait, C_Relock,
       C_TakeLine, C_Advance, C_Broadcast, C_UnlockCell, C_End, C_EndUnlockCell,
       C_EndUnlockRead
  <1>4. CASE Main
    BY <1>4 DEF Main, M_JoinProducers, M_JoinConsumers, M_TimeIsOver
  <1>5. ASSUME NEW t \in Threads, SpuriousWakeup(t) PROVE EofSeen'
    BY <1>5 DEF SpuriousWakeup
  <1>6. CASE UNCHANGED vars
    BY <1>6 DEF vars
  <1> QED
    BY <1>1, <1>2, <1>3, <1>4, <1>5, <1>6 DEF Next

(* A consumer that has found its cell empty holds the cell's mutex, so that *)
(* no producer fills it behind its back.                                    *)
LEMMA NextCheckedEmpty == IInv /\ [Next]_vars => CheckedEmpty'
  <1> SUFFICES ASSUME IInv, [Next]_vars PROVE CheckedEmpty'
    OBVIOUS
  <1> DEFINE Looking == {"C_test_end", "C_cond_wait"}
  <1> USE ConstantsAssumption DEF IInv, TypeOK, CheckedEmpty, Threads, Goto, Broadcast,
      locks, ring, result, P_Places, C_Places
  <1>1. ASSUME NEW p \in Producers, P_ReadLine(p), NEW c \in Consumers,
               pc[c] \in Looking
        PROVE  writing_pos # reading_pos
    BY <1>1 DEF P_ReadLine, CellLockOwner, P_HoldsCell, C_HoldsCell
  <1>2. ASSUME NEW p \in Producers, P_ReadLine(p) PROVE CheckedEmpty'
    BY <1>1, <1>2 DEF P_ReadLine
  <1>3. ASSUME NEW p \in Producers, P_Step(p), ~ P_ReadLine(p) PROVE CheckedEmpty'
    BY <1>3 DEF P_Step, P_LockWrite, P_LockCell, P_Full, P_Relock, P_Broadcast,
       P_UnlockCell, P_Advance, P_Eof, P_EofBroadcast, P_EofUnlockCell,
       P_EofUnlockWrite, P_SetEnd
  <1>4. ASSUME NEW c \in Consumers, C_TakeLine(c) \/ C_Advance(c) PROVE CheckedEmpty'
    <2>1. pc[c] \in C_HoldsRead /\ pc'[c] \notin Looking /\ read_lock = c
      BY <1>4 DEF C_TakeLine, C_Advance, ReadLockOwner, C_HoldsRead
    <2>2. \A d \in Consumers : d # c => pc[d] \notin Looking
      BY <2>1 DEF ReadLockOwner, C_HoldsRead
    <2>3. \A d \in Consumers : pc'[d] \notin Looking
      BY <1>4, <2>1, <2>2 DEF C_TakeLine, C_Advance
    <2> QED
      BY <2>3
  <1>5. ASSUME NEW c \in Consumers, C_Step(c), ~ C_TakeLine(c), ~ C_Advance(c)
        PROVE  CheckedEmpty'
    BY <1>5 DEF C_Step, C_LockRead, C_LockCell, C_Empty, C_MoreToCome, C_Wait, C_Relock,
       C_Broadcast, C_UnlockCell, C_End, C_EndUnlockCell, C_EndUnlockRead
  <1>6. CASE Main
    BY <1>6 DEF Main, M_JoinProducers, M_JoinConsumers, M_TimeIsOver
  <1>7. ASSUME NEW t \in Threads, SpuriousWakeup(t) PROVE CheckedEmpty'
    BY <1>7 DEF SpuriousWakeup
  <1>8. CASE UNCHANGED vars
    BY <1>8 DEF vars
  <1> QED
    BY <1>2, <1>3, <1>4, <1>5, <1>6, <1>7, <1>8 DEF Next

(* A thread that starts to wait does so on a cell in the state it waits to  *)
(* see changed; the thread that changes it is then the one that broadcasts. *)
LEMMA NextNoLostWakeup == IInv /\ [Next]_vars => NoLostWakeup'
  <1> SUFFICES ASSUME IInv, [Next]_vars PROVE NoLostWakeup'
    OBVIOUS
  <1> USE ConstantsAssumption DEF IInv, TypeOK, Threads, Goto, Broadcast,
      locks, ring, result, P_Places, C_Places
  <1> DEFINE PWait == \A p \in Producers : pc[p] = "P_wait" =>
                \/ global_buffer[writing_pos] # NULL
                \/ \E c \in Consumers : pc[c] = "C_broadcast"
             CWait == \A c \in Consumers : pc[c] = "C_wait" =>
                \/ global_buffer[reading_pos] = NULL
                \/ \E p \in Producers : pc[p] = "P_broadcast"
  <1>0. PWait /\ CWait
    BY DEF NoLostWakeup
  <1>1. ASSUME NEW p \in Producers, P_ReadLine(p) PROVE PWait' /\ CWait'
    <2>1. CWait'
      BY <1>1 DEF P_ReadLine
    <2>2. PWait'
      BY <1>1, <1>0 DEF P_ReadLine
    <2> QED
      BY <2>1, <2>2
  <1>2. ASSUME NEW p \in Producers, P_Advance(p) PROVE PWait' /\ CWait'
    <2>1. write_lock = p /\ pc'[p] # "P_wait"
      BY <1>2 DEF P_Advance, WriteLockOwner, P_HoldsWrite
    <2>2. \A q \in Producers : pc'[q] # "P_wait"
      BY <1>2, <2>1 DEF P_Advance, WriteLockOwner, P_HoldsWrite
    <2>3. CWait'
      BY <1>0, <1>2 DEF P_Advance
    <2> QED
      BY <2>2, <2>3
  <1>3. ASSUME NEW p \in Producers, P_Broadcast(p) PROVE PWait' /\ CWait'
    BY <1>0, <1>3 DEF P_Broadcast
  <1>4. ASSUME NEW p \in Producers, P_Step(p), ~ P_ReadLine(p), ~ P_Advance(p),
               ~ P_Broadcast(p)
        PROVE  PWait' /\ CWait'
    BY <1>0, <1>4 DEF P_Step, P_LockWrite, P_LockCell, P_Full, P_Relock, P_UnlockCell,
       P_Eof, P_EofBroadcast, P_EofUnlockCell, P_EofUnlockWrite, P_SetEnd
  <1>5. ASSUME NEW c \in Consumers, C_TakeLine(c) PROVE PWait' /\ CWait'
    <2>1. PWait'
      BY <1>5 DEF C_TakeLine
    <2>2. CWait'
      BY <1>0, <1>5 DEF C_TakeLine
    <2> QED
      BY <2>1, <2>2
  <1>6. ASSUME NEW c \in Consumers, C_Advance(c) PROVE PWait' /\ CWait'
    <2>1. read_lock = c /\ pc'[c] # "C_wait"
      BY <1>6 DEF C_Advance, ReadLockOwner, C_HoldsRead
    <2>2. \A d \in Consumers : pc'[d] # "C_wait"
      BY <1>6, <2>1 DEF C_Advance, ReadLockOwner, C_HoldsRead
    <2>3. PWait'
      BY <1>0, <1>6 DEF C_Advance
    <2> QED
      BY <2>2, <2>3
  <1>7. ASSUME NEW c \in Consumers, C_Broadcast(c) PROVE PWait' /\ CWait'
    BY <1>0, <1>7 DEF C_Broadcast
  <1>8. ASSUME NEW c \in Consumers, C_Step(c), ~ C_TakeLine(c), ~ C_Advance(c),
               ~ C_Broadcast(c)
        PROVE  PWait' /\ CWait'
    BY <1>0, <1>8 DEF C_Step, C_LockRead, C_LockCell, C_Empty, C_MoreToCome, C_Wait,
       C_Relock, C_UnlockCell, C_End, C_EndUnlockCell, C_EndUnlockRead, CheckedEmpty
  <1>9. ASSUME Main PROVE PWait' /\ CWait'
    BY <1>0, <1>9 DEF Main, M_JoinProducers, M_JoinConsumers, M_TimeIsOver
  <1>10. ASSUME NEW t \in Threads, SpuriousWakeup(t) PROVE PWait' /\ CWait'
    BY <1>0, <1>10 DEF SpuriousWakeup
  <1>11. ASSUME UNCHANGED vars PROVE PWait' /\ CWait'
    BY <1>0, <1>11 DEF vars
  <1>12. PWait' /\ CWait'
    BY <1>1, <1>2, <1>3, <1>4, <1>5, <1>6, <1>7, <1>8, <1>9, <1>10, <1>11 DEF Next
  <1> QED
    BY <1>12 DEF NoLostWakeup

(* A consumer that sees end_time and its cell empty has seen the end of the *)
(* window: had any line been left, the oldest would be in that cell.        *)
LEMMA NextEndMeansDrained == IInv /\ [Next]_vars => EndMeansDrained'
  <1> SUFFICES ASSUME IInv, [Next]_vars PROVE EndMeansDrained'
    OBVIOUS
  <1> DEFINE Drained == line_nr = NLines /\ Len(consumed) = NLines
             Ending == \E c \in Consumers : pc[c] \in C_Ending
  <1>0. TypeOK /\ RingInv /\ (Ending => Drained)
    BY DEF IInv, EndMeansDrained, RingInv, LockInv
  <1>1. Drained => Drained'
    <2> SUFFICES ASSUME Drained PROVE Drained'
      OBVIOUS
    <2>1. ASSUME NEW p \in Producers PROVE ~ P_ReadLine(p)
      BY <1>0 DEF P_ReadLine, TypeOK
    <2>2. ASSUME NEW c \in Consumers PROVE ~ C_TakeLine(c)
      BY <1>0, TakeKeepsRing DEF TypeOK
    <2>3. UNCHANGED <<line_nr, consumed>>
      BY <1>0, <2>1, <2>2, RingTouched DEF P_Advance, C_Advance, ring, result
    <2> QED
      BY <2>3
  <1>2. ASSUME NEW c \in Consumers, C_End(c) PROVE Drained
    <2>1. pc[c] = "C_test_end" /\ end_time = 1
      BY <1>0, <1>2 DEF C_End, Goto, TypeOK
    <2>2. line_nr = NLines
      BY <2>1 DEF IInv, EofSeen
    <2>3. global_buffer[reading_pos] = NULL
      BY <2>1 DEF IInv, CheckedEmpty
    <2>4. \A d \in Consumers : pc[d] \notin C_AfterTake
      BY <1>0, <2>1, OneConsumerAtPos
      DEF RingInv, C_HoldsRead, C_AfterTake, C_Places
    <2>5. reading_pos = Len(consumed) % N
      BY <1>0, <2>4 DEF RingInv, ReadingPos
    <2>6. /\ Len(consumed) \in Nat /\ line_nr \in Nat /\ Len(consumed) <= line_nr
          /\ \A l \in Len(consumed) + 1 .. line_nr : global_buffer[(l - 1) % N] = l
      BY <1>0, ConstantsAssumption DEF RingInv, Window, TypeOK
    <2>7. ~ (Len(consumed) < line_nr)
      <3> SUFFICES ASSUME Len(consumed) < line_nr PROVE FALSE
        OBVIOUS
      <3>1. /\ Len(consumed) + 1 \in Len(consumed) + 1 .. line_nr
            /\ (Len(consumed) + 1) - 1 = Len(consumed)
            /\ Len(consumed) + 1 # NULL
        BY <2>6 DEF NULL
      <3> QED
        BY <2>3, <2>5, <2>6, <3>1
    <2> QED
      BY <2>2, <2>6, <2>7
  <1>3. Ending' => Ending \/ \E c \in Consumers : C_End(c)
    <2> USE <1>0, ConstantsAssumption DEF TypeOK, Threads, Goto, Broadcast, C_Ending,
        C_Places, P_Places
    <2>1. ASSUME NEW p \in Producers, P_Step(p), Ending' PROVE Ending
      BY <2>1 DEF P_Step, P_LockWrite, P_LockCell, P_Full, P_Relock, P_ReadLine,
         P_Broadcast, P_UnlockCell, P_Advance, P_Eof, P_EofBroadcast, P_EofUnlockCell,
         P_EofUnlockWrite, P_SetEnd
    <2>2. ASSUME NEW c \in Consumers, C_Step(c), ~ C_End(c), Ending' PROVE Ending
      BY <2>2 DEF C_Step, C_LockRead, C_LockCell, C_Empty, C_MoreToCome, C_Wait,
         C_Relock, C_TakeLine, C_Broadcast, C_UnlockCell, C_Advance, C_EndUnlockCell,
         C_EndUnlockRead
    <2>3. CASE Main
      BY <2>3 DEF Main, M_JoinProducers, M_JoinConsumers, M_TimeIsOver
    <2>4. ASSUME NEW t \in Threads, SpuriousWakeup(t), Ending' PROVE Ending
      BY <2>4 DEF SpuriousWakeup
    <2>5. CASE UNCHANGED vars
      BY <2>5 DEF vars
    <2> QED
      BY <2>1, <2>2, <2>3, <2>4, <2>5 DEF Next
  <1>4. Ending' => Drained'
    BY <1>0, <1>1, <1>2, <1>3
  <1> QED
    BY <1>4 DEF EndMeansDrained

(* The inductive invariant is kept by every step.                           *)
LEMMA NextIInv == IInv /\ [Next]_vars => IInv'
  <1> SUFFICES ASSUME IInv, [Next]_vars PROVE IInv'
    OBVIOUS
  <1>1. RingInv'
    BY NextRingInv DEF IInv, RingInv, LockInv
  <1> QED
    BY <1>1, NextEofSeen, NextCheckedEmpty, NextNoLostWakeup, NextEndMeansDrained
    DEF IInv, RingInv, LockInv

(* The inductive invariant holds in every reachable state.                  *)
THEOREM Invariance == Spec => []IInv
  BY InitIInv, NextIInv, PTL DEF Spec

(* No thread ever waits for a change that has already been announced.       *)
THEOREM NoWakeupIsLost == Spec => []NoLostWakeup
  <1>1. IInv => NoLostWakeup
    BY DEF IInv
  <1> QED
    BY <1>1, Invariance, PTL

(* A consumer that ends leaves no line behind.                              *)
THEOREM EndIsDrained == Spec => []EndMeansDrained
  <1>1. IInv => EndMeansDrained
    BY DEF IInv
  <1> QED
    BY <1>1, Invariance, PTL

-----------------------------------------------------------------------------
(* The ring implements the queue of LineQueue.                              *)

QueueIsRun == RingAsQueue = Run(Len(consumed), line_nr - Len(consumed))

(* The ring, read from reading_pos on, is the run of lines of the window.   *)
LEMMA QueueIsWindow == RingInv => QueueIsRun
  <1> SUFFICES ASSUME RingInv PROVE QueueIsRun
    OBVIOUS
  <1>1. /\ Len(consumed) \in Nat /\ line_nr \in Nat
        /\ \A l \in Len(consumed) + 1 .. line_nr : global_buffer[(l - 1) % N] = l
    BY ConstantsAssumption DEF RingInv, LockInv, TypeOK, Window
  <1>2. ASSUME NEW i \in 1..(line_nr - Len(consumed))
        PROVE  global_buffer[(Len(consumed) + i - 1) % N] = Len(consumed) + i
    <2>1. Len(consumed) + i \in Len(consumed) + 1 .. line_nr
      BY <1>1
    <2> QED
      BY <1>1, <2>1
  <1> QED
    BY <1>2 DEF QueueIsRun, RingAsQueue, Run

(* The same in the next state.                                             *)
LEMMA QueueIsWindowNext == RingInv' => QueueIsRun'
  BY QueueIsWindow, PTL

(* The threads start with the empty queue of LineQueue.                     *)
LEMMA InitImplements == Init => LQ!LQInit
  <1> SUFFICES ASSUME Init PROVE LQ!LQInit
    OBVIOUS
  <1>1. RingAsQueue = <<>>
    BY DEF Init, RingAsQueue
  <1> QED
    BY <1>1 DEF Init, LQ!LQInit

(* Storing a line is the step Put of the queue.                             *)
LEMMA StoreImplementsPut ==
    ASSUME RingInv, RingInv', NEW p \in Producers, P_ReadLine(p)
    PROVE  LQ!Put
  <1> DEFINE k == Len(consumed)
             m == line_nr - Len(consumed)
  <1>1. /\ line_nr < NLines /\ line_nr' = line_nr + 1
        /\ UNCHANGED <<consumed, line_counter>>
    BY DEF P_ReadLine, result
  <1>2. k \in Nat /\ m \in Nat /\ m + 1 \in Nat /\ line_nr = k + m
    BY ConstantsAssumption DEF RingInv, LockInv, TypeOK, Window
  <1>3. line_nr' - Len(consumed') = m + 1 /\ m + 1 <= N
    BY <1>1, <1>2, ConstantsAssumption DEF RingInv, Window
  <1>4. RingAsQueue = Run(k, m)
    BY QueueIsWindow DEF QueueIsRun
  <1>5. RingAsQueue' = Run(k, m + 1)
    BY <1>1, <1>3, QueueIsWindowNext DEF QueueIsRun
  <1> HIDE DEF k, m
  <1>6. Len(RingAsQueue) = m /\ RingAsQueue' = Append(RingAsQueue, line_nr + 1)
    BY <1>2, <1>4, <1>5, RunProperties
  <1>7. Len(RingAsQueue) < N
    BY <1>2, <1>3, <1>6, ConstantsAssumption
  <1> QED
    BY <1>1, <1>6, <1>7 DEF LQ!Put

(* Taking a line is the step Get of the queue.                              *)
LEMMA TakeImplementsGet ==
    ASSUME RingInv, RingInv', NEW c \in Consumers, C_TakeLine(c)
    PROVE  LQ!Get
  <1> DEFINE k == Len(consumed)
             m == line_nr - Len(consumed)
  <1>1. /\ global_buffer[reading_pos] = k + 1
        /\ consumed' = Append(consumed, k + 1)
        /\ line_counter' = IF Found(k + 1) THEN line_counter + 1 ELSE line_counter
        /\ line_nr' = line_nr
    BY TakeKeepsRing DEF C_TakeLine
  <1>2. k \in Nat /\ line_nr \in Nat /\ line_nr <= NLines
        /\ consumed \in Seq(Lines) /\ k < line_nr
    BY TakeKeepsRing, ConstantsAssumption DEF RingInv, LockInv, TypeOK, Window
  <1>3. k + 1 \in Lines
    BY <1>2, ConstantsAssumption DEF Lines
  <1>4. m \in Nat /\ m > 0 /\ m - 1 \in Nat /\ k + 1 \in Nat
    BY <1>2
  <1>5. Len(consumed') = k + 1 /\ line_nr' - Len(consumed') = m - 1
    BY <1>1, <1>2, <1>3, AppendProperties
  <1>6. RingAsQueue = Run(k, m)
    BY QueueIsWindow DEF QueueIsRun
  <1>7. RingAsQueue' = Run(k + 1, m - 1)
    BY <1>5, QueueIsWindowNext DEF QueueIsRun
  <1> HIDE DEF k, m
  <1>8. /\ RingAsQueue # <<>> /\ Head(RingAsQueue) = k + 1
        /\ RingAsQueue' = Tail(RingAsQueue)
    BY <1>2, <1>4, <1>6, <1>7, RunProperties
  <1> QED
    BY <1>1, <1>3, <1>8 DEF LQ!Get

(* Every step is a Put, a Get or no step at all of the queue.               *)
LEMMA NextImplements == RingInv /\ RingInv' /\ [Next]_vars => [LQ!LQNext]_(LQ!lqVars)
  <1> SUFFICES ASSUME RingInv, RingInv', [Next]_vars
               PROVE  LQ!LQNext \/ UNCHANGED LQ!lqVars
    OBVIOUS
  <1>1. ASSUME UNCHANGED <<global_buffer, line_nr, consumed, line_counter>>
        PROVE  UNCHANGED LQ!lqVars
    BY <1>1 DEF LQ!lqVars, RingAsQueue
  <1>2. ASSUME NEW p \in Producers, P_Advance(p)
        PROVE  UNCHANGED LQ!lqVars
    BY <1>1, <1>2 DEF P_Advance, result
  <1>3. ASSUME NEW c \in Consumers, C_Advance(c)
        PROVE  UNCHANGED LQ!lqVars
    BY <1>1, <1>3 DEF C_Advance, result
  <1>4. CASE UNCHANGED <<ring, consumed, line_counter>>
    BY <1>1, <1>4 DEF ring
  <1> QED
    BY <1>2, <1>3, <1>4, RingTouched, StoreImplementsPut, TakeImplementsGet
    DEF RingInv, LockInv, LQ!LQNext

(* Whatever the threads' schedule: lines are looked at once each, in the    *)
(* order of the file, none is lost, and the ones found are counted.         *)
THEOREM Refinement == Spec => ImplementsLineQueue
  <1>1. Init => LQ!LQInit
    BY InitImplements
  <1>2. RingInv /\ RingInv' /\ [Next]_vars => [LQ!LQNext]_(LQ!lqVars)
    BY NextImplements
  <1> QED
    BY <1>1, <1>2, RingCorrect, PTL DEF Spec, ImplementsLineQueue, LQ!LQSpec

-----------------------------------------------------------------------------
(* The number that main prints.                                             *)

FoundAmong(k) == {l \in 1..k : Found(l)}

CountInv ==
    /\ line_counter = Cardinality(FoundAmong(Len(consumed)))
    /\ main_pc = "done" => \A c \in Consumers : pc[c] = "done"

(* One line more looked at is one match more if it matches, none otherwise. *)
LEMMA FoundOneMore ==
    ASSUME NEW k \in Nat
    PROVE  Cardinality(FoundAmong(k + 1)) =
             IF Found(k + 1) THEN Cardinality(FoundAmong(k)) + 1
                             ELSE Cardinality(FoundAmong(k))
  <1>1. IsFiniteSet(FoundAmong(k))
    <2>1. IsFiniteSet(1..k)
      BY FS_Interval
    <2>2. FoundAmong(k) \in SUBSET (1..k)
      BY DEF FoundAmong
    <2> QED
      BY <2>1, <2>2, FS_Subset
  <1>2. k + 1 \notin FoundAmong(k)
    BY DEF FoundAmong
  <1>3. FoundAmong(k + 1) = IF Found(k + 1) THEN FoundAmong(k) \union {k + 1}
                                            ELSE FoundAmong(k)
    BY DEF FoundAmong
  <1> QED
    BY <1>1, <1>2, <1>3, FS_AddElement

(* Nothing is counted at the start.                                         *)
LEMMA InitCountInv == Init => CountInv
  <1> SUFFICES ASSUME Init PROVE CountInv
    OBVIOUS
  <1>1. FoundAmong(0) = {}
    BY DEF FoundAmong
  <1> QED
    BY <1>1, FS_EmptySet DEF Init, CountInv

(* line_counter stays the number of matches among the lines looked at.      *)
LEMMA NextCountInv == CountInv /\ IInv /\ [Next]_vars => CountInv'
  <1> SUFFICES ASSUME CountInv, IInv, [Next]_vars PROVE CountInv'
    OBVIOUS
  <1>0. TypeOK /\ RingInv /\ Len(consumed) \in Nat
    BY DEF IInv, RingInv, LockInv, TypeOK
  <1>1. (line_counter = Cardinality(FoundAmong(Len(consumed))))'
    <2>1. ASSUME NEW c \in Consumers, C_TakeLine(c)
          PROVE  line_counter' = Cardinality(FoundAmong(Len(consumed')))
      <3>1. /\ line_counter' = IF Found(Len(consumed) + 1) THEN line_counter + 1
                                                           ELSE line_counter
            /\ consumed' = Append(consumed, Len(consumed) + 1)
            /\ Len(consumed) < line_nr
        BY <1>0, <2>1, TakeKeepsRing DEF C_TakeLine
      <3>2. Len(consumed) + 1 \in Lines
        BY <1>0, <3>1, ConstantsAssumption DEF TypeOK, Lines
      <3>3. Len(consumed') = Len(consumed) + 1
        BY <1>0, <3>1, <3>2, AppendProperties DEF TypeOK
      <3> QED
        BY <1>0, <3>1, <3>3, FoundOneMore DEF CountInv
    <2>2. ASSUME UNCHANGED <<consumed, line_counter>>
          PROVE  line_counter' = Cardinality(FoundAmong(Len(consumed')))
      BY <2>2 DEF CountInv
    <2>3. \/ \E c \in Consumers : C_TakeLine(c)
          \/ UNCHANGED <<consumed, line_counter>>
      BY <1>0, RingTouched DEF P_ReadLine, P_Advance, C_Advance, result
    <2> QED
      BY <2>1, <2>2, <2>3 DEF FoundAmong, Found
  <1>2. (main_pc = "done" => \A c \in Consumers : pc[c] = "done")'
    <2> DEFINE AllEnded == \A c \in Consumers : pc[c] = "done"
    <2> USE <1>0, ConstantsAssumption DEF CountInv, TypeOK, Threads, Goto, Broadcast,
        P_Places, C_Places
    <2>1. ASSUME NEW p \in Producers, P_Step(p), AllEnded
          PROVE  AllEnded' /\ main_pc' = main_pc
      BY <2>1 DEF P_Step, P_LockWrite, P_LockCell, P_Full, P_Relock, P_ReadLine,
         P_Broadcast, P_UnlockCell, P_Advance, P_Eof, P_EofBroadcast, P_EofUnlockCell,
         P_EofUnlockWrite, P_SetEnd
    <2>2. ASSUME NEW p \in Producers, P_Step(p)
          PROVE  main_pc' = main_pc
      BY <2>2 DEF P_Step, P_LockWrite, P_LockCell, P_Full, P_Relock, P_ReadLine,
         P_Broadcast, P_UnlockCell, P_Advance, P_Eof, P_EofBroadcast, P_EofUnlockCell,
         P_EofUnlockWrite, P_SetEnd
    <2>3. ASSUME NEW c \in Consumers, C_Step(c)
          PROVE  ~ AllEnded /\ main_pc' = main_pc
      BY <2>3 DEF C_Step, C_LockRead, C_LockCell, C_Empty, C_MoreToCome, C_Wait,
         C_Relock, C_TakeLine, C_Broadcast, C_UnlockCell, C_Advance, C_End,
         C_EndUnlockCell, C_EndUnlockRead
    <2>4. CASE Main
      BY <2>4 DEF Main, M_JoinProducers, M_JoinConsumers, M_TimeIsOver
    <2>5. ASSUME NEW t \in Threads, SpuriousWakeup(t)
          PROVE  main_pc' = main_pc /\ (AllEnded => AllEnded')
      BY <2>5 DEF SpuriousWakeup
    <2>6. CASE UNCHANGED vars
      BY <2>6 DEF vars
    <2> QED
      BY <2>1, <2>2, <2>3, <2>4, <2>5, <2>6 DEF Next
  <1> QED
    BY <1>1, <1>2 DEF CountInv

(* With at least one consumer, the number main prints when all threads have *)
(* ended is the number of matching lines of the whole file.                 *)
THEOREM CountIsRight ==
    ASSUME Consumers # {}
    PROVE  Spec => []FoundAll
  <1>1. CountInv /\ IInv => FoundAll
    <2> SUFFICES ASSUME CountInv, IInv, main_pc = "done"
                 PROVE  line_counter = Cardinality({l \in Lines : Found(l)})
      BY DEF FoundAll
    <2>1. PICK c \in Consumers : pc[c] = "done"
      BY DEF CountInv
    <2>2. Len(consumed) = NLines
      BY <2>1 DEF IInv, EndMeansDrained, C_Ending
    <2> QED
      BY <2>2 DEF CountInv, FoundAmong, Lines
  <1> QED
    BY <1>1, InitCountInv, NextCountInv, Invariance, PTL DEF Spec
=============================================================================
