---------------------- MODULE SemProducerConsumerProofs ----------------------
(****************************************************************************)
(* Theorems about SemProducerConsumer for every number of threads, every    *)
(* ring size and every file, whether main waits for the threads or cancels  *)
(* them, and wherever the cancellations meet them.                          *)
(****************************************************************************)
EXTENDS SemProducerConsumer, RingArithmetic, SequenceTheorems, FiniteSetTheorems,
        TLAPS

(* The values a position takes are cells.                                   *)
LEMMA NextPosInRing == \A i \in Cells : NextPos(i) \in Cells
  BY SemConstantsAssumption, Division DEF Cells, NextPos

-----------------------------------------------------------------------------
(* The tokens of the locks.                                                 *)

TokenInv == TypeOK /\ WriteToken /\ ReadToken /\ CellTokens /\ LineInHand

(* At the start every lock has its token.                                   *)
LEMMA InitTokenInv == Init => TokenInv
  BY SemConstantsAssumption
  DEF Init, TokenInv, TypeOK, WriteToken, ReadToken, CellTokens, LineInHand, Threads,
     Cells, NULL, P_Places, C_Places, P_HoldsWrite, C_HoldsRead,
      P_HoldsCell, C_HoldsCell

(* Every step of a thread or of main keeps the shape of the state.          *)
LEMMA NextTypeOK == TokenInv /\ [Next]_vars => TypeOK'
  <1> SUFFICES ASSUME TokenInv, [Next]_vars PROVE TypeOK'
    OBVIOUS
  <1> USE SemConstantsAssumption DEF TokenInv, TypeOK, Threads, Goto, WaitCell, PostCell,
      OnlyCell, OnlyWrite, OnlyRead, OnlyReading, OnlyWriting, main, sems, ring, file,
      result, P_Places, C_Places
  <1>1. ASSUME NEW p \in Producers, P_Step(p) PROVE TypeOK'
    <2>1. CASE P_LockWrite(p)
      BY <2>1 DEF P_LockWrite
    <2>2. CASE P_EofUnlockWrite(p)
      BY <2>2 DEF P_EofUnlockWrite
    <2>3. CASE P_LockCell(p)
      BY <2>3 DEF P_LockCell
    <2>4. CASE P_Full(p)
      BY <2>4 DEF P_Full
    <2>5. CASE P_UnlockCell(p)
      BY <2>5 DEF P_UnlockCell
    <2>6. CASE P_EofUnlockCell(p)
      BY <2>6 DEF P_EofUnlockCell
    <2>7. CASE P_WaitReading(p)
      BY <2>7 DEF P_WaitReading
    <2>8. CASE P_Post(p)
      BY <2>8 DEF P_Post
    <2>9. CASE P_EofPost(p)
      BY <2>9 DEF P_EofPost
    <2>10. CASE P_GetLine(p)
      BY <2>10 DEF P_GetLine
    <2>11. CASE P_Store(p)
      BY <2>11 DEF P_Store, LineInHand
    <2>12. CASE P_Advance(p)
      BY <2>12, NextPosInRing DEF P_Advance
    <2>13. CASE P_Eof(p)
      BY <2>13 DEF P_Eof
    <2>14. CASE P_SetEnd(p)
      BY <2>14 DEF P_SetEnd
    <2> QED
      BY <1>1, <2>1, <2>2, <2>3, <2>4, <2>5, <2>6, <2>7, <2>8, <2>9, <2>10, <2>11,
         <2>12, <2>13, <2>14 DEF P_Step
  <1>2. ASSUME NEW c \in Consumers, C_Step(c) PROVE TypeOK'
    <2>1. CASE C_LockRead(c)
      BY <2>1 DEF C_LockRead
    <2>2. CASE C_EndUnlockRead(c)
      BY <2>2 DEF C_EndUnlockRead
    <2>3. CASE C_LockCell(c)
      BY <2>3 DEF C_LockCell
    <2>4. CASE C_Leave(c)
      BY <2>4 DEF C_Leave
    <2>5. CASE C_UnlockCell(c)
      BY <2>5 DEF C_UnlockCell
    <2>6. CASE C_EndUnlockCell(c)
      BY <2>6 DEF C_EndUnlockCell
    <2>7. CASE C_WaitWriting(c)
      BY <2>7 DEF C_WaitWriting
    <2>8. CASE C_Post(c)
      BY <2>8 DEF C_Post
    <2>9. CASE C_Empty(c)
      BY <2>9 DEF C_Empty
    <2>10. CASE C_NotEmpty(c)
      BY <2>10 DEF C_NotEmpty
    <2>11. CASE C_MoreToCome(c)
      BY <2>11 DEF C_MoreToCome
    <2>12. CASE C_End(c)
      BY <2>12 DEF C_End
    <2>13. CASE C_Look(c)
      <3>1. global_buffer[reading_pos] \in Lines
        BY <2>13 DEF C_Look, LineInHand, Lines, Cells, NULL
      <3>2. consumed' \in Seq(Lines)
        BY <2>13, <3>1 DEF C_Look
      <3> QED
        BY <2>13, <3>2 DEF C_Look
    <2>14. CASE C_Clear(c)
      BY <2>14 DEF C_Clear, NULL
    <2>15. CASE C_Advance(c)
      BY <2>15, NextPosInRing DEF C_Advance
    <2> QED
      BY <1>2, <2>1, <2>2, <2>3, <2>4, <2>5, <2>6, <2>7, <2>8, <2>9, <2>10, <2>11,
         <2>12, <2>13, <2>14, <2>15 DEF C_Step
  <1>3. CASE Main
    BY <1>3 DEF Main, M_JoinProducers, M_JoinConsumers, M_TimeIsOver, M_Cancel,
       M_JoinAll
  <1>4. ASSUME NEW t \in Threads, Die(t) PROVE TypeOK'
    BY <1>4 DEF Die
  <1>5. CASE UNCHANGED vars
    BY <1>5 DEF vars
  <1> QED
    BY <1>1, <1>2, <1>3, <1>4, <1>5 DEF Next

(* The token of write_lock is in the semaphore or with the one producer     *)
(* that is between taking and releasing it, whatever step is taken.         *)
LEMMA NextWriteToken == TypeOK /\ WriteToken /\ [Next]_vars => WriteToken'
  <1> SUFFICES ASSUME TypeOK, WriteToken, [Next]_vars PROVE WriteToken'
    OBVIOUS
  <1> USE SemConstantsAssumption DEF WriteToken, TypeOK, Threads, Goto, WaitCell, PostCell,
      OnlyCell, OnlyWrite, OnlyRead, OnlyReading, OnlyWriting,
      main, sems, ring, file, result, P_HoldsWrite, P_Places, C_Places
  <1>1. ASSUME NEW p \in Producers, P_Step(p) PROVE WriteToken'
    <2>1. CASE P_LockWrite(p)
      <3>1. /\ pc' = [pc EXCEPT ![p] = "P_lock_cell"]
            /\ write_lock = 1 /\ write_lock' = 0
        BY <2>1 DEF P_LockWrite
      <3>2. pc'[p] \in P_HoldsWrite /\ \A q \in Producers : q # p => pc'[q] = pc[q]
        BY <3>1
      <3>3. \A q \in Producers : pc[q] \notin P_HoldsWrite
        BY <3>1
      <3> HIDE DEF P_HoldsWrite, TypeOK
      <3> QED
        BY <3>1, <3>2, <3>3
    <2>2. CASE P_LockCell(p)
      BY <2>2 DEF P_LockCell
    <2>3. CASE P_Full(p)
      BY <2>3 DEF P_Full
    <2>4. CASE P_WaitReading(p)
      BY <2>4 DEF P_WaitReading
    <2>5. CASE P_GetLine(p)
      BY <2>5 DEF P_GetLine
    <2>6. CASE P_Store(p)
      BY <2>6 DEF P_Store
    <2>7. CASE P_Post(p)
      BY <2>7 DEF P_Post
    <2>8. CASE P_UnlockCell(p)
      BY <2>8 DEF P_UnlockCell
    <2>9. CASE P_Advance(p)
      <3>1. /\ pc[p] \in P_HoldsWrite /\ pc' = [pc EXCEPT ![p] = "P_lock_write"]
            /\ write_lock' = write_lock + 1
        BY <2>9 DEF P_Advance
      <3>2. pc'[p] \notin P_HoldsWrite /\ \A q \in Producers : q # p => pc'[q] = pc[q]
        BY <3>1
      <3> HIDE DEF P_HoldsWrite, TypeOK
      <3>3. write_lock' = 1
        BY <3>1
      <3>4. \A q \in Producers : q # p => pc[q] \notin P_HoldsWrite
        BY <3>1
      <3>5. \A q \in Producers : pc'[q] \notin P_HoldsWrite
        BY <3>2, <3>4
      <3> QED
        BY <3>3, <3>5
    <2>10. CASE P_Eof(p)
      BY <2>10 DEF P_Eof
    <2>11. CASE P_EofPost(p)
      BY <2>11 DEF P_EofPost
    <2>12. CASE P_EofUnlockCell(p)
      BY <2>12 DEF P_EofUnlockCell
    <2>13. CASE P_EofUnlockWrite(p)
      <3>1. /\ pc[p] \in P_HoldsWrite /\ pc' = [pc EXCEPT ![p] = "P_set_end"]
            /\ write_lock' = write_lock + 1
        BY <2>13 DEF P_EofUnlockWrite
      <3>2. pc'[p] \notin P_HoldsWrite /\ \A q \in Producers : q # p => pc'[q] = pc[q]
        BY <3>1
      <3> HIDE DEF P_HoldsWrite, TypeOK
      <3>3. write_lock' = 1
        BY <3>1
      <3>4. \A q \in Producers : q # p => pc[q] \notin P_HoldsWrite
        BY <3>1
      <3>5. \A q \in Producers : pc'[q] \notin P_HoldsWrite
        BY <3>2, <3>4
      <3> QED
        BY <3>3, <3>5
    <2>14. CASE P_SetEnd(p)
      BY <2>14 DEF P_SetEnd
    <2> QED
      BY <1>1, <2>1, <2>2, <2>3, <2>4, <2>5, <2>6, <2>7, <2>8, <2>9, <2>10, <2>11,
         <2>12, <2>13, <2>14 DEF P_Step
  <1>2. ASSUME NEW c \in Consumers, C_Step(c) PROVE WriteToken'
    <2>1. CASE C_LockRead(c)
      BY <2>1 DEF C_LockRead
    <2>2. CASE C_LockCell(c)
      BY <2>2 DEF C_LockCell
    <2>3. CASE C_Empty(c)
      BY <2>3 DEF C_Empty
    <2>4. CASE C_MoreToCome(c)
      BY <2>4 DEF C_MoreToCome
    <2>5. CASE C_Leave(c)
      BY <2>5 DEF C_Leave
    <2>6. CASE C_WaitWriting(c)
      BY <2>6 DEF C_WaitWriting
    <2>7. CASE C_NotEmpty(c)
      BY <2>7 DEF C_NotEmpty
    <2>8. CASE C_Look(c)
      BY <2>8 DEF C_Look
    <2>9. CASE C_Clear(c)
      BY <2>9 DEF C_Clear
    <2>10. CASE C_Post(c)
      BY <2>10 DEF C_Post
    <2>11. CASE C_UnlockCell(c)
      BY <2>11 DEF C_UnlockCell
    <2>12. CASE C_Advance(c)
      BY <2>12 DEF C_Advance
    <2>13. CASE C_End(c)
      BY <2>13 DEF C_End
    <2>14. CASE C_EndUnlockCell(c)
      BY <2>14 DEF C_EndUnlockCell
    <2>15. CASE C_EndUnlockRead(c)
      BY <2>15 DEF C_EndUnlockRead
    <2> QED
      BY <1>2, <2>1, <2>2, <2>3, <2>4, <2>5, <2>6, <2>7, <2>8, <2>9, <2>10, <2>11,
         <2>12, <2>13, <2>14, <2>15 DEF C_Step
  <1>3. CASE Main
    BY <1>3 DEF Main, M_JoinProducers, M_JoinConsumers, M_TimeIsOver, M_Cancel,
       M_JoinAll
  <1>4. ASSUME NEW t \in Threads, Die(t) PROVE WriteToken'
    BY <1>4 DEF Die
  <1>5. CASE UNCHANGED vars
    BY <1>5 DEF vars
  <1> QED
    BY <1>1, <1>2, <1>3, <1>4, <1>5 DEF Next

(* The same for read_lock and the consumers.                                *)
LEMMA NextReadToken == TypeOK /\ ReadToken /\ [Next]_vars => ReadToken'
  <1> SUFFICES ASSUME TypeOK, ReadToken, [Next]_vars PROVE ReadToken'
    OBVIOUS
  <1> USE SemConstantsAssumption DEF ReadToken, TypeOK, Threads, Goto, WaitCell, PostCell,
      OnlyCell, OnlyWrite, OnlyRead, OnlyReading, OnlyWriting,
      main, sems, ring, file, result, C_HoldsRead, P_Places, C_Places
  <1>1. ASSUME NEW p \in Producers, P_Step(p) PROVE ReadToken'
    <2>1. CASE P_LockWrite(p)
      BY <2>1 DEF P_LockWrite
    <2>2. CASE P_LockCell(p)
      BY <2>2 DEF P_LockCell
    <2>3. CASE P_Full(p)
      BY <2>3 DEF P_Full
    <2>4. CASE P_WaitReading(p)
      BY <2>4 DEF P_WaitReading
    <2>5. CASE P_GetLine(p)
      BY <2>5 DEF P_GetLine
    <2>6. CASE P_Store(p)
      BY <2>6 DEF P_Store
    <2>7. CASE P_Post(p)
      BY <2>7 DEF P_Post
    <2>8. CASE P_UnlockCell(p)
      BY <2>8 DEF P_UnlockCell
    <2>9. CASE P_Advance(p)
      BY <2>9 DEF P_Advance
    <2>10. CASE P_Eof(p)
      BY <2>10 DEF P_Eof
    <2>11. CASE P_EofPost(p)
      BY <2>11 DEF P_EofPost
    <2>12. CASE P_EofUnlockCell(p)
      BY <2>12 DEF P_EofUnlockCell
    <2>13. CASE P_EofUnlockWrite(p)
      BY <2>13 DEF P_EofUnlockWrite
    <2>14. CASE P_SetEnd(p)
      BY <2>14 DEF P_SetEnd
    <2> QED
      BY <1>1, <2>1, <2>2, <2>3, <2>4, <2>5, <2>6, <2>7, <2>8, <2>9, <2>10, <2>11,
         <2>12, <2>13, <2>14 DEF P_Step
  <1>2. ASSUME NEW c \in Consumers, C_Step(c) PROVE ReadToken'
    <2>1. CASE C_LockRead(c)
      <3>1. /\ pc' = [pc EXCEPT ![c] = "C_lock_cell"]
            /\ read_lock = 1 /\ read_lock' = 0
        BY <2>1 DEF C_LockRead
      <3>2. pc'[c] \in C_HoldsRead /\ \A q \in Consumers : q # c => pc'[q] = pc[q]
        BY <3>1
      <3>3. \A q \in Consumers : pc[q] \notin C_HoldsRead
        BY <3>1
      <3> HIDE DEF C_HoldsRead, TypeOK
      <3> QED
        BY <3>1, <3>2, <3>3
    <2>2. CASE C_LockCell(c)
      BY <2>2 DEF C_LockCell
    <2>3. CASE C_Empty(c)
      BY <2>3 DEF C_Empty
    <2>4. CASE C_MoreToCome(c)
      BY <2>4 DEF C_MoreToCome
    <2>5. CASE C_Leave(c)
      BY <2>5 DEF C_Leave
    <2>6. CASE C_WaitWriting(c)
      BY <2>6 DEF C_WaitWriting
    <2>7. CASE C_NotEmpty(c)
      BY <2>7 DEF C_NotEmpty
    <2>8. CASE C_Look(c)
      BY <2>8 DEF C_Look
    <2>9. CASE C_Clear(c)
      BY <2>9 DEF C_Clear
    <2>10. CASE C_Post(c)
      BY <2>10 DEF C_Post
    <2>11. CASE C_UnlockCell(c)
      BY <2>11 DEF C_UnlockCell
    <2>12. CASE C_Advance(c)
      <3>1. /\ pc[c] \in C_HoldsRead /\ pc' = [pc EXCEPT ![c] = "C_lock_read"]
            /\ read_lock' = read_lock + 1
        BY <2>12 DEF C_Advance
      <3>2. pc'[c] \notin C_HoldsRead /\ \A q \in Consumers : q # c => pc'[q] = pc[q]
        BY <3>1
      <3> HIDE DEF C_HoldsRead, TypeOK
      <3>3. read_lock' = 1
        BY <3>1
      <3>4. \A q \in Consumers : q # c => pc[q] \notin C_HoldsRead
        BY <3>1
      <3>5. \A q \in Consumers : pc'[q] \notin C_HoldsRead
        BY <3>2, <3>4
      <3> QED
        BY <3>3, <3>5
    <2>13. CASE C_End(c)
      BY <2>13 DEF C_End
    <2>14. CASE C_EndUnlockCell(c)
      BY <2>14 DEF C_EndUnlockCell
    <2>15. CASE C_EndUnlockRead(c)
      <3>1. /\ pc[c] \in C_HoldsRead /\ pc' = [pc EXCEPT ![c] = "done"]
            /\ read_lock' = read_lock + 1
        BY <2>15 DEF C_EndUnlockRead
      <3>2. pc'[c] \notin C_HoldsRead /\ \A q \in Consumers : q # c => pc'[q] = pc[q]
        BY <3>1
      <3> HIDE DEF C_HoldsRead, TypeOK
      <3>3. read_lock' = 1
        BY <3>1
      <3>4. \A q \in Consumers : q # c => pc[q] \notin C_HoldsRead
        BY <3>1
      <3>5. \A q \in Consumers : pc'[q] \notin C_HoldsRead
        BY <3>2, <3>4
      <3> QED
        BY <3>3, <3>5
    <2> QED
      BY <1>2, <2>1, <2>2, <2>3, <2>4, <2>5, <2>6, <2>7, <2>8, <2>9, <2>10, <2>11,
         <2>12, <2>13, <2>14, <2>15 DEF C_Step
  <1>3. CASE Main
    BY <1>3 DEF Main, M_JoinProducers, M_JoinConsumers, M_TimeIsOver, M_Cancel,
       M_JoinAll
  <1>4. ASSUME NEW t \in Threads, Die(t) PROVE ReadToken'
    BY <1>4 DEF Die
  <1>5. CASE UNCHANGED vars
    BY <1>5 DEF vars
  <1> QED
    BY <1>1, <1>2, <1>3, <1>4, <1>5 DEF Next

(* The same for the cells, of which a thread only takes the one at its      *)
(* position.                                                                *)
LEMMA NextCellTokens == TokenInv /\ [Next]_vars => CellTokens'
  <1> SUFFICES ASSUME TokenInv, [Next]_vars PROVE CellTokens'
    OBVIOUS
  <1> USE SemConstantsAssumption DEF TokenInv, WriteToken, ReadToken, CellTokens,
      TypeOK, Threads, Goto, WaitCell, PostCell,
      OnlyCell, OnlyWrite, OnlyRead, OnlyReading, OnlyWriting,
      main, sems, ring, file, result,
      P_HoldsWrite, C_HoldsRead, P_HoldsCell, C_HoldsCell, P_Places, C_Places
  <1>1. ASSUME NEW p \in Producers, P_Step(p) PROVE CellTokens'
    <2>1. CASE P_LockWrite(p)
      BY <2>1 DEF P_LockWrite
    <2>2. CASE P_LockCell(p)
      BY <2>2 DEF P_LockCell
    <2>3. CASE P_Full(p)
      <3>1. /\ pc[p] \in P_HoldsCell /\ pc' = [pc EXCEPT ![p] = "P_wait"]
            /\ buffer_lock' = [buffer_lock EXCEPT ![writing_pos] = @ + 1]
            /\ UNCHANGED <<writing_pos, reading_pos>>
        BY <2>3 DEF P_Full
      <3>2. \A q \in Producers : pc'[q] \notin P_HoldsCell
        <4>1. ASSUME NEW q \in Producers, q # p
              PROVE  pc'[q] = pc[q] /\ pc[q] \notin P_HoldsCell
          BY <3>1, <4>1
        <4>2. pc'[p] \notin P_HoldsCell
          BY <3>1
        <4> QED
          BY <4>1, <4>2
      <3>3. \A c \in Consumers : pc'[c] = pc[c]
        BY <3>1
      <3> HIDE DEF P_HoldsCell, C_HoldsCell, P_HoldsWrite, C_HoldsRead, P_Places, C_Places
      <3>4. \A c \in Consumers : pc'[c] \in C_HoldsCell => reading_pos # writing_pos
        BY <3>1, <3>3
      <3>5. /\ buffer_lock'[writing_pos] = 1
            /\ \A i \in Cells : i # writing_pos => buffer_lock'[i] = buffer_lock[i]
        BY <3>1
      <3>6. \A i \in Cells : buffer_lock'[i] = 0 =>
               i = reading_pos /\ \E c \in Consumers : pc'[c] \in C_HoldsCell
        BY <3>1, <3>3, <3>5
      <3> HIDE DEF TypeOK
      <3> QED
        BY <3>1, <3>2, <3>3, <3>4, <3>5, <3>6 DEF TypeOK
    <2>4. CASE P_WaitReading(p)
      BY <2>4 DEF P_WaitReading
    <2>5. CASE P_GetLine(p)
      BY <2>5 DEF P_GetLine
    <2>6. CASE P_Store(p)
      BY <2>6 DEF P_Store
    <2>7. CASE P_Post(p)
      BY <2>7 DEF P_Post
    <2>8. CASE P_UnlockCell(p)
      <3>1. /\ pc[p] \in P_HoldsCell /\ pc' = [pc EXCEPT ![p] = "P_advance"]
            /\ buffer_lock' = [buffer_lock EXCEPT ![writing_pos] = @ + 1]
            /\ UNCHANGED <<writing_pos, reading_pos>>
        BY <2>8 DEF P_UnlockCell
      <3>2. \A q \in Producers : pc'[q] \notin P_HoldsCell
        <4>1. ASSUME NEW q \in Producers, q # p
              PROVE  pc'[q] = pc[q] /\ pc[q] \notin P_HoldsCell
          BY <3>1, <4>1
        <4>2. pc'[p] \notin P_HoldsCell
          BY <3>1
        <4> QED
          BY <4>1, <4>2
      <3>3. \A c \in Consumers : pc'[c] = pc[c]
        BY <3>1
      <3> HIDE DEF P_HoldsCell, C_HoldsCell, P_HoldsWrite, C_HoldsRead, P_Places, C_Places
      <3>4. \A c \in Consumers : pc'[c] \in C_HoldsCell => reading_pos # writing_pos
        BY <3>1, <3>3
      <3>5. /\ buffer_lock'[writing_pos] = 1
            /\ \A i \in Cells : i # writing_pos => buffer_lock'[i] = buffer_lock[i]
        BY <3>1
      <3>6. \A i \in Cells : buffer_lock'[i] = 0 =>
               i = reading_pos /\ \E c \in Consumers : pc'[c] \in C_HoldsCell
        BY <3>1, <3>3, <3>5
      <3> HIDE DEF TypeOK
      <3> QED
        BY <3>1, <3>2, <3>3, <3>4, <3>5, <3>6 DEF TypeOK
    <2>9. CASE P_Advance(p)
      <3>1. /\ pc[p] = "P_advance" /\ pc' = [pc EXCEPT ![p] = "P_lock_write"]
            /\ buffer_lock' = buffer_lock /\ UNCHANGED reading_pos
        BY <2>9 DEF P_Advance
      <3>2. \A q \in Producers : pc[q] \notin P_HoldsCell /\ pc'[q] \notin P_HoldsCell
        BY <3>1
      <3>3. \A c \in Consumers : pc'[c] = pc[c]
        BY <3>1
      <3> HIDE DEF P_HoldsCell, C_HoldsCell, P_HoldsWrite, C_HoldsRead, P_Places, C_Places,
                   TypeOK
      <3> QED
        BY <3>1, <3>2, <3>3
    <2>10. CASE P_Eof(p)
      BY <2>10 DEF P_Eof
    <2>11. CASE P_EofPost(p)
      BY <2>11 DEF P_EofPost
    <2>12. CASE P_EofUnlockCell(p)
      <3>1. /\ pc[p] \in P_HoldsCell /\ pc' = [pc EXCEPT ![p] = "P_eof_unlock_write"]
            /\ buffer_lock' = [buffer_lock EXCEPT ![writing_pos] = @ + 1]
            /\ UNCHANGED <<writing_pos, reading_pos>>
        BY <2>12 DEF P_EofUnlockCell
      <3>2. \A q \in Producers : pc'[q] \notin P_HoldsCell
        <4>1. ASSUME NEW q \in Producers, q # p
              PROVE  pc'[q] = pc[q] /\ pc[q] \notin P_HoldsCell
          BY <3>1, <4>1
        <4>2. pc'[p] \notin P_HoldsCell
          BY <3>1
        <4> QED
          BY <4>1, <4>2
      <3>3. \A c \in Consumers : pc'[c] = pc[c]
        BY <3>1
      <3> HIDE DEF P_HoldsCell, C_HoldsCell, P_HoldsWrite, C_HoldsRead, P_Places, C_Places
      <3>4. \A c \in Consumers : pc'[c] \in C_HoldsCell => reading_pos # writing_pos
        BY <3>1, <3>3
      <3>5. /\ buffer_lock'[writing_pos] = 1
            /\ \A i \in Cells : i # writing_pos => buffer_lock'[i] = buffer_lock[i]
        BY <3>1
      <3>6. \A i \in Cells : buffer_lock'[i] = 0 =>
               i = reading_pos /\ \E c \in Consumers : pc'[c] \in C_HoldsCell
        BY <3>1, <3>3, <3>5
      <3> HIDE DEF TypeOK
      <3> QED
        BY <3>1, <3>2, <3>3, <3>4, <3>5, <3>6 DEF TypeOK
    <2>13. CASE P_EofUnlockWrite(p)
      BY <2>13 DEF P_EofUnlockWrite
    <2>14. CASE P_SetEnd(p)
      BY <2>14 DEF P_SetEnd
    <2> QED
      BY <1>1, <2>1, <2>2, <2>3, <2>4, <2>5, <2>6, <2>7, <2>8, <2>9, <2>10, <2>11,
         <2>12, <2>13, <2>14 DEF P_Step
  <1>2. ASSUME NEW c \in Consumers, C_Step(c) PROVE CellTokens'
    <2>1. CASE C_LockRead(c)
      BY <2>1 DEF C_LockRead
    <2>2. CASE C_LockCell(c)
      BY <2>2 DEF C_LockCell
    <2>3. CASE C_Empty(c)
      BY <2>3 DEF C_Empty
    <2>4. CASE C_MoreToCome(c)
      BY <2>4 DEF C_MoreToCome
    <2>5. CASE C_Leave(c)
      <3>1. /\ pc[c] \in C_HoldsCell /\ pc' = [pc EXCEPT ![c] = "C_wait"]
            /\ buffer_lock' = [buffer_lock EXCEPT ![reading_pos] = @ + 1]
            /\ UNCHANGED <<writing_pos, reading_pos>>
        BY <2>5 DEF C_Leave
      <3>2. \A q \in Consumers : pc'[q] \notin C_HoldsCell
        <4>1. ASSUME NEW q \in Consumers, q # c
              PROVE  pc'[q] = pc[q] /\ pc[q] \notin C_HoldsCell
          BY <3>1, <4>1
        <4>2. pc'[c] \notin C_HoldsCell
          BY <3>1
        <4> QED
          BY <4>1, <4>2
      <3>3. \A p \in Producers : pc'[p] = pc[p]
        BY <3>1
      <3> HIDE DEF P_HoldsCell, C_HoldsCell, P_HoldsWrite, C_HoldsRead, P_Places, C_Places
      <3>4. \A p \in Producers : pc'[p] \in P_HoldsCell => writing_pos # reading_pos
        BY <3>1, <3>3
      <3>5. /\ buffer_lock'[reading_pos] = 1
            /\ \A i \in Cells : i # reading_pos => buffer_lock'[i] = buffer_lock[i]
        BY <3>1
      <3>6. \A i \in Cells : buffer_lock'[i] = 0 =>
               i = writing_pos /\ \E p \in Producers : pc'[p] \in P_HoldsCell
        BY <3>1, <3>3, <3>5
      <3> HIDE DEF TypeOK
      <3> QED
        BY <3>1, <3>2, <3>3, <3>4, <3>5, <3>6 DEF TypeOK
    <2>6. CASE C_WaitWriting(c)
      BY <2>6 DEF C_WaitWriting
    <2>7. CASE C_NotEmpty(c)
      BY <2>7 DEF C_NotEmpty
    <2>8. CASE C_Look(c)
      BY <2>8 DEF C_Look
    <2>9. CASE C_Clear(c)
      BY <2>9 DEF C_Clear
    <2>10. CASE C_Post(c)
      BY <2>10 DEF C_Post
    <2>11. CASE C_UnlockCell(c)
      <3>1. /\ pc[c] \in C_HoldsCell /\ pc' = [pc EXCEPT ![c] = "C_advance"]
            /\ buffer_lock' = [buffer_lock EXCEPT ![reading_pos] = @ + 1]
            /\ UNCHANGED <<writing_pos, reading_pos>>
        BY <2>11 DEF C_UnlockCell
      <3>2. \A q \in Consumers : pc'[q] \notin C_HoldsCell
        <4>1. ASSUME NEW q \in Consumers, q # c
              PROVE  pc'[q] = pc[q] /\ pc[q] \notin C_HoldsCell
          BY <3>1, <4>1
        <4>2. pc'[c] \notin C_HoldsCell
          BY <3>1
        <4> QED
          BY <4>1, <4>2
      <3>3. \A p \in Producers : pc'[p] = pc[p]
        BY <3>1
      <3> HIDE DEF P_HoldsCell, C_HoldsCell, P_HoldsWrite, C_HoldsRead, P_Places, C_Places
      <3>4. \A p \in Producers : pc'[p] \in P_HoldsCell => writing_pos # reading_pos
        BY <3>1, <3>3
      <3>5. /\ buffer_lock'[reading_pos] = 1
            /\ \A i \in Cells : i # reading_pos => buffer_lock'[i] = buffer_lock[i]
        BY <3>1
      <3>6. \A i \in Cells : buffer_lock'[i] = 0 =>
               i = writing_pos /\ \E p \in Producers : pc'[p] \in P_HoldsCell
        BY <3>1, <3>3, <3>5
      <3> HIDE DEF TypeOK
      <3> QED
        BY <3>1, <3>2, <3>3, <3>4, <3>5, <3>6 DEF TypeOK
    <2>12. CASE C_Advance(c)
      <3>1. /\ pc[c] = "C_advance" /\ pc' = [pc EXCEPT ![c] = "C_lock_read"]
            /\ buffer_lock' = buffer_lock /\ UNCHANGED writing_pos
        BY <2>12 DEF C_Advance
      <3>2. \A q \in Consumers : pc[q] \notin C_HoldsCell /\ pc'[q] \notin C_HoldsCell
        BY <3>1
      <3>3. \A p \in Producers : pc'[p] = pc[p]
        BY <3>1
      <3> HIDE DEF P_HoldsCell, C_HoldsCell, P_HoldsWrite, C_HoldsRead, P_Places, C_Places,
                   TypeOK
      <3> QED
        BY <3>1, <3>2, <3>3
    <2>13. CASE C_End(c)
      BY <2>13 DEF C_End
    <2>14. CASE C_EndUnlockCell(c)
      <3>1. /\ pc[c] \in C_HoldsCell /\ pc' = [pc EXCEPT ![c] = "C_end_unlock_read"]
            /\ buffer_lock' = [buffer_lock EXCEPT ![reading_pos] = @ + 1]
            /\ UNCHANGED <<writing_pos, reading_pos>>
        BY <2>14 DEF C_EndUnlockCell
      <3>2. \A q \in Consumers : pc'[q] \notin C_HoldsCell
        <4>1. ASSUME NEW q \in Consumers, q # c
              PROVE  pc'[q] = pc[q] /\ pc[q] \notin C_HoldsCell
          BY <3>1, <4>1
        <4>2. pc'[c] \notin C_HoldsCell
          BY <3>1
        <4> QED
          BY <4>1, <4>2
      <3>3. \A p \in Producers : pc'[p] = pc[p]
        BY <3>1
      <3> HIDE DEF P_HoldsCell, C_HoldsCell, P_HoldsWrite, C_HoldsRead, P_Places, C_Places
      <3>4. \A p \in Producers : pc'[p] \in P_HoldsCell => writing_pos # reading_pos
        BY <3>1, <3>3
      <3>5. /\ buffer_lock'[reading_pos] = 1
            /\ \A i \in Cells : i # reading_pos => buffer_lock'[i] = buffer_lock[i]
        BY <3>1
      <3>6. \A i \in Cells : buffer_lock'[i] = 0 =>
               i = writing_pos /\ \E p \in Producers : pc'[p] \in P_HoldsCell
        BY <3>1, <3>3, <3>5
      <3> HIDE DEF TypeOK
      <3> QED
        BY <3>1, <3>2, <3>3, <3>4, <3>5, <3>6 DEF TypeOK
    <2>15. CASE C_EndUnlockRead(c)
      BY <2>15 DEF C_EndUnlockRead
    <2> QED
      BY <1>2, <2>1, <2>2, <2>3, <2>4, <2>5, <2>6, <2>7, <2>8, <2>9, <2>10, <2>11,
         <2>12, <2>13, <2>14, <2>15 DEF C_Step
  <1>3. CASE Main
    BY <1>3 DEF Main, M_JoinProducers, M_JoinConsumers, M_TimeIsOver, M_Cancel,
       M_JoinAll
  <1>4. ASSUME NEW t \in Threads, Die(t) PROVE CellTokens'
    BY <1>4 DEF Die
  <1>5. CASE UNCHANGED vars
    BY <1>5 DEF vars
  <1> QED
    BY <1>1, <1>2, <1>3, <1>4, <1>5 DEF Next

(* A producer that has read a line has found its cell empty, and it is      *)
(* still empty when the line is stored; a consumer looks at a full cell.    *)
LEMMA NextLineInHand == TokenInv /\ [Next]_vars => LineInHand'
  <1> SUFFICES ASSUME TokenInv, [Next]_vars PROVE LineInHand'
    OBVIOUS
  <1> USE SemConstantsAssumption DEF TokenInv, WriteToken, ReadToken, LineInHand,
      TypeOK, Threads, Goto, WaitCell, PostCell,
      OnlyCell, OnlyWrite, OnlyRead, OnlyReading, OnlyWriting,
      main, sems, ring, file, result, NULL,
      P_HoldsWrite, C_HoldsRead, P_Places, C_Places
  <1>1. ASSUME NEW p \in Producers, P_Step(p) PROVE LineInHand'
    <2>1. CASE P_LockWrite(p)
      BY <2>1 DEF P_LockWrite
    <2>2. CASE P_LockCell(p)
      BY <2>2 DEF P_LockCell
    <2>3. CASE P_Full(p)
      BY <2>3 DEF P_Full
    <2>4. CASE P_WaitReading(p)
      BY <2>4 DEF P_WaitReading
    <2>5. CASE P_GetLine(p)
      BY <2>5 DEF P_GetLine
    <2>6. CASE P_Store(p)
      BY <2>6 DEF P_Store
    <2>7. CASE P_Post(p)
      BY <2>7 DEF P_Post
    <2>8. CASE P_UnlockCell(p)
      BY <2>8 DEF P_UnlockCell
    <2>9. CASE P_Advance(p)
      BY <2>9 DEF P_Advance
    <2>10. CASE P_Eof(p)
      BY <2>10 DEF P_Eof
    <2>11. CASE P_EofPost(p)
      BY <2>11 DEF P_EofPost
    <2>12. CASE P_EofUnlockCell(p)
      BY <2>12 DEF P_EofUnlockCell
    <2>13. CASE P_EofUnlockWrite(p)
      BY <2>13 DEF P_EofUnlockWrite
    <2>14. CASE P_SetEnd(p)
      BY <2>14 DEF P_SetEnd
    <2> QED
      BY <1>1, <2>1, <2>2, <2>3, <2>4, <2>5, <2>6, <2>7, <2>8, <2>9, <2>10, <2>11,
         <2>12, <2>13, <2>14 DEF P_Step
  <1>2. ASSUME NEW c \in Consumers, C_Step(c) PROVE LineInHand'
    <2>1. CASE C_LockRead(c)
      BY <2>1 DEF C_LockRead
    <2>2. CASE C_LockCell(c)
      BY <2>2 DEF C_LockCell
    <2>3. CASE C_Empty(c)
      BY <2>3 DEF C_Empty
    <2>4. CASE C_MoreToCome(c)
      BY <2>4 DEF C_MoreToCome
    <2>5. CASE C_Leave(c)
      BY <2>5 DEF C_Leave
    <2>6. CASE C_WaitWriting(c)
      BY <2>6 DEF C_WaitWriting
    <2>7. CASE C_NotEmpty(c)
      BY <2>7 DEF C_NotEmpty
    <2>8. CASE C_Look(c)
      BY <2>8 DEF C_Look
    <2>9. CASE C_Clear(c)
      BY <2>9 DEF C_Clear
    <2>10. CASE C_Post(c)
      BY <2>10 DEF C_Post
    <2>11. CASE C_UnlockCell(c)
      BY <2>11 DEF C_UnlockCell
    <2>12. CASE C_Advance(c)
      BY <2>12 DEF C_Advance
    <2>13. CASE C_End(c)
      BY <2>13 DEF C_End
    <2>14. CASE C_EndUnlockCell(c)
      BY <2>14 DEF C_EndUnlockCell
    <2>15. CASE C_EndUnlockRead(c)
      BY <2>15 DEF C_EndUnlockRead
    <2> QED
      BY <1>2, <2>1, <2>2, <2>3, <2>4, <2>5, <2>6, <2>7, <2>8, <2>9, <2>10, <2>11,
         <2>12, <2>13, <2>14, <2>15 DEF C_Step
  <1>3. CASE Main
    BY <1>3 DEF Main, M_JoinProducers, M_JoinConsumers, M_TimeIsOver, M_Cancel,
       M_JoinAll
  <1>4. ASSUME NEW t \in Threads, Die(t) PROVE LineInHand'
    BY <1>4 DEF Die
  <1>5. CASE UNCHANGED vars
    BY <1>5 DEF vars
  <1> QED
    BY <1>1, <1>2, <1>3, <1>4, <1>5 DEF Next

(* Every step of a thread, of main or of a cancellation keeps the tokens.   *)
LEMMA NextTokenInv == TokenInv /\ [Next]_vars => TokenInv'
  BY NextTypeOK, NextWriteToken, NextReadToken, NextCellTokens, NextLineInHand
  DEF TokenInv

(* In every run, however many threads are cancelled and wherever, a lock    *)
(* has its token or one thread has it.                                      *)
THEOREM TokensCorrect == Spec => []TokenInv
  BY InitTokenInv, NextTokenInv, PTL DEF Spec

(* A set of which any two elements are equal has at most one.               *)
LEMMA AtMostOne ==
    ASSUME NEW S, \A x, y \in S : x = y
    PROVE  /\ IsFiniteSet(S)
           /\ Cardinality(S) = IF S = {} THEN 0 ELSE 1
  <1>1. CASE S = {}
    BY <1>1, FS_EmptySet
  <1>2. CASE S # {}
    <2>1. PICK x \in S : TRUE
      BY <1>2
    <2>2. S = {x}
      BY <2>1
    <2> QED
      BY <1>2, <2>2, FS_Singleton
  <1> QED
    BY <1>1, <1>2

(* Tokens are conserved: every lock is free or has one holder.              *)
THEOREM LocksConserved == Spec => []LockTokens
  <1>1. TokenInv => LockTokens
    <2> SUFFICES ASSUME TokenInv PROVE LockTokens
      OBVIOUS
    <2> DEFINE W    == {p \in Producers : pc[p] \in P_HoldsWrite}
               R    == {c \in Consumers : pc[c] \in C_HoldsRead}
               P(i) == {p \in Producers : pc[p] \in P_HoldsCell /\ i = writing_pos}
               C(i) == {c \in Consumers : pc[c] \in C_HoldsCell /\ i = reading_pos}
    <2>1. P_HoldsCell \subseteq P_HoldsWrite /\ C_HoldsCell \subseteq C_HoldsRead
      BY DEF P_HoldsCell, P_HoldsWrite, C_HoldsCell, C_HoldsRead, P_Places, C_Places
    <2>2. write_lock + Cardinality(W) = 1
      <3>1. Cardinality(W) = IF W = {} THEN 0 ELSE 1
        BY AtMostOne DEF TokenInv, WriteToken
      <3> QED
        BY <3>1 DEF TokenInv, WriteToken
    <2>3. read_lock + Cardinality(R) = 1
      <3>1. Cardinality(R) = IF R = {} THEN 0 ELSE 1
        BY AtMostOne DEF TokenInv, ReadToken
      <3> QED
        BY <3>1 DEF TokenInv, ReadToken
    <2>4. ASSUME NEW i \in Cells
          PROVE  buffer_lock[i] + Cardinality(P(i)) + Cardinality(C(i)) = 1
      <3>1. Cardinality(P(i)) = IF P(i) = {} THEN 0 ELSE 1
        <4>1. \A p, q \in P(i) : p = q
          BY <2>1 DEF TokenInv, WriteToken
        <4> QED
          BY <4>1, AtMostOne
      <3>2. Cardinality(C(i)) = IF C(i) = {} THEN 0 ELSE 1
        <4>1. \A c, d \in C(i) : c = d
          BY <2>1 DEF TokenInv, ReadToken
        <4> QED
          BY <4>1, AtMostOne
      <3>3. P(i) = {} \/ C(i) = {}
        BY DEF TokenInv, CellTokens
      <3>4. P(i) # {} \/ C(i) # {} => buffer_lock[i] = 0
        BY DEF TokenInv, CellTokens
      <3>5. P(i) = {} /\ C(i) = {} => buffer_lock[i] = 1
        BY DEF TokenInv, CellTokens
      <3> QED
        BY <3>1, <3>2, <3>3, <3>4, <3>5
    <2> QED
      BY <2>2, <2>3, <2>4 DEF LockTokens
  <1> QED
    BY <1>1, TokensCorrect, PTL

-----------------------------------------------------------------------------
(* The ring.                                                                *)

RingInv == TokenInv /\ Window /\ WritingPos /\ ReadingPos /\ ConsumedInOrder

(* At the start the window of lines in the ring is empty.                   *)
LEMMA InitRingInv == Init => RingInv
  <1> SUFFICES ASSUME Init PROVE RingInv
    OBVIOUS
  <1>1. 0 % N = 0
    BY SemConstantsAssumption, Division
  <1> QED
    BY <1>1, InitTokenInv, SemConstantsAssumption
    DEF Init, RingInv, Window, Cleared, WritingPos, ReadingPos, ConsumedInOrder,
        Threads, Cells, NULL, P_AfterStore, C_AfterLook

(* The steps of the threads that touch neither the ring nor its positions.  *)
RingAlone ==
    /\ UNCHANGED <<ring, line_nr, result>>
    /\ \A p \in Producers : pc'[p] \in P_AfterStore <=> pc[p] \in P_AfterStore
    /\ \A c \in Consumers :
          /\ pc'[c] \in C_AfterLook <=> pc[c] \in C_AfterLook
          /\ pc'[c] = "C_clear" <=> pc[c] = "C_clear"

(* The only steps that touch the ring or its positions: a line stored, a    *)
(* line looked at, its cell cleared, and the two positions advanced.        *)
LEMMA RingTouched ==
    ASSUME TypeOK, [Next]_vars
    PROVE  \/ \E p \in Producers : P_Store(p) \/ P_Advance(p)
           \/ \E c \in Consumers : C_Look(c) \/ C_Clear(c) \/ C_Advance(c)
           \/ RingAlone
  <1> USE SemConstantsAssumption DEF TypeOK, Threads, Goto, OnlyCell, OnlyWrite, OnlyRead,
      OnlyReading, OnlyWriting, ring, file, result, P_AfterStore, C_AfterLook,
      P_Places, C_Places, RingAlone
  <1>1. ASSUME NEW p \in Producers, P_Step(p), ~ P_Store(p), ~ P_Advance(p)
        PROVE  RingAlone
    BY <1>1 DEF P_Step, P_LockWrite, P_LockCell, P_Full, P_WaitReading, P_GetLine,
       P_Post, P_UnlockCell, P_Eof, P_EofPost, P_EofUnlockCell, P_EofUnlockWrite,
       P_SetEnd
  <1>2. ASSUME NEW c \in Consumers, C_Step(c), ~ C_Look(c), ~ C_Clear(c), ~ C_Advance(c)
        PROVE  RingAlone
    BY <1>2 DEF C_Step, C_LockRead, C_LockCell, C_Empty, C_MoreToCome, C_Leave,
       C_WaitWriting, C_NotEmpty, C_Post, C_UnlockCell, C_End, C_EndUnlockCell,
       C_EndUnlockRead
  <1>3. CASE Main
    BY <1>3 DEF Main, M_JoinProducers, M_JoinConsumers, M_TimeIsOver, M_Cancel, M_JoinAll
  <1>4. ASSUME NEW t \in Threads, Die(t)
        PROVE  RingAlone
    BY <1>4 DEF Die
  <1>5. CASE UNCHANGED vars
    BY <1>5 DEF vars
  <1> QED
    BY <1>1, <1>2, <1>3, <1>4, <1>5 DEF Next

(* Where the threads are apart from the one that takes the step.            *)
LEMMA OneProducerAtPos ==
    ASSUME TokenInv, NEW p \in Producers, pc[p] \in P_HoldsWrite,
           NEW q \in Producers, q # p
    PROVE  pc[q] \notin P_AfterStore
  BY DEF TokenInv, WriteToken, P_HoldsWrite, P_AfterStore, P_Places

(* No two consumers are between looking at a line and advancing reading_pos.*)
LEMMA OneConsumerAtPos ==
    ASSUME TokenInv, NEW c \in Consumers, pc[c] \in C_HoldsRead,
           NEW d \in Consumers, d # c
    PROVE  pc[d] \notin C_AfterLook
  BY DEF TokenInv, ReadToken, C_HoldsRead, C_AfterLook, C_Places

(* Cleared, by where the consumer at reading_pos is.                        *)
LEMMA ClearedIs ==
    /\ (\A c \in Consumers : pc[c] # "C_clear") => Cleared = Len(consumed)
    /\ (\E c \in Consumers : pc[c] = "C_clear") => Cleared = Len(consumed) - 1
  BY DEF Cleared

(* The steps that leave the ring alone keep it a window.                    *)
LEMMA RingUntouched ==
    ASSUME RingInv, RingAlone
    PROVE  Window' /\ WritingPos' /\ ReadingPos' /\ ConsumedInOrder'
  <1>1. Cleared' = Cleared
    BY DEF RingAlone, Cleared, result
  <1> QED
    BY <1>1 DEF RingInv, RingAlone, ring, result, Window, WritingPos, ReadingPos,
       ConsumedInOrder

(* A line stored by a producer (zad2.c:104) is the new end of the window.   *)
LEMMA StoreKeepsRing ==
    ASSUME RingInv, NEW p \in Producers, P_Store(p)
    PROVE  Window' /\ WritingPos' /\ ReadingPos' /\ ConsumedInOrder'
  <1> DEFINE k == Cleared
             n == line_nr
             w == writing_pos
  <1> USE SemConstantsAssumption
  <1>1. /\ pc[p] = "P_store" /\ pc' = [pc EXCEPT ![p] = "P_post"]
        /\ global_buffer[w] = NULL
        /\ global_buffer' = [global_buffer EXCEPT ![w] = n + 1]
        /\ line_nr' = n + 1
        /\ UNCHANGED <<writing_pos, reading_pos, consumed>>
    BY DEF P_Store, Goto, result, RingInv, TokenInv, LineInHand
  <1>2. /\ pc \in [Threads -> P_Places \union C_Places]
        /\ k \in Nat /\ n \in Nat /\ w \in Cells /\ w \in 0..(N - 1)
        /\ global_buffer \in [Cells -> 0..NLines]
    BY DEF RingInv, Window, TokenInv, TypeOK, Cells
  <1>3. \A q \in Producers : pc[q] \notin P_AfterStore
    BY <1>1, OneProducerAtPos DEF RingInv, P_HoldsWrite, P_AfterStore, P_Places
  <1>4. w = n % N
    BY <1>3 DEF RingInv, WritingPos
  <1>5. /\ Len(consumed) \in Nat /\ Len(consumed) <= n /\ k <= n /\ n <= k + N
        /\ \A l \in k + 1 .. n : global_buffer[(l - 1) % N] = l
        /\ \A i \in Cells : global_buffer[i] # NULL =>
              global_buffer[i] \in k + 1 .. n /\ i = (global_buffer[i] - 1) % N
    BY ClearedIs DEF RingInv, Window, TokenInv, TypeOK
  <1>6. \A c \in Consumers : pc'[c] = pc[c]
    BY <1>1, <1>2 DEF Threads
  <1>7. k' = k
    BY <1>1, <1>6 DEF Cleared
  <1> HIDE DEF k, n, w
  <1>8. n + 1 <= k + N
    <2> SUFFICES ASSUME n = k + N PROVE FALSE
      BY <1>2, <1>5
    <2>1. w = k % N
      BY <1>2, <1>4, OnceRound
    <2>2. k + 1 \in k + 1 .. n /\ (k + 1) - 1 = k
      BY <1>2
    <2>3. global_buffer[w] = k + 1
      BY <1>5, <2>1, <2>2
    <2> QED
      BY <1>1, <1>2, <2>3 DEF NULL
  <1>9. Window'
    <2>1. ASSUME NEW l \in k + 1 .. n + 1
          PROVE  global_buffer'[(l - 1) % N] = l
      <3>1. CASE l = n + 1
        BY <1>1, <1>2, <1>4, <3>1
      <3>2. CASE l # n + 1
        <4>1. l \in k + 1 .. n /\ l - 1 \in Nat
          BY <1>2, <3>2
        <4>2. global_buffer[(l - 1) % N] = l /\ (l - 1) % N \in Cells
          BY <1>5, <4>1, Division DEF Cells
        <4>3. l # NULL
          BY <1>2, <4>1 DEF NULL
        <4>4. (l - 1) % N # w
          BY <1>1, <4>2, <4>3
        <4> QED
          BY <1>1, <1>2, <4>2, <4>4
      <3> QED
        BY <3>1, <3>2
    <2>2. ASSUME NEW i \in Cells, global_buffer'[i] # NULL
          PROVE  /\ global_buffer'[i] \in k + 1 .. n + 1
                 /\ i = (global_buffer'[i] - 1) % N
      <3>1. CASE i = w
        <4>1. global_buffer'[i] = n + 1 /\ (n + 1) - 1 = n
          BY <1>1, <1>2, <3>1
        <4>2. n + 1 \in k + 1 .. n + 1
          BY <1>2, <1>5
        <4> QED
          BY <1>4, <3>1, <4>1, <4>2
      <3>2. CASE i # w
        <4>1. global_buffer'[i] = global_buffer[i]
          BY <1>1, <1>2, <3>2
        <4>2. global_buffer[i] \in k + 1 .. n + 1
          BY <1>2, <1>5, <2>2, <4>1
        <4> QED
          BY <1>5, <2>2, <4>1, <4>2
      <3> QED
        BY <3>1, <3>2
    <2>3. n' = n + 1 /\ Len(consumed') = Len(consumed)
      BY <1>1 DEF n
    <2> QED
      BY <1>2, <1>5, <1>7, <1>8, <2>1, <2>2, <2>3 DEF Window, k, n
  <1>10. WritingPos'
    <2>1. pc'[p] = "P_post"
      BY <1>1, <1>2 DEF Threads
    <2>2. line_nr' > 0 /\ line_nr' - 1 = n
      BY <1>1, <1>2
    <2>3. writing_pos' = (line_nr' - 1) % N
      BY <1>1, <1>4, <2>2 DEF w
    <2> QED
      BY <2>1, <2>2, <2>3 DEF WritingPos, P_AfterStore
  <1>11. ReadingPos' /\ ConsumedInOrder'
    BY <1>1, <1>6 DEF RingInv, ReadingPos, ConsumedInOrder
  <1> QED
    BY <1>9, <1>10, <1>11

(* A line looked at by a consumer (zad2.c:167) was the beginning of the     *)
(* window, and stays in it.                                                 *)
LEMMA LookKeepsRing ==
    ASSUME RingInv, NEW c \in Consumers, C_Look(c)
    PROVE  /\ Window' /\ WritingPos' /\ ReadingPos' /\ ConsumedInOrder'
           /\ Len(consumed) < line_nr
           /\ global_buffer[reading_pos] = Len(consumed) + 1
  <1> DEFINE k == Len(consumed)
             n == line_nr
             r == reading_pos
  <1> USE SemConstantsAssumption
  <1>1. /\ pc[c] = "C_look" /\ pc' = [pc EXCEPT ![c] = "C_clear"]
        /\ global_buffer[r] # NULL
        /\ consumed' = Append(consumed, global_buffer[r])
        /\ UNCHANGED <<global_buffer, writing_pos, reading_pos, line_nr>>
    BY DEF C_Look, Goto, ring, file, RingInv, TokenInv, LineInHand
  <1>2. /\ pc \in [Threads -> P_Places \union C_Places]
        /\ k \in Nat /\ n \in Nat /\ r \in Cells /\ r \in 0..(N - 1)
        /\ global_buffer \in [Cells -> 0..NLines]
        /\ consumed \in Seq(Lines)
    BY DEF RingInv, TokenInv, TypeOK, Cells
  <1>3. \A d \in Consumers : pc[d] \notin C_AfterLook
    BY <1>1, OneConsumerAtPos DEF RingInv, C_HoldsRead, C_AfterLook, C_Places
  <1>4. r = k % N
    BY <1>3 DEF RingInv, ReadingPos
  <1>5. Cleared = k
    BY <1>3, ClearedIs DEF C_AfterLook
  <1>6. /\ k <= n /\ n <= k + N
        /\ \A l \in k + 1 .. n : global_buffer[(l - 1) % N] = l
        /\ \A i \in Cells : global_buffer[i] # NULL =>
              global_buffer[i] \in k + 1 .. n /\ i = (global_buffer[i] - 1) % N
    BY <1>5 DEF RingInv, Window
  <1>7. \A i \in 1..k : consumed[i] = i
    BY DEF RingInv, ConsumedInOrder
  <1> HIDE DEF n, r
  <1>8. global_buffer[r] \in k + 1 .. n
    BY <1>1, <1>2, <1>6
  <1>9. k < n /\ global_buffer[r] = k + 1
    <2>1. k + 1 \in k + 1 .. n /\ (k + 1) - 1 = k
      BY <1>2, <1>8
    <2> QED
      BY <1>2, <1>4, <1>6, <2>1
  <1>10. /\ Len(consumed') = k + 1
         /\ \A i \in 1..k : consumed'[i] = consumed[i]
         /\ consumed'[k + 1] = k + 1
    <2>1. global_buffer[r] \in Lines
      BY <1>1, <1>2 DEF Lines, NULL
    <2> QED
      BY <1>1, <1>2, <1>9, <2>1, AppendProperties
  <1> HIDE DEF k
  <1>11. pc'[c] = "C_clear"
    BY <1>1, <1>2 DEF Threads
  <1>12. Cleared' = k
    BY <1>2, <1>10, <1>11 DEF Cleared
  <1>13. Window'
    BY <1>1, <1>2, <1>6, <1>9, <1>10, <1>12 DEF Window, n
  <1>14. ReadingPos'
    <2>1. Len(consumed') > 0 /\ Len(consumed') - 1 = k
      BY <1>2, <1>10
    <2>2. reading_pos' = (Len(consumed') - 1) % N
      BY <1>1, <1>4, <2>1 DEF r
    <2> QED
      BY <1>11, <2>1, <2>2 DEF ReadingPos, C_AfterLook
  <1>15. \A p \in Producers : pc'[p] = pc[p]
    BY <1>1, <1>2 DEF Threads
  <1>16. WritingPos'
    BY <1>1, <1>15 DEF RingInv, WritingPos, n
  <1>17. ConsumedInOrder'
    BY <1>2, <1>7, <1>10 DEF ConsumedInOrder
  <1> QED
    BY <1>9, <1>13, <1>14, <1>16, <1>17 DEF k, n, r

(* Clearing a cell (zad2.c:180) takes its line, the one looked at last, out *)
(* of the window.                                                           *)
LEMMA ClearKeepsRing ==
    ASSUME RingInv, NEW c \in Consumers, C_Clear(c)
    PROVE  /\ Window' /\ WritingPos' /\ ReadingPos' /\ ConsumedInOrder'
           /\ Len(consumed) > 0
           /\ reading_pos = (Len(consumed) - 1) % N
           /\ global_buffer[reading_pos] = Len(consumed)
  <1> DEFINE k == Cleared
             n == line_nr
             r == reading_pos
  <1> USE SemConstantsAssumption
  <1>1. /\ pc[c] = "C_clear" /\ pc' = [pc EXCEPT ![c] = "C_post"]
        /\ global_buffer' = [global_buffer EXCEPT ![r] = NULL]
        /\ UNCHANGED <<writing_pos, reading_pos, line_nr, consumed>>
    BY DEF C_Clear, Goto, file, result
  <1>2. /\ pc \in [Threads -> P_Places \union C_Places]
        /\ Len(consumed) \in Nat /\ n \in Nat /\ r \in Cells /\ r \in 0..(N - 1)
        /\ global_buffer \in [Cells -> 0..NLines] /\ k \in Nat
    BY DEF RingInv, TokenInv, TypeOK, Cells, Window
  <1>3. Len(consumed) = k + 1
    BY <1>1, <1>2, ClearedIs
  <1>4. r = k % N
    BY <1>1, <1>2, <1>3 DEF RingInv, ReadingPos, C_AfterLook
  <1>5. /\ k + 1 <= n /\ n <= k + N
        /\ \A l \in k + 1 .. n : global_buffer[(l - 1) % N] = l
        /\ \A i \in Cells : global_buffer[i] # NULL =>
              global_buffer[i] \in k + 1 .. n /\ i = (global_buffer[i] - 1) % N
    BY <1>3 DEF RingInv, Window
  <1>6. ASSUME NEW d \in Consumers PROVE pc'[d] # "C_clear"
    <2>1. CASE d = c
      BY <1>1, <1>2, <2>1 DEF Threads
    <2>2. CASE d # c
      <3>1. pc[c] \in C_HoldsRead
        BY <1>1 DEF C_HoldsRead, C_Places
      <3>2. pc[d] # "C_clear"
        BY <2>2, <3>1, OneConsumerAtPos DEF RingInv, C_AfterLook
      <3> QED
        BY <1>1, <1>2, <2>2, <3>2 DEF Threads
    <2> QED
      BY <2>1, <2>2
  <1>7. Cleared' = k + 1
    BY <1>1, <1>3, <1>6 DEF Cleared
  <1> HIDE DEF k, n, r
  <1>8. global_buffer[r] = k + 1
    <2>1. k + 1 \in k + 1 .. n /\ (k + 1) - 1 = k
      BY <1>2, <1>5
    <2> QED
      BY <1>4, <1>5, <2>1
  <1>9. Window'
    <2>1. ASSUME NEW l \in k + 2 .. n
          PROVE  global_buffer'[(l - 1) % N] = l
      <3>1. l \in k + 1 .. n /\ l - 1 \in Nat /\ l # k + 1
        BY <1>2
      <3>2. global_buffer[(l - 1) % N] = l /\ (l - 1) % N \in Cells
        BY <1>5, <3>1, Division DEF Cells
      <3>3. (l - 1) % N # r
        BY <1>8, <3>1, <3>2
      <3> QED
        BY <1>1, <1>2, <3>2, <3>3
    <2>2. ASSUME NEW i \in Cells, global_buffer'[i] # NULL
          PROVE  /\ global_buffer'[i] \in k + 2 .. n
                 /\ i = (global_buffer'[i] - 1) % N
      <3>1. i # r /\ global_buffer'[i] = global_buffer[i]
        BY <1>1, <1>2, <2>2
      <3>2. global_buffer[i] \in k + 1 .. n /\ i = (global_buffer[i] - 1) % N
        BY <1>5, <2>2, <3>1
      <3>3. global_buffer[i] # k + 1
        <4>1. (k + 1) - 1 = k
          BY <1>2
        <4> QED
          BY <1>4, <3>1, <3>2, <4>1
      <3> QED
        BY <1>2, <3>1, <3>2, <3>3
    <2>3. n' = n /\ Len(consumed') = k + 1
      BY <1>1, <1>3 DEF n
    <2>4. n <= k + 1 + N /\ k + 1 + 1 = k + 2
      BY <1>2, <1>5
    <2> QED
      BY <1>2, <1>5, <1>7, <2>1, <2>2, <2>3, <2>4 DEF Window, n
  <1>10. ReadingPos'
    <2>1. pc'[c] = "C_post"
      BY <1>1, <1>2 DEF Threads
    <2>2. Len(consumed') > 0 /\ Len(consumed') - 1 = k
      BY <1>1, <1>2, <1>3
    <2>3. reading_pos' = (Len(consumed') - 1) % N
      BY <1>1, <1>4, <2>2 DEF r
    <2> QED
      BY <2>1, <2>2, <2>3 DEF ReadingPos, C_AfterLook
  <1>11. \A p \in Producers : pc'[p] = pc[p]
    BY <1>1, <1>2 DEF Threads
  <1>12. WritingPos' /\ ConsumedInOrder'
    BY <1>1, <1>11 DEF RingInv, WritingPos, ConsumedInOrder, n
  <1> QED
    BY <1>2, <1>3, <1>4, <1>8, <1>9, <1>10, <1>12 DEF r

(* Advancing a position (zad2.c:113, 186) puts it back on its end of the   *)
(* window.                                                                  *)
LEMMA AdvanceKeepsRing ==
    ASSUME RingInv
    PROVE  /\ \A p \in Producers : P_Advance(p) =>
                 Window' /\ WritingPos' /\ ReadingPos' /\ ConsumedInOrder'
           /\ \A c \in Consumers : C_Advance(c) =>
                 Window' /\ WritingPos' /\ ReadingPos' /\ ConsumedInOrder'
  <1> USE SemConstantsAssumption
  <1>0. /\ pc \in [Threads -> P_Places \union C_Places]
        /\ Len(consumed) \in Nat /\ line_nr \in Nat
    BY DEF RingInv, TokenInv, TypeOK
  <1>1. ASSUME NEW p \in Producers, P_Advance(p)
        PROVE  Window' /\ WritingPos' /\ ReadingPos' /\ ConsumedInOrder'
    <2>1. /\ pc[p] = "P_advance" /\ pc' = [pc EXCEPT ![p] = "P_lock_write"]
          /\ writing_pos' = (writing_pos + 1) % N
          /\ UNCHANGED <<global_buffer, reading_pos, line_nr, consumed>>
      BY <1>1 DEF P_Advance, Goto, NextPos, file, result
    <2>2. line_nr > 0 /\ writing_pos = (line_nr - 1) % N
      BY <2>1 DEF RingInv, WritingPos, P_AfterStore
    <2>3. line_nr - 1 \in Nat /\ (line_nr - 1) + 1 = line_nr
      BY <1>0, <2>2
    <2>4. writing_pos' = line_nr % N
      BY <2>1, <2>2, <2>3, NextCell
    <2>5. pc[p] \in P_HoldsWrite
      BY <2>1 DEF P_HoldsWrite, P_Places
    <2>6. ASSUME NEW q \in Producers PROVE pc'[q] \notin P_AfterStore
      <3>1. CASE q = p
        BY <1>0, <2>1, <3>1 DEF Threads, P_AfterStore
      <3>2. CASE q # p
        BY <1>0, <2>1, <2>5, <3>2, OneProducerAtPos DEF RingInv, Threads
      <3> QED
        BY <3>1, <3>2
    <2>7. \A c \in Consumers : pc'[c] = pc[c]
      BY <1>0, <2>1 DEF Threads
    <2>8. Cleared' = Cleared
      BY <2>1, <2>7 DEF Cleared
    <2> QED
      BY <2>1, <2>4, <2>6, <2>7, <2>8
      DEF RingInv, Window, WritingPos, ReadingPos, ConsumedInOrder
  <1>2. ASSUME NEW c \in Consumers, C_Advance(c)
        PROVE  Window' /\ WritingPos' /\ ReadingPos' /\ ConsumedInOrder'
    <2>1. /\ pc[c] = "C_advance" /\ pc' = [pc EXCEPT ![c] = "C_lock_read"]
          /\ reading_pos' = (reading_pos + 1) % N
          /\ UNCHANGED <<global_buffer, writing_pos, line_nr, consumed>>
      BY <1>2 DEF C_Advance, Goto, NextPos, file, result
    <2>2. Len(consumed) > 0 /\ reading_pos = (Len(consumed) - 1) % N
      BY <2>1 DEF RingInv, ReadingPos, C_AfterLook
    <2>3. Len(consumed) - 1 \in Nat /\ (Len(consumed) - 1) + 1 = Len(consumed)
      BY <1>0, <2>2
    <2>4. reading_pos' = Len(consumed) % N
      BY <2>1, <2>2, <2>3, NextCell
    <2>5. pc[c] \in C_HoldsRead
      BY <2>1 DEF C_HoldsRead, C_Places
    <2>6. ASSUME NEW d \in Consumers
          PROVE  pc[d] # "C_clear" /\ pc'[d] # "C_clear" /\ pc'[d] \notin C_AfterLook
      <3>1. CASE d = c
        BY <1>0, <2>1, <3>1 DEF Threads, C_AfterLook
      <3>2. CASE d # c
        BY <1>0, <2>1, <2>5, <3>2, OneConsumerAtPos DEF RingInv, Threads, C_AfterLook
      <3> QED
        BY <3>1, <3>2
    <2>7. \A p \in Producers : pc'[p] = pc[p]
      BY <1>0, <2>1 DEF Threads
    <2>8. Cleared' = Cleared
      BY <2>1, <2>6 DEF Cleared
    <2> QED
      BY <2>1, <2>4, <2>6, <2>7, <2>8
      DEF RingInv, Window, WritingPos, ReadingPos, ConsumedInOrder
  <1> QED
    BY <1>1, <1>2

(* Every step keeps the ring a window of the file.                          *)
LEMMA NextRingInv == RingInv /\ [Next]_vars => RingInv'
  <1> SUFFICES ASSUME RingInv, [Next]_vars PROVE RingInv'
    OBVIOUS
  <1>1. TokenInv'
    BY NextTokenInv DEF RingInv
  <1>2. Window' /\ WritingPos' /\ ReadingPos' /\ ConsumedInOrder'
    BY RingTouched, RingUntouched, StoreKeepsRing, LookKeepsRing, ClearKeepsRing,
       AdvanceKeepsRing DEF RingInv, TokenInv
  <1> QED
    BY <1>1, <1>2 DEF RingInv

(* In every run, also one cut off by cancellations, the inductive invariant *)
(* holds: lines stored and not yet cleared are in their cells, the other    *)
(* cells are empty, lines are looked at in the order of the file.           *)
THEOREM Invariance == Spec => []IInv
  <1>1. RingInv => IInv
    BY DEF RingInv, TokenInv, IInv
  <1> QED
    BY <1>1, InitRingInv, NextRingInv, PTL DEF Spec

-----------------------------------------------------------------------------
(* The ring implements the queue of LineQueue.                              *)

QueueIsRun == RingAsQueue = Run(Len(consumed), line_nr - Len(consumed))

(* The ring, read from the next line to look at on, is the run of lines of  *)
(* the window; a line looked at and not yet cleared is not in it any more.  *)
LEMMA QueueIsWindow == RingInv => QueueIsRun
  <1> SUFFICES ASSUME RingInv PROVE QueueIsRun
    OBVIOUS
  <1>1. /\ Len(consumed) \in Nat /\ line_nr \in Nat
        /\ Cleared \in Nat /\ Cleared <= Len(consumed)
        /\ \A l \in Cleared + 1 .. line_nr : global_buffer[(l - 1) % N] = l
    BY SemConstantsAssumption, ClearedIs DEF RingInv, TokenInv, TypeOK, Window
  <1>2. ASSUME NEW i \in 1..(line_nr - Len(consumed))
        PROVE  global_buffer[(Len(consumed) + i - 1) % N] = Len(consumed) + i
    <2>1. Len(consumed) + i \in Cleared + 1 .. line_nr
      BY <1>1
    <2> QED
      BY <1>1, <2>1
  <1> QED
    BY <1>2 DEF QueueIsRun, RingAsQueue, Run

(* The same in the next state.                                              *)
LEMMA QueueIsWindowNext == RingInv' => QueueIsRun'
  BY QueueIsWindow, PTL

(* The threads start with the empty queue of LineQueue.                     *)
LEMMA InitImplements == Init => LQ!LQInit
  <1> SUFFICES ASSUME Init PROVE LQ!LQInit
    OBVIOUS
  <1>1. RingAsQueue = <<>>
    BY DEF Init, RingAsQueue
  <1> QED
    BY <1>1 DEF Init, LQ!LQInit

(* Both counts are line numbers, and no line is looked at before it is      *)
(* stored.                                                                  *)
LEMMA QueueSize ==
    ASSUME RingInv
    PROVE  /\ Len(consumed) \in Nat /\ consumed \in Seq(Lines)
           /\ line_nr \in Nat /\ line_nr <= NLines
           /\ Len(consumed) <= line_nr
  BY SemConstantsAssumption DEF RingInv, TokenInv, TypeOK, Window

(* Storing a line is the step Put of the queue: there is room for it, as    *)
(* the line looked at last still counts among the N of the window until its *)
(* cell is cleared.                                                         *)
LEMMA StoreImplementsPut ==
    ASSUME RingInv, RingInv', NEW p \in Producers, P_Store(p)
    PROVE  LQ!Put
  <1> DEFINE k == Len(consumed)
             m == line_nr - Len(consumed)
  <1>1. /\ pc[p] = "P_store" /\ line_nr' = line_nr + 1
        /\ UNCHANGED <<consumed, line_counter>>
    BY DEF P_Store, Goto, result
  <1>2. /\ k \in Nat /\ m \in Nat /\ m + 1 \in Nat /\ line_nr = k + m
        /\ line_nr \in Nat
    <2>1. k \in Nat /\ line_nr \in Nat /\ k <= line_nr
      BY SemConstantsAssumption, QueueSize
    <2> QED
      BY <2>1
  <1>3. line_nr < NLines
    BY <1>1, <1>2, SemConstantsAssumption DEF RingInv, TokenInv, TypeOK
  <1>4. line_nr' - Len(consumed') = m + 1
    BY <1>1, <1>2
  <1>5. m + 1 <= N
    <2>1. \/ Cleared' = Len(consumed) /\ line_nr + 1 <= Len(consumed) + N
          \/ Cleared' = Len(consumed) - 1 /\ line_nr + 1 <= (Len(consumed) - 1) + N
      BY <1>1, <1>2 DEF RingInv, Window, Cleared
    <2> QED
      BY <1>2, <2>1, SemConstantsAssumption
  <1>6. RingAsQueue = Run(k, m)
    BY QueueIsWindow DEF QueueIsRun
  <1>7. RingAsQueue' = Run(k, m + 1)
    BY <1>1, <1>4, QueueIsWindowNext DEF QueueIsRun
  <1> HIDE DEF k, m
  <1>8. Len(RingAsQueue) = m /\ RingAsQueue' = Append(RingAsQueue, line_nr + 1)
    BY <1>2, <1>6, <1>7, RunProperties
  <1>9. Len(RingAsQueue) < N
    BY <1>2, <1>5, <1>8, SemConstantsAssumption
  <1> QED
    BY <1>1, <1>3, <1>8, <1>9 DEF LQ!Put

(* Looking at a line is the step Get of the queue.                          *)
LEMMA LookImplementsGet ==
    ASSUME RingInv, RingInv', NEW c \in Consumers, C_Look(c)
    PROVE  LQ!Get
  <1> DEFINE k == Len(consumed)
             m == line_nr - Len(consumed)
  <1>1. /\ global_buffer[reading_pos] = k + 1
        /\ consumed' = Append(consumed, k + 1)
        /\ line_counter' = IF Found(k + 1) THEN line_counter + 1 ELSE line_counter
        /\ line_nr' = line_nr
    BY LookKeepsRing DEF C_Look, file
  <1>2. k \in Nat /\ line_nr \in Nat /\ line_nr <= NLines
        /\ consumed \in Seq(Lines) /\ k < line_nr
    BY LookKeepsRing, QueueSize, SemConstantsAssumption
  <1>3. k + 1 \in Lines
    BY <1>2, SemConstantsAssumption DEF Lines
  <1>4. m \in Nat /\ m > 0 /\ m - 1 \in Nat /\ k + 1 \in Nat
    BY <1>2
  <1>5. Len(consumed') = k + 1 /\ line_nr' - Len(consumed') = m - 1
    BY <1>1, <1>2, <1>3, AppendProperties
  <1>6. RingAsQueue = Run(k, m)
    BY QueueIsWindow DEF QueueIsRun
  <1>7. RingAsQueue' = Run(k + 1, m - 1)
    BY <1>5, QueueIsWindowNext DEF QueueIsRun
  <1> HIDE DEF k, m
  <1>8. /\ RingAsQueue # <<>> /\ Head(RingAsQueue) = k + 1
        /\ RingAsQueue' = Tail(RingAsQueue)
    BY <1>2, <1>4, <1>6, <1>7, RunProperties
  <1> QED
    BY <1>1, <1>3, <1>8 DEF LQ!Get

(* Clearing a cell is no step of the queue: the line left it when it was    *)
(* looked at.                                                               *)
LEMMA ClearIsStutter ==
    ASSUME RingInv, RingInv', NEW c \in Consumers, C_Clear(c)
    PROVE  UNCHANGED LQ!lqVars
  <1>1. UNCHANGED <<line_nr, consumed, line_counter>>
    BY DEF C_Clear, file, result
  <1>2. RingAsQueue' = RingAsQueue
    BY <1>1, QueueIsWindow, QueueIsWindowNext DEF QueueIsRun
  <1> QED
    BY <1>1, <1>2 DEF LQ!lqVars

(* Every step is a Put, a Get or no step at all of the queue.               *)
LEMMA NextImplements == RingInv /\ RingInv' /\ [Next]_vars => [LQ!LQNext]_(LQ!lqVars)
  <1> SUFFICES ASSUME RingInv, RingInv', [Next]_vars
               PROVE  LQ!LQNext \/ UNCHANGED LQ!lqVars
    OBVIOUS
  <1>1. ASSUME UNCHANGED <<global_buffer, line_nr, consumed, line_counter>>
        PROVE  UNCHANGED LQ!lqVars
    BY <1>1 DEF LQ!lqVars, RingAsQueue
  <1>2. ASSUME NEW p \in Producers, P_Advance(p)
        PROVE  UNCHANGED LQ!lqVars
    BY <1>1, <1>2 DEF P_Advance, file, result
  <1>3. ASSUME NEW c \in Consumers, C_Advance(c)
        PROVE  UNCHANGED LQ!lqVars
    BY <1>1, <1>3 DEF C_Advance, file, result
  <1>4. CASE RingAlone
    BY <1>1, <1>4 DEF RingAlone, ring, result
  <1> QED
    BY <1>2, <1>3, <1>4, RingTouched, StoreImplementsPut, LookImplementsGet,
       ClearIsStutter DEF RingInv, TokenInv, LQ!LQNext

(* Whatever the threads' schedule, and wherever they are cancelled: lines   *)
(* are looked at once each, in the order of the file, and counted if found. *)
THEOREM Refinement == Spec => ImplementsLineQueue
  <1>1. Init => LQ!LQInit
    BY InitImplements
  <1>2. RingInv /\ RingInv' /\ [Next]_vars => [LQ!LQNext]_(LQ!lqVars)
    BY NextImplements
  <1>3. Spec => []RingInv
    BY InitRingInv, NextRingInv, PTL DEF Spec
  <1> QED
    BY <1>1, <1>2, <1>3, PTL DEF Spec, ImplementsLineQueue, LQ!LQSpec
=============================================================================
