------------------------------ MODULE PosixBarber ------------------------------
(****************************************************************************)
(* cw07/zad2: the barber shop of Barber on POSIX objects.  The clients open *)
(* by name what the barber has created: a message queue as long as there    *)
(* are seats, a page of shared integers, and the semaphores "sem" (the      *)
(* lock), "recSem" (to the barber) and "sendSem" (to a client).  When the   *)
(* barber stops he unlinks the names, which takes nothing away from those   *)
(* who have the objects open.  The code is that of cw07/zad1 step by step   *)
(* otherwise; sem_wait is interrupted, and its failure ignored, in the same *)
(* way.  Actions with a P_ are those of this version.                       *)
(****************************************************************************)
EXTENDS Barber

P_Init == Init

(* The barber                                                               *)
P_B_Lock        == B_Lock

(* Seeded fault: the first client in the queue is only looked at.           *)
P_B_Receive_Leaves ==
    /\ Run(Barber, "B_receive", "B_invite")
    /\ queue # <<>> /\ customer' = Head(queue) /\ waiting' = waiting - 1
    /\ UNCHANGED <<queue, awake, sem, removed, pending, shaves>>

P_B_Receive     == B_Receive
P_B_Invite      == B_Invite
P_B_SitWait     == B_SitWait
P_B_Unlock      == B_Unlock
P_B_TellDone    == B_TellDone
P_B_LeaveWait   == B_LeaveWait
P_B_NobodyThere == B_NobodyThere

(* Seeded fault: he falls asleep without giving the lock back.              *)
P_B_UnlockAsleep_Keeps ==
    Run(Barber, "B_unlock_asleep", "B_asleep") /\ UNCHANGED <<shop, pending, customer, shaves>>

P_B_UnlockAsleep == B_UnlockAsleep
P_B_WakesUp      == B_WakesUp
P_H_WokenUp      == H_WokenUp
P_H_Confirm      == H_Confirm
P_H_SitWait      == H_SitWait
P_H_TellDone     == H_TellDone
P_H_LeaveWait    == H_LeaveWait

(* A client; mq_send waits for one of as many places as there are seats.    *)
P_C_Again(c)        == C_Again(c)
P_C_Lock(c)         == C_Lock(c)
P_C_FreeSeat(c)     == C_FreeSeat(c)
P_C_Sit(c)          == SitDown(c, Seats)
P_C_UnlockQueued(c) == C_UnlockQueued(c)
P_C_Shaved(c)       == C_Shaved(c)
P_C_NoFreeSeats(c)  == C_NoFreeSeats(c)
P_C_UnlockFull(c)   == C_UnlockFull(c)
P_C_WakeUp(c)       == C_WakeUp(c)
P_C_WakeWait(c)     == C_WakeWait(c)
P_C_UnlockChair(c)  == C_UnlockChair(c)
P_C_InChair(c)      == C_InChair(c)
P_C_ShaveWait(c)    == C_ShaveWait(c)
P_C_Leave(c)        == C_Leave(c)
P_S_Invited(c)      == S_Invited(c)
P_S_Sit(c)          == S_Sit(c)
P_S_ShaveWait(c)    == S_ShaveWait(c)
P_S_Leave(c)        == S_Leave(c)

(* catchSIGINT of both: the process ends where it is.                       *)
P_Stops(p) == Stops(p)

-----------------------------------------------------------------------------
P_BarberStep ==
    \/ P_B_Receive   \/ P_B_Invite      \/ P_B_SitWait      \/ P_B_Unlock   \/ P_B_TellDone
    \/ P_B_LeaveWait \/ P_B_NobodyThere \/ P_B_UnlockAsleep \/ P_B_WakesUp
    \/ P_H_WokenUp   \/ P_H_Confirm     \/ P_H_SitWait      \/ P_H_TellDone \/ P_H_LeaveWait

P_ClientStep(c) ==
    \/ P_C_Again(c)    \/ P_C_FreeSeat(c)    \/ P_C_Sit(c)        \/ P_C_UnlockQueued(c)
    \/ P_C_Shaved(c)   \/ P_C_NoFreeSeats(c) \/ P_C_UnlockFull(c) \/ P_C_WakeUp(c)
    \/ P_C_WakeWait(c) \/ P_C_UnlockChair(c) \/ P_C_InChair(c)    \/ P_C_ShaveWait(c)
    \/ P_C_Leave(c)    \/ P_S_Invited(c)     \/ P_S_Sit(c)        \/ P_S_ShaveWait(c)
    \/ P_S_Leave(c)

P_Next ==
    \/ P_B_Lock \/ P_BarberStep
    \/ \E c \in Clients : P_C_Lock(c) \/ P_ClientStep(c)
    \/ \E p \in Processes : P_Stops(p)

P_Spec == P_Init /\ [][P_Next]_vars
=============================================================================
