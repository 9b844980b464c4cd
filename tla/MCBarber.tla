------------------------------- MODULE MCBarber -------------------------------
(****************************************************************************)
(* Small instances of both barber shops for TLC: the program is either the  *)
(* one of Barber or the one of PosixBarber from the start.                  *)
(****************************************************************************)
EXTENDS PosixBarber

CONSTANTS a, b, c

MCShaves == [p \in Clients |-> IF p = b THEN 2 ELSE 1]

VARIABLE ipc     \* "System V" or "POSIX"

Either(sysv, posix) ==
    \/ ipc = "System V" /\ sysv /\ UNCHANGED ipc
    \/ ipc = "POSIX" /\ posix /\ UNCHANGED ipc

MCInit == \/ ipc = "System V" /\ Init
          \/ ipc = "POSIX" /\ P_Init

MCSpec == MCInit /\ [][Either(Next, P_Next)]_<<vars, ipc>>

(* Every process that can run does.  The semaphore "lock" is handed over:   *)
(* the kernel queues the processes that wait for it, so the barber and each *)
(* client get it if it is free again and again.                             *)
FairSpec ==
    /\ MCSpec
    /\ WF_vars(Either(BarberStep, P_BarberStep)) /\ SF_vars(Either(B_Lock, P_B_Lock))
    /\ \A p \in Clients : /\ WF_vars(Either(ClientStep(p), P_ClientStep(p)))
                          /\ SF_vars(Either(C_Lock(p), P_C_Lock(p)))
=============================================================================
