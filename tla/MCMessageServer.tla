--------------------------- MODULE MCMessageServer ---------------------------
(****************************************************************************)
(* Small instances of both message servers for TLC: the queues are either   *)
(* System V's or POSIX's from the start.                                    *)
(****************************************************************************)
EXTENDS PosixMessageServer

CONSTANTS a, b, d

MCMaxLines == [c \in Clients |-> IF c = d THEN 0 ELSE 1]

VARIABLE ipc     \* "System V" or "POSIX"

Either(sysv, posix) ==
    \/ ipc = "System V" /\ sysv /\ UNCHANGED ipc
    \/ ipc = "POSIX" /\ posix /\ UNCHANGED ipc

MCInit == \/ ipc = "System V" /\ Init
          \/ ipc = "POSIX" /\ P_Init

MCSpec == MCInit /\ [][Either(Next, P_Next)]_<<vars, ipc>>

(* FairSpec and P_FairSpec.                                                 *)
MCFairSpec ==
    /\ MCSpec
    /\ WF_vars(Either(ServerStep, P_ServerStep))
    /\ \A c \in Clients : WF_vars(Either(ClientStep(c), P_ClientStep(c)))
=============================================================================
