--------------------------- MODULE PosixMessageServer ---------------------------
(****************************************************************************)
(* cw06/zad2: the message server of cw06/zad1 on POSIX queues.  Server and  *)
(* clients do the same as there, and those of their actions are taken from  *)
(* MessageServer; what differs is the life of a queue.                      *)
(*                                                                          *)
(* The server opens a client's queue, "/" followed by its pid, when START   *)
(* comes, and keeps the descriptor in the slot: an answer to a client that  *)
(* has closed and unlinked its queue goes to nobody, as does one through a  *)
(* descriptor that could not be opened.  When the server leaves it unlinks  *)
(* the name "/queue" only: clients go on sending to the queue they have     *)
(* open, until it is full, and are not told that nobody reads it.           *)
(*                                                                          *)
(* mq_send puts messages of priority 1 before those of priority 0.  The     *)
(* clients send everything with 1; a client never has two messages at once  *)
(* (AnswerIsMine), so that the priorities of the answers do not show.       *)
(****************************************************************************)
EXTENDS MessageServer

(* Seeded fault: the queue is opened with O_NONBLOCK by the clients too.    *)
P_Say_NonBlocking(message) ==
    public' = IF Len(public) < MaxQueued THEN Append(public, message) ELSE public

(* mq_send to the public queue: waits for room, and never fails.            *)
P_Say(message) == Len(public) < MaxQueued /\ public' = Append(public, message)

(* The public queue is new and empty, and the table has no clients.         *)
P_Init == Init

-----------------------------------------------------------------------------
(* The server.                                                              *)

P_Start == S_Start

P_Ask        == S_Ask
P_End        == S_End

P_Stop        == S_Stop
P_Unknown     == S_Unknown
P_Nothing     == S_Nothing
P_Check       == S_Check

P_Close ==
    /\ server_pc = "close" /\ server_pc' = "gone"
    /\ removed' = TRUE
    /\ UNCHANGED <<public, clientMsgQs, client_no, server_end, server_stop, private, clientVars>>

P_ServerSigInt == ServerSigInt

-----------------------------------------------------------------------------
(* A client.                                                                *)

P_C_Start(c) ==
    /\ ClientGoto(c, "start", "await_id")
    /\ P_Say([mType |-> "START", pid |-> c, line |-> 0])
    /\ UNCHANGED <<removed, private, client_stop, send, line, unsaid>>

P_C_GetId(c)      == C_GetId(c)
P_C_Loop(c)       == C_Loop(c)
P_C_Line(c, kind) == C_Line(c, kind)

P_C_Say(c) ==
    \E place \in {"ask", "end"} :
        /\ ClientGoto(c, place, "sent")
        /\ P_Say([mType |-> IF place = "ask" THEN "ASK" ELSE "END", pid |-> c, line |-> line[c]])
        /\ UNCHANGED <<removed, private, client_stop, send, line, unsaid>>

P_C_Wait(c)      == C_Wait(c)
P_C_DontWait(c)  == C_DontWait(c)
P_C_GetAnswer(c) == C_GetAnswer(c)
P_C_Leave(c)     == C_Leave(c)

P_C_SayStop(c) ==
    /\ ClientGoto(c, "stop", "close")
    /\ P_Say([mType |-> "STOP", pid |-> c, line |-> line[c]])
    /\ UNCHANGED <<removed, private, client_stop, send, line, unsaid>>

P_C_Close(c)      == C_Close(c)
P_ClientSigInt(c) == ClientSigInt(c)
P_C_EmptyLine(c)  == C_EmptyLine(c)

-----------------------------------------------------------------------------
P_ServerStep ==
    \/ P_Start   \/ P_Ask     \/ P_End   \/ P_Stop
    \/ P_Unknown \/ P_Nothing \/ P_Check \/ P_Close

P_ClientStep(c) ==
    \/ P_C_Start(c)    \/ P_C_GetId(c)     \/ P_C_Loop(c)  \/ P_C_Say(c)     \/ P_C_Wait(c)
    \/ P_C_DontWait(c) \/ P_C_GetAnswer(c) \/ P_C_Leave(c) \/ P_C_SayStop(c) \/ P_C_Close(c)

P_Next ==
    \/ P_ServerStep \/ P_ServerSigInt
    \/ \E c \in Clients :
          \/ P_ClientStep(c) \/ P_ClientSigInt(c) \/ P_C_EmptyLine(c)
          \/ \E kind \in Lines : P_C_Line(c, kind)

P_Spec == P_Init /\ [][P_Next]_vars

(* As in MessageServer.                                                     *)
P_FairSpec ==
    /\ P_Spec
    /\ WF_vars(P_ServerStep)
    /\ \A c \in Clients : WF_vars(P_ClientStep(c))

-----------------------------------------------------------------------------
(* Properties, besides those of MessageServer                               *)

(* A client with a slot that asks gets an answer, even if the public queue  *)
(* is full, unless SIGINT makes it leave, or the server leaves.             *)
P_Answered ==
    \A c \in Clients :
        client_pc[c] = "ask" /\ Known(c)
            ~> client_pc[c] = "loop" \/ client_stop[c] \/ server_stop \/ server_end
                 \/ server_pc = "undefined"
=============================================================================
