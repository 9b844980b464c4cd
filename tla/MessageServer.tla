----------------------------- MODULE MessageServer -----------------------------
(****************************************************************************)
(* cw06/zad1: a server and its clients on System V message queues.  Clients *)
(* send to the public queue; the server answers to the private queue that a *)
(* client named in its START message, which it keeps in a table of a fixed  *)
(* number of slots.  A client asks, waits for the answer, and asks again;   *)
(* on SIGINT it says STOP and leaves.  END, or a SIGINT of its own, makes   *)
(* the server leave and take the public queue with it.                      *)
(*                                                                          *)
(* MIRROR, ADD, MUL, SUB, DIV and TIME are one kind of request here, ASK,   *)
(* and an answer is the number of the line it answers.  A signal handler    *)
(* makes msgsnd and msgrcv fail if they are blocked, whatever its flags.    *)
(****************************************************************************)
EXTENDS Integers, Sequences, FiniteSets

CONSTANTS Clients,
          NoClient,       \* pid 0
          MaxClients,     \* MAX_NO_OF_CLIENTS: slots of the table
          MaxQueued,      \* messages the public queue can hold
          Lines,          \* kinds of lines on the clients' standard input
          MaxLines,       \* lines before the end of each client's input
          SigInt,         \* processes that may get SIGINT: Clients, "server"
          Mortal          \* clients that may die without saying STOP

ASSUME MessageServerAssumption ==
    /\ NoClient \notin Clients /\ "server" \notin Clients
    /\ MaxClients \in Nat \ {0} /\ MaxQueued \in Nat \ {0} /\ MaxLines \in [Clients -> Nat]
    /\ Lines \subseteq {"ASK", "WRONG", "END"}
    /\ SigInt \subseteq Clients \union {"server"} /\ Mortal \subseteq Clients

VARIABLES public,         \* the public queue
          removed,        \* the server has removed it
          clientMsgQs,    \* the server's table
          client_no,      \* its cursor
          server_pc, server_end, server_stop,
          private,        \* the private queue of each client
          client_pc, client_stop,
          send,           \* local variable of the same name
          line,           \* lines each client has read
          unsaid          \* history variable: clients whose STOP was not sent

serverVars == <<clientMsgQs, client_no, server_pc, server_end, server_stop>>
clientVars == <<client_pc, client_stop, send, line, unsaid>>
vars == <<public, removed, serverVars, private, clientVars>>

Slots == 0..(MaxClients - 1)

Init ==
    /\ public = <<>> /\ removed = FALSE
    /\ clientMsgQs = [i \in Slots |-> NoClient] /\ client_no = 0
    /\ server_pc = "receive" /\ server_end = FALSE /\ server_stop = FALSE
    /\ private = [c \in Clients |-> <<>>]
    /\ client_pc = [c \in Clients |-> "start"]
    /\ client_stop = [c \in Clients |-> FALSE]
    /\ send = [c \in Clients |-> 0] /\ line = [c \in Clients |-> 0]
    /\ unsaid = {}

-----------------------------------------------------------------------------
(* The server takes one message after the other and handles it completely.  *)

Receive(mType) ==
    /\ server_pc = "receive" /\ public # <<>> /\ Head(public).mType = mType
    /\ public' = Tail(public)
    /\ UNCHANGED <<removed, server_stop, clientVars>>

(* The slot of client c, or one past the table if it has none.              *)
SlotOf(c) ==
    CHOOSE i \in 0..MaxClients :
        /\ i = MaxClients \/ clientMsgQs[i] = c
        /\ \A j \in 0..(i - 1) : clientMsgQs[j] # c
Known(c) == SlotOf(c) < MaxClients

(* msgsnd to the queue in slot i: fails if the client has removed it.       *)
Answer(q, answer) ==
    private' = IF client_pc[q] = "done" THEN private
               ELSE [private EXCEPT ![q] = Append(@, answer)]

Free     == {i \in Slots : clientMsgQs[i] = NoClient}
First(S) == CHOOSE i \in S : \A j \in S : i <= j

(* Seeded fault: the search gives up at the end of the table.               *)
Search_OneWay(start) ==
    LET ahead == {i \in Free : i >= start} IN
    IF ahead # {} THEN [slot |-> First(ahead), flag |-> 0] ELSE [slot |-> 0, flag |-> 2]

(* The search for a free slot: from the cursor on, then from the beginning. *)
(* flag counts how often it came to the end of the table.                   *)
Search(start) ==
    LET ahead == {i \in Free : i >= start} IN
    CASE ahead # {}                  -> [slot |-> First(ahead), flag |-> 0]
      [] ahead = {} /\ Free # {}     -> [slot |-> First(Free), flag |-> 1]
      [] OTHER                       -> [slot |-> 0, flag |-> 2]

S_Start ==
    LET c == Head(public).pid  found == Search(client_no) IN
    /\ Receive("START")
    /\ client_no' = found.slot
    /\ IF found.flag = 2
       THEN UNCHANGED <<clientMsgQs, private>>
       ELSE /\ clientMsgQs' = [clientMsgQs EXCEPT ![found.slot] = c]
            /\ Answer(c, 0)
    /\ server_pc' = "check" /\ UNCHANGED server_end

(* Seeded fault: the answer goes to the slot at the cursor.                 *)
S_Ask_Cursor ==
    LET c == Head(public).pid
        q == IF clientMsgQs[client_no] = NoClient THEN c ELSE clientMsgQs[client_no] IN
    /\ Receive("ASK") /\ Known(c)
    /\ Answer(q, Head(public).line)
    /\ server_pc' = "check" /\ UNCHANGED <<clientMsgQs, client_no, server_end>>

S_Ask ==
    LET c == Head(public).pid IN
    /\ Receive("ASK") /\ Known(c)
    /\ Answer(clientMsgQs[SlotOf(c)], Head(public).line)
    /\ server_pc' = "check" /\ UNCHANGED <<clientMsgQs, client_no, server_end>>

S_End ==
    /\ Receive("END")
    /\ server_end' = TRUE
    /\ server_pc' = "check" /\ UNCHANGED <<clientMsgQs, client_no, private>>

(* Seeded fault: the slot at the cursor is given back.                      *)
S_Stop_Cursor ==
    /\ Receive("STOP") /\ Known(Head(public).pid)
    /\ clientMsgQs' = [clientMsgQs EXCEPT ![client_no] = NoClient]
    /\ server_pc' = "check" /\ UNCHANGED <<client_no, private, server_end>>

S_Stop ==
    /\ Receive("STOP") /\ Known(Head(public).pid)
    /\ clientMsgQs' = [clientMsgQs EXCEPT ![SlotOf(Head(public).pid)] = NoClient]
    /\ server_pc' = "check" /\ UNCHANGED <<client_no, private, server_end>>

(* An answer read from, or an empty slot written to, one past the table:    *)
(* nothing is known of the server afterwards.                               *)
S_Unknown ==
    /\ Receive("ASK") \/ Receive("STOP")
    /\ ~ Known(Head(public).pid)
    /\ server_pc' = "undefined"
    /\ UNCHANGED <<clientMsgQs, client_no, private, server_end>>

S_Nothing ==
    /\ server_pc = "receive" /\ public = <<>>
    /\ server_pc' = "check"
    /\ UNCHANGED <<public, removed, clientMsgQs, client_no, server_end, server_stop,
                   private, clientVars>>

(* Seeded fault: END is not tested for.                                     *)
S_Check_StopOnly ==
    /\ server_pc = "check"
    /\ server_pc' = IF server_stop THEN "close" ELSE "receive"
    /\ UNCHANGED <<public, removed, clientMsgQs, client_no, server_end, server_stop,
                   private, clientVars>>

S_Check ==
    /\ server_pc = "check"
    /\ server_pc' = IF server_stop \/ server_end THEN "close" ELSE "receive"
    /\ UNCHANGED <<public, removed, clientMsgQs, client_no, server_end, server_stop,
                   private, clientVars>>

S_Close ==
    /\ server_pc = "close" /\ server_pc' = "gone"
    /\ public' = <<>> /\ removed' = TRUE
    /\ UNCHANGED <<clientMsgQs, client_no, server_end, server_stop, private, clientVars>>

ServerSigInt ==
    /\ "server" \in SigInt /\ server_pc \in {"receive", "check", "close"}
    /\ server_stop' = TRUE
    /\ UNCHANGED <<public, removed, clientMsgQs, client_no, server_pc, server_end,
                   private, clientVars>>

-----------------------------------------------------------------------------
(* A client.                                                                *)

ClientGoto(c, from, to) ==
    /\ client_pc[c] = from /\ client_pc' = [client_pc EXCEPT ![c] = to]
    /\ UNCHANGED serverVars

(* msgsnd: waits for room, fails on a removed queue.                        *)
Say(message) ==
    \/ ~ removed /\ Len(public) < MaxQueued /\ public' = Append(public, message)
    \/ removed /\ UNCHANGED public

C_Start(c) ==
    /\ ClientGoto(c, "start", "await_id")
    /\ Say([mType |-> "START", pid |-> c, line |-> 0])
    /\ UNCHANGED <<removed, private, client_stop, send, line, unsaid>>

(* msgrcv: waits for a message.                                             *)
Hear(c) ==
    /\ private[c] # <<>> /\ private' = [private EXCEPT ![c] = Tail(@)]
    /\ UNCHANGED <<public, removed>>

C_GetId(c) ==
    /\ ClientGoto(c, "await_id", "loop")
    /\ Hear(c) /\ UNCHANGED <<client_stop, send, line, unsaid>>

C_Loop(c) ==
    /\ ~ client_stop[c] /\ line[c] < MaxLines[c]
    /\ ClientGoto(c, "loop", "getline")
    /\ UNCHANGED <<public, removed, private, client_stop, send, line, unsaid>>

(* A line comes in.  A STOP prepared because SIGINT came meanwhile is       *)
(* overwritten by the request on the line, so it makes no difference.       *)
C_Line(c, kind) ==
    /\ client_pc[c] = "getline" /\ kind \in Lines
    /\ line' = [line EXCEPT ![c] = @ + 1]
    /\ send' = [send EXCEPT ![c] = CASE kind = "ASK" -> 1 [] kind = "END" -> 2 [] OTHER -> 0]
    /\ client_stop' = [client_stop EXCEPT ![c] = @ \/ kind = "END"]
    /\ client_pc' = [client_pc EXCEPT ![c] = CASE kind = "ASK" -> "ask" [] kind = "END" -> "end"
                                               [] OTHER -> "loop"]
    /\ UNCHANGED <<public, removed, private, serverVars, unsaid>>

C_Say(c) ==
    \/ /\ ClientGoto(c, "ask", "sent")
       /\ Say([mType |-> "ASK", pid |-> c, line |-> line[c]])
       /\ UNCHANGED <<removed, private, client_stop, send, line, unsaid>>
    \/ /\ ClientGoto(c, "end", "sent")
       /\ Say([mType |-> "END", pid |-> c, line |-> line[c]])
       /\ UNCHANGED <<removed, private, client_stop, send, line, unsaid>>

C_Wait(c) ==
    /\ ~ client_stop[c]
    /\ ClientGoto(c, "sent", "await_answer")
    /\ UNCHANGED <<public, removed, private, client_stop, send, line, unsaid>>

C_DontWait(c) ==
    /\ client_stop[c]
    /\ ClientGoto(c, "sent", "loop")
    /\ send' = [send EXCEPT ![c] = @ - 1]
    /\ UNCHANGED <<public, removed, private, client_stop, line, unsaid>>

C_GetAnswer(c) ==
    /\ ClientGoto(c, "await_answer", "loop")
    /\ send' = [send EXCEPT ![c] = @ - 1]
    /\ Hear(c) /\ UNCHANGED <<client_stop, line, unsaid>>

C_Leave(c) ==
    /\ client_stop[c]
    /\ ClientGoto(c, "loop", IF send[c] = 0 THEN "stop" ELSE "close")
    /\ UNCHANGED <<public, removed, private, client_stop, send, line, unsaid>>

C_SayStop(c) ==
    /\ ClientGoto(c, "stop", "close")
    /\ Say([mType |-> "STOP", pid |-> c, line |-> line[c]])
    /\ UNCHANGED <<removed, private, client_stop, send, line, unsaid>>

C_Close(c) ==
    /\ ClientGoto(c, "close", "done")
    /\ private' = [private EXCEPT ![c] = <<>>]
    /\ UNCHANGED <<public, removed, client_stop, send, line, unsaid>>

(* catchSIGINT: a blocked getline may fail, a blocked msgrcv or msgsnd does.*)
Interrupted(place) ==
    CASE place \in {"await_id", "getline", "await_answer"} -> {place, "loop"}
      [] place = "start" /\ Len(public) >= MaxQueued -> {place, "await_id"}
      [] place \in {"ask", "end"} /\ Len(public) >= MaxQueued -> {place, "sent"}
      [] place = "stop" /\ Len(public) >= MaxQueued -> {place, "close"}
      [] OTHER -> {place}

ClientSigInt(c) ==
    /\ c \in SigInt /\ client_pc[c] \notin {"done", "dead"}
    /\ client_stop' = [client_stop EXCEPT ![c] = TRUE]
    /\ \E place \in Interrupted(client_pc[c]) :
          /\ client_pc' = [client_pc EXCEPT ![c] = place]
          /\ send' = IF client_pc[c] = "await_answer" /\ place = "loop"
                     THEN [send EXCEPT ![c] = @ - 1] ELSE send
          /\ unsaid' = IF client_pc[c] = "stop" /\ place = "close"
                        THEN unsaid \union {c} ELSE unsaid
    /\ UNCHANGED <<public, removed, private, serverVars, line>>

(* strcmp of the first word of a line that has none: the client dies.       *)
C_EmptyLine(c) ==
    /\ c \in Mortal
    /\ ClientGoto(c, "getline", "dead")
    /\ UNCHANGED <<public, removed, private, client_stop, send, line, unsaid>>

-----------------------------------------------------------------------------
ServerStep ==
    \/ S_Start \/ S_Ask     \/ S_End   \/ S_Stop
    \/ S_Unknown \/ S_Nothing \/ S_Check \/ S_Close

ClientStep(c) ==
    \/ C_Start(c) \/ C_GetId(c) \/ C_Loop(c) \/ C_Say(c) \/ C_Wait(c) \/ C_DontWait(c)
    \/ C_GetAnswer(c) \/ C_Leave(c) \/ C_SayStop(c) \/ C_Close(c)

Next ==
    \/ ServerStep \/ ServerSigInt
    \/ \E c \in Clients :
          \/ ClientStep(c) \/ ClientSigInt(c) \/ C_EmptyLine(c)
          \/ \E kind \in Lines : C_Line(c, kind)

Spec == Init /\ [][Next]_vars

(* The processes run.  Nobody has to type a line or to press Ctrl-C.        *)
FairSpec ==
    /\ Spec
    /\ WF_vars(ServerStep)
    /\ \A c \in Clients : WF_vars(ClientStep(c))

-----------------------------------------------------------------------------
(* Properties                                                               *)

Messages == [mType : {"START", "ASK", "END", "STOP"}, pid : Clients, line : Nat]

(* The state is of the expected shape.                                      *)
TypeOK ==
    /\ public \in Seq(Messages) /\ removed \in BOOLEAN
    /\ clientMsgQs \in [Slots -> Clients \union {NoClient}] /\ client_no \in Slots
    /\ server_pc \in {"receive", "check", "close", "gone", "undefined"}
    /\ server_end \in BOOLEAN /\ server_stop \in BOOLEAN
    /\ private \in [Clients -> Seq(Nat)]
    /\ client_pc \in [Clients ->
          {"start", "await_id", "loop", "getline", "ask", "end", "sent", "await_answer",
           "stop", "close", "done", "dead"}]
    /\ client_stop \in [Clients -> BOOLEAN]
    /\ send \in [Clients -> Int] /\ line \in [Clients -> Nat] /\ unsaid \subseteq Clients

(* What a client finds in its queue answers the line it has just sent; a    *)
(* client that goes on asking has no answer left over from before.          *)
AnswerIsMine ==
    \A c \in Clients :
        /\ client_pc[c] \in {"sent", "await_answer"} /\ ~ client_stop[c]
              => Len(private[c]) <= 1 /\ (private[c] # <<>> => Head(private[c]) = line[c])
        /\ client_pc[c] \in {"loop", "getline", "ask"} /\ ~ client_stop[c]
              => private[c] = <<>>

(* Why the answers do not cross, for each client that was not told to stop: *)
(* one message of it is under way at most, and what it waits for is either  *)
(* in that message or in the answer to it.                                  *)
InHand(c) ==
    /\ \A i \in 1..Len(public) : public[i].pid = c =>
          /\ private[c] = <<>>
          /\ \/ client_pc[c] = "await_id"
             \/ /\ client_pc[c] \in {"sent", "await_answer"}
                /\ public[i].mType = "ASK" /\ public[i].line = line[c]
          /\ \A j \in 1..Len(public) : public[j].pid = c => i = j
    /\ Len(private[c]) <= 1
    /\ private[c] # <<>> =>
          \/ client_pc[c] = "await_id"
          \/ client_pc[c] \in {"sent", "await_answer"} /\ private[c][1] = line[c]
    /\ client_pc[c] \notin {"end", "stop", "close", "done"}

OneAtATime == \A c \in Clients : client_stop[c] \/ InHand(c)

(* The table fits the clients.  Whoever asks has a slot (server.c:69, "get  *)
(* client info"), so that the server never reads past its table.  Who left  *)
(* with STOP has none any more once the server has read all the client      *)
(* said, however signals and answers crossed; a slot stays taken only if    *)
(* STOP had to wait for room and one more SIGINT came meanwhile.            *)
SlotsFitClients ==
    /\ server_pc = "receive" /\ public # <<>> /\ Head(public).mType = "ASK"
          => Known(Head(public).pid)
    /\ \A c \in Clients :
          /\ client_pc[c] = "done" /\ send[c] = 0 /\ c \notin unsaid
          /\ ~ removed /\ \A i \in 1..Len(public) : public[i].pid # c
          => \A i \in Slots : clientMsgQs[i] # c

(* Why it does: a client says START first, STOP last, and asks in between,  *)
(* when it is in the table, once.                                           *)
InTable(c) == \E i \in Slots : clientMsgQs[i] = c

SaidInOrder ==
    \A i, j \in 1..Len(public) : i < j /\ public[i].pid = public[j].pid =>
        public[i].mType # "STOP" /\ public[j].mType # "START"

OneSlotEach ==
    \A i, j \in Slots :
        clientMsgQs[i] = clientMsgQs[j] /\ clientMsgQs[i] # NoClient => i = j

TableFollows ==
    /\ \A i \in 1..Len(public) :
          /\ public[i].mType = "START" => ~ InTable(public[i].pid)
          /\ public[i].mType = "ASK"   => InTable(public[i].pid)
          /\ public[i].mType = "STOP"  => client_pc[public[i].pid] \in {"close", "done"}
    /\ \A c \in Clients :
          /\ client_pc[c] = "start" =>
                ~ InTable(c) /\ private[c] = <<>>
                /\ \A i \in 1..Len(public) : public[i].pid # c
          /\ client_pc[c] = "await_id" /\ private[c] # <<>> => InTable(c)
          /\ client_pc[c] = "loop" /\ ~ client_stop[c] => InTable(c)
          /\ client_pc[c] \in {"getline", "ask", "end", "sent", "await_answer"} => InTable(c)

(* Who has left with STOP: its STOP is still to be read, or it is read and  *)
(* was the last the server ever reads of it.                                *)
LeftInOrder ==
    \A c \in Clients :
        client_pc[c] \in {"close", "done"} /\ send[c] = 0 /\ c \notin unsaid /\ ~ removed =>
            \/ \E i \in 1..Len(public) : public[i].pid = c /\ public[i].mType = "STOP"
            \/ ~ InTable(c) /\ \A i \in 1..Len(public) : public[i].pid # c

(* A client is turned away only if all slots are taken, wherever the cursor *)
(* stands.                                                                  *)
TurnedAwayOnlyIfFull ==
    [][ S_Start /\ private' = private /\ client_pc[Head(public).pid] # "done"
        => \A i \in Slots : clientMsgQs[i] # NoClient ]_vars

(* The inductive invariant.                                                 *)
IInv ==
    /\ TypeOK /\ OneAtATime
    /\ SaidInOrder /\ OneSlotEach /\ TableFollows /\ LeftInOrder

(* Who is told to stop does: a client with a slot that gets SIGINT leaves,  *)
(* also while it waits for an answer, unless the server leaves first or it  *)
(* goes on reading a line; a server that has read END or got SIGINT leaves, *)
(* and takes the queue with it, although clients keep sending.              *)
StopMeansStop ==
    /\ \A c \in Clients :
          client_stop[c] /\ Known(c)
              ~> \/ client_pc[c] \in {"done", "dead", "getline"}
                 \/ server_pc \in {"gone", "undefined"}
    /\ server_stop \/ server_end ~> removed \/ server_pc = "undefined"
=============================================================================
