-------------------------- MODULE MessageServerProofs --------------------------
(****************************************************************************)
(* Theorems about both message servers for every number of clients, of      *)
(* slots and of lines, and every size of the public queue.                  *)
(****************************************************************************)
EXTENDS PosixMessageServer, SequenceTheorems, WellFoundedInduction, TLAPS

-----------------------------------------------------------------------------
(* The table.                                                               *)

(* A set of numbers has a first one.                                        *)
LEMMA LeastNumber ==
    ASSUME NEW S, S \subseteq Nat, S # {}
    PROVE  \E i \in S : \A j \in S : i <= j
  <1>1. IsWellFoundedOn(OpToRel(<, Nat), Nat)
    BY NatLessThanWellFounded
  <1>2. PICK i \in S : \A j \in S : ~ (<<j, i>> \in OpToRel(<, Nat))
    BY <1>1, WFMin
  <1>3. \A j \in S : ~ (j < i)
    BY <1>2 DEF OpToRel
  <1> QED
    BY <1>3

(* The slot the search of the server ends with.                             *)
LEMMA SlotOfFinds ==
    ASSUME TypeOK, NEW c
    PROVE  /\ SlotOf(c) \in 0..MaxClients
           /\ Known(c) <=> InTable(c)
           /\ Known(c) => SlotOf(c) \in Slots /\ clientMsgQs[SlotOf(c)] = c
  <1> DEFINE S == {i \in 0..MaxClients : i = MaxClients \/ clientMsgQs[i] = c}
  <1>1. MaxClients \in Nat \ {0}
    BY MessageServerAssumption
  <1>2. MaxClients \in S /\ S \subseteq Nat
    BY <1>1
  <1>3. PICK i \in S : \A j \in S : i <= j
    BY <1>2, LeastNumber
  <1>4. \A j \in 0..(i - 1) : clientMsgQs[j] # c
    BY <1>1, <1>3
  <1>5. /\ SlotOf(c) \in 0..MaxClients
        /\ SlotOf(c) = MaxClients \/ clientMsgQs[SlotOf(c)] = c
        /\ \A j \in 0..(SlotOf(c) - 1) : clientMsgQs[j] # c
    BY <1>3, <1>4 DEF SlotOf
  <1> QED
    BY <1>1, <1>5 DEF Known, InTable, Slots

(* The search for a free slot finds one if there is one.                    *)
LEMMA SearchFinds ==
    ASSUME TypeOK
    PROVE  /\ Search(client_no).slot \in Slots
           /\ Search(client_no).flag # 2 => clientMsgQs[Search(client_no).slot] = NoClient
           /\ Search(client_no).flag = 2 <=> \A i \in Slots : clientMsgQs[i] # NoClient
  <1> DEFINE ahead == {i \in Free : i >= client_no}
  <1>1. 0 \in Slots /\ Slots \subseteq Nat /\ Free \subseteq Slots /\ ahead \subseteq Free
    BY MessageServerAssumption DEF Slots, Free
  <1>2. ASSUME NEW S \in SUBSET Free, S # {} PROVE First(S) \in Free
    <2>1. \E i \in S : \A j \in S : i <= j
      BY <1>1, <1>2, LeastNumber
    <2> QED
      BY <2>1 DEF First
  <1>3. CASE ahead # {}
    BY <1>1, <1>2, <1>3 DEF Search, Free
  <1>4. CASE ahead = {} /\ Free # {}
    BY <1>1, <1>2, <1>4 DEF Search, Free
  <1>5. CASE Free = {}
    BY <1>1, <1>5 DEF Search, Free
  <1> QED
    BY <1>3, <1>4, <1>5

-----------------------------------------------------------------------------
(* The steps of both servers and their clients.  What differs between them, *)
(* whether a message to a removed queue is lost and what is left in it, is  *)
(* left open.                                                               *)

SendsOrLoses(message) ==
    \/ public' = Append(public, message)
    \/ removed /\ UNCHANGED public

AnyClose ==
    /\ server_pc = "close" /\ server_pc' = "gone"
    /\ removed' = TRUE /\ public' \in {<<>>, public}
    /\ UNCHANGED <<clientMsgQs, client_no, server_end, server_stop, private, clientVars>>

AnyServerStep ==
    \/ S_Start   \/ S_Ask     \/ S_End   \/ S_Stop
    \/ S_Unknown \/ S_Nothing \/ S_Check \/ AnyClose \/ ServerSigInt

(* A client sends a message and goes on.                                    *)
Sends(c, from, mType, to) ==
    /\ ClientGoto(c, from, to)
    /\ SendsOrLoses([mType |-> mType, pid |-> c, line |-> IF from = "start" THEN 0 ELSE line[c]])
    /\ UNCHANGED <<removed, private, client_stop, send, line, unsaid>>

AnyClientStep(c) ==
    \/ Sends(c, "start", "START", "await_id")
    \/ Sends(c, "ask", "ASK", "sent") \/ Sends(c, "end", "END", "sent")
    \/ Sends(c, "stop", "STOP", "close")
    \/ C_GetId(c) \/ C_Loop(c) \/ C_Wait(c) \/ C_DontWait(c)
    \/ C_GetAnswer(c) \/ C_Leave(c) \/ C_Close(c)
    \/ ClientSigInt(c) \/ C_EmptyLine(c) \/ \E kind \in Lines : C_Line(c, kind)

AnyStep == AnyServerStep \/ \E c \in Clients : AnyClientStep(c)

(* A step of either server or of a client of it is one of these.            *)
LEMMA SystemVSteps == Next => AnyStep
  <1> SUFFICES ASSUME Next PROVE AnyStep
    OBVIOUS
  <1>1. ASSUME S_Close PROVE AnyClose
    BY <1>1 DEF S_Close, AnyClose
  <1>2. ASSUME NEW message, Say(message) PROVE SendsOrLoses(message)
    BY <1>2 DEF Say, SendsOrLoses
  <1>3. ASSUME NEW c \in Clients, C_Start(c) \/ C_Say(c) \/ C_SayStop(c) PROVE AnyClientStep(c)
    <2>1. CASE C_Start(c)
      <3>1. Sends(c, "start", "START", "await_id")
        BY <1>2, <2>1 DEF C_Start, Sends
      <3> QED
        BY <3>1 DEF AnyClientStep
    <2>2. CASE C_Say(c)
      <3>1. Sends(c, "ask", "ASK", "sent") \/ Sends(c, "end", "END", "sent")
        BY <1>2, <2>2 DEF C_Say, Sends
      <3> QED
        BY <3>1 DEF AnyClientStep
    <2>3. CASE C_SayStop(c)
      <3>1. Sends(c, "stop", "STOP", "close")
        BY <1>2, <2>3 DEF C_SayStop, Sends
      <3> QED
        BY <3>1 DEF AnyClientStep
    <2> QED
      BY <1>3, <2>1, <2>2, <2>3
  <1>4. ASSUME ServerStep \/ ServerSigInt PROVE AnyServerStep
    BY <1>1, <1>4 DEF ServerStep, AnyServerStep
  <1>5. ASSUME NEW c \in Clients,
               \/ ClientStep(c) \/ ClientSigInt(c) \/ C_EmptyLine(c)
               \/ \E kind \in Lines : C_Line(c, kind)
        PROVE  AnyClientStep(c)
    BY <1>3, <1>5 DEF ClientStep, AnyClientStep
  <1> QED
    BY <1>4, <1>5 DEF Next, AnyStep

(* The same for the POSIX server and its clients.                           *)
LEMMA PosixSteps == P_Next => AnyStep
  <1> SUFFICES ASSUME P_Next PROVE AnyStep
    OBVIOUS
  <1>1. ASSUME P_Close PROVE AnyClose
    BY <1>1 DEF P_Close, AnyClose
  <1>2. ASSUME NEW message, P_Say(message) PROVE SendsOrLoses(message)
    BY <1>2 DEF P_Say, SendsOrLoses
  <1>3. ASSUME NEW c \in Clients, P_C_Start(c) \/ P_C_Say(c) \/ P_C_SayStop(c)
        PROVE  AnyClientStep(c)
    <2>1. CASE P_C_Start(c)
      <3>1. Sends(c, "start", "START", "await_id")
        BY <1>2, <2>1 DEF P_C_Start, Sends
      <3> QED
        BY <3>1 DEF AnyClientStep
    <2>2. CASE P_C_Say(c)
      <3>1. Sends(c, "ask", "ASK", "sent") \/ Sends(c, "end", "END", "sent")
        BY <1>2, <2>2 DEF P_C_Say, Sends
      <3> QED
        BY <3>1 DEF AnyClientStep
    <2>3. CASE P_C_SayStop(c)
      <3>1. Sends(c, "stop", "STOP", "close")
        BY <1>2, <2>3 DEF P_C_SayStop, Sends
      <3> QED
        BY <3>1 DEF AnyClientStep
    <2> QED
      BY <1>3, <2>1, <2>2, <2>3
  <1>4. ASSUME P_ServerStep \/ P_ServerSigInt PROVE AnyServerStep
    BY <1>1, <1>4 DEF P_ServerStep, P_ServerSigInt, P_Start, P_Ask, P_End, P_Stop, P_Unknown,
                      P_Nothing, P_Check, AnyServerStep
  <1>5. ASSUME NEW c \in Clients,
               \/ P_ClientStep(c) \/ P_ClientSigInt(c) \/ P_C_EmptyLine(c)
               \/ \E kind \in Lines : P_C_Line(c, kind)
        PROVE  AnyClientStep(c)
    BY <1>3, <1>5 DEF P_ClientStep, P_ClientSigInt, P_C_EmptyLine, P_C_Line, P_C_GetId,
                      P_C_Loop, P_C_Wait, P_C_DontWait, P_C_GetAnswer, P_C_Leave, P_C_Close,
                      AnyClientStep
  <1> QED
    BY <1>4, <1>5 DEF P_Next, AnyStep

-----------------------------------------------------------------------------
(* The queues.                                                              *)

(* The server takes the first message.                                      *)
LEMMA MessageTaken ==
    ASSUME TypeOK, public # <<>>, public' = Tail(public)
    PROVE  /\ 1 \in 1..Len(public) /\ Head(public) = public[1] /\ Head(public) \in Messages
           /\ public' \in Seq(Messages)
           /\ \A i \in 1..Len(public') :
                 i + 1 \in 1..Len(public) /\ 1 < i + 1 /\ public'[i] = public[i + 1]
           /\ \A i \in 2..Len(public) :
                 i - 1 \in 1..Len(public') /\ public'[i - 1] = public[i]
  <1>1. public \in Seq(Messages)
    BY DEF TypeOK
  <1>2. /\ public' \in Seq(Messages) /\ Len(public') = Len(public) - 1
        /\ \A i \in 1..Len(public') : public'[i] = public[i + 1]
        /\ Head(public) = public[1] /\ Head(public) \in Messages
        /\ Len(public) \in Nat \ {0}
    BY <1>1, HeadTailProperties
  <1>3. /\ 1 \in 1..Len(public)
        /\ \A i \in 1..Len(public') : i + 1 \in 1..Len(public) /\ 1 < i + 1
    BY <1>2
  <1>4. ASSUME NEW i \in 2..Len(public)
        PROVE  i - 1 \in 1..Len(public') /\ public'[i - 1] = public[i]
    <2>1. i - 1 \in 1..Len(public') /\ (i - 1) + 1 = i
      BY <1>2
    <2> QED
      BY <1>2, <2>1
  <1> QED
    BY <1>2, <1>3, <1>4

(* A message is sent to a queue, the public one or that of a client.        *)
LEMMA MessageSent ==
    ASSUME NEW S, NEW q \in Seq(S), NEW m \in S
    PROVE  /\ Append(q, m) \in Seq(S) /\ Len(Append(q, m)) = Len(q) + 1
           /\ \A i \in 1..Len(Append(q, m)) :
                 \/ i \in 1..Len(q) /\ Append(q, m)[i] = q[i]
                 \/ i = Len(q) + 1 /\ Append(q, m)[i] = m
           /\ \A i \in 1..Len(q) : i \in 1..Len(Append(q, m)) /\ Append(q, m)[i] = q[i]
           /\ Len(q) + 1 \in 1..Len(Append(q, m)) /\ Append(q, m)[Len(q) + 1] = m
  BY AppendProperties

-----------------------------------------------------------------------------
(* The state keeps its shape.                                               *)

(* What the server does with a message it takes.                            *)
LEMMA Received ==
    ASSUME TypeOK, NEW mType, Receive(mType)
    PROVE  /\ public # <<>> /\ public' = Tail(public) /\ server_pc = "receive"
           /\ Head(public).mType = mType /\ Head(public).pid \in Clients
           /\ Head(public).line \in Nat
           /\ UNCHANGED <<removed, server_stop, client_pc, client_stop, send, line, unsaid>>
  <1>1. public # <<>> /\ public' = Tail(public)
    BY DEF Receive
  <1> QED
    BY <1>1, MessageTaken DEF Receive, clientVars, Messages

(* An answer arrives, or there is no queue for it any more.                 *)
LEMMA Answered ==
    ASSUME TypeOK, NEW q \in Clients, NEW answer \in Nat, Answer(q, answer)
    PROVE  /\ private' \in [Clients -> Seq(Nat)]
           /\ \A c \in Clients : c # q => private'[c] = private[c]
           /\ \/ client_pc[q] = "done" /\ private' = private
              \/ client_pc[q] # "done" /\ private'[q] = Append(private[q], answer)
  <1>1. private \in [Clients -> Seq(Nat)]
    BY DEF TypeOK
  <1>2. Append(private[q], answer) \in Seq(Nat)
    BY <1>1, AppendProperties
  <1> QED
    BY <1>1, <1>2 DEF Answer

(* START: the client gets the slot found, or is turned away.                *)
LEMMA Started ==
    ASSUME TypeOK, S_Start
    PROVE  \E c \in Clients :
              /\ c = Head(public).pid /\ Receive("START")
              /\ client_no' = Search(client_no).slot
              /\ \/ /\ Search(client_no).flag = 2
                    /\ UNCHANGED <<clientMsgQs, private>>
                 \/ /\ Search(client_no).flag # 2
                    /\ clientMsgQs[client_no'] = NoClient /\ client_no' \in Slots
                    /\ clientMsgQs' = [clientMsgQs EXCEPT ![client_no'] = c]
                    /\ Answer(c, 0)
              /\ UNCHANGED server_end
  BY Received, SearchFinds DEF S_Start

(* ASK: the client that asked gets its answer.                              *)
LEMMA Asked ==
    ASSUME TypeOK, S_Ask
    PROVE  \E c \in Clients :
              /\ c = Head(public).pid /\ Receive("ASK")
              /\ Answer(c, Head(public).line)
              /\ UNCHANGED <<clientMsgQs, client_no, server_end>>
  <1>1. Receive("ASK") /\ Head(public).pid \in Clients
    BY Received DEF S_Ask
  <1>2. clientMsgQs[SlotOf(Head(public).pid)] = Head(public).pid
    BY SlotOfFinds DEF S_Ask
  <1> QED
    BY <1>1, <1>2 DEF S_Ask

(* STOP: the slot found is free again.                                      *)
LEMMA Stopped ==
    ASSUME TypeOK, S_Stop
    PROVE  \E c \in Clients, i \in Slots :
              /\ c = Head(public).pid /\ Receive("STOP") /\ clientMsgQs[i] = c
              /\ clientMsgQs' = [clientMsgQs EXCEPT ![i] = NoClient]
              /\ UNCHANGED <<client_no, private, server_end>>
  <1>1. Receive("STOP") /\ Head(public).pid \in Clients
    BY Received DEF S_Stop
  <1>2. /\ SlotOf(Head(public).pid) \in Slots
        /\ clientMsgQs[SlotOf(Head(public).pid)] = Head(public).pid
    BY SlotOfFinds DEF S_Stop
  <1> QED
    BY <1>1, <1>2 DEF S_Stop

(* ... in the steps of the server,                                          *)
LEMMA ServerTypeOK == TypeOK /\ AnyServerStep => TypeOK'
  <1> SUFFICES ASSUME TypeOK, AnyServerStep PROVE TypeOK'
    OBVIOUS
  <1>0. ASSUME NEW mType, Receive(mType) PROVE public' \in Seq(Messages)
    <2>1. public # <<>> /\ public' = Tail(public)
      BY <1>0, Received
    <2> QED
      BY <2>1, MessageTaken
  <1>1. CASE S_Start
    <2>1. PICK c \in Clients :
              /\ Receive("START") /\ client_no' = Search(client_no).slot
              /\ \/ UNCHANGED <<clientMsgQs, private>>
                 \/ /\ clientMsgQs' = [clientMsgQs EXCEPT ![client_no'] = c]
                    /\ Answer(c, 0)
              /\ UNCHANGED server_end
      BY <1>1, Started
    <2>2. public' \in Seq(Messages)
      BY <1>0, <2>1
    <2>3. private' \in [Clients -> Seq(Nat)]
      BY <2>1, Answered DEF TypeOK
    <2>4. client_no' \in Slots /\ clientMsgQs' \in [Slots -> Clients \union {NoClient}]
      BY <2>1, SearchFinds DEF TypeOK
    <2>5. UNCHANGED <<removed, server_stop, client_pc, client_stop, send, line, unsaid>>
      BY <2>1, Received
    <2>6. server_pc' = "check"
      BY <1>1 DEF S_Start
    <2> QED
      BY <2>1, <2>2, <2>3, <2>4, <2>5, <2>6 DEF TypeOK
  <1>2. CASE S_Ask
    <2>1. PICK c \in Clients :
              /\ c = Head(public).pid /\ Receive("ASK")
              /\ Answer(c, Head(public).line)
              /\ UNCHANGED <<clientMsgQs, client_no, server_end>>
      BY <1>2, Asked
    <2>2. public' \in Seq(Messages) /\ Head(public).line \in Nat
      BY <1>0, <2>1, Received
    <2>3. private' \in [Clients -> Seq(Nat)]
      BY <2>1, <2>2, Answered
    <2>4. UNCHANGED <<removed, server_stop, client_pc, client_stop, send, line, unsaid>>
      BY <2>1, Received
    <2>5. server_pc' = "check"
      BY <1>2 DEF S_Ask
    <2> QED
      BY <2>1, <2>2, <2>3, <2>4, <2>5 DEF TypeOK
  <1>3. CASE S_End \/ S_Unknown
    <2>1. PICK mType : Receive(mType)
      BY <1>3 DEF S_End, S_Unknown
    <2>2. public' \in Seq(Messages)
      BY <1>0, <2>1
    <2>3. UNCHANGED <<removed, server_stop, client_pc, client_stop, send, line, unsaid>>
      BY <2>1, Received
    <2> QED
      BY <1>3, <2>2, <2>3 DEF S_End, S_Unknown, TypeOK
  <1>4. CASE S_Stop
    <2>1. PICK c \in Clients, i \in Slots :
              /\ Receive("STOP")
              /\ clientMsgQs' = [clientMsgQs EXCEPT ![i] = NoClient]
              /\ UNCHANGED <<client_no, private, server_end>>
      BY <1>4, Stopped
    <2>2. public' \in Seq(Messages)
      BY <1>0, <2>1
    <2>3. UNCHANGED <<removed, server_stop, client_pc, client_stop, send, line, unsaid>>
      BY <2>1, Received
    <2>4. server_pc' = "check"
      BY <1>4 DEF S_Stop
    <2> QED
      BY <2>1, <2>2, <2>3, <2>4 DEF TypeOK
  <1>5. CASE S_Nothing \/ S_Check \/ ServerSigInt
    BY <1>5 DEF S_Nothing, S_Check, ServerSigInt, TypeOK, clientVars
  <1>6. CASE AnyClose
    <2>1. <<>> \in Seq(Messages)
      OBVIOUS
    <2> QED
      BY <1>6, <2>1 DEF AnyClose, TypeOK, clientVars
  <1> QED
    BY <1>1, <1>2, <1>3, <1>4, <1>5, <1>6 DEF AnyServerStep

(* ... and in those of a client.                                            *)
LEMMA ClientTypeOK ==
    ASSUME TypeOK, NEW c \in Clients, AnyClientStep(c)
    PROVE  TypeOK'
  <1> USE DEF ClientGoto, serverVars
  <1>1. ASSUME NEW from, NEW mType \in {"START", "ASK", "END", "STOP"},
               NEW to \in {"await_id", "sent", "close"}, Sends(c, from, mType, to)
        PROVE  TypeOK'
    <2> DEFINE m == [mType |-> mType, pid |-> c,
                     line |-> IF from = "start" THEN 0 ELSE line[c]]
    <2>1. m \in Messages
      BY DEF TypeOK, Messages
    <2>2. public' = Append(public, m) \/ public' = public
      BY <1>1 DEF Sends, SendsOrLoses
    <2> HIDE DEF m
    <2>3. public' \in Seq(Messages)
      <3>1. public \in Seq(Messages)
        BY DEF TypeOK
      <3> QED
        BY <2>1, <2>2, <3>1, MessageSent
    <2> QED
      BY <1>1, <2>3 DEF Sends, TypeOK
  <1>2. ASSUME Hear(c) PROVE private' \in [Clients -> Seq(Nat)] /\ UNCHANGED <<public, removed>>
    <2>1. private[c] \in Seq(Nat) /\ private[c] # <<>>
      BY <1>2 DEF Hear, TypeOK
    <2>2. Tail(private[c]) \in Seq(Nat)
      BY <2>1, HeadTailProperties
    <2> QED
      BY <1>2, <2>2 DEF Hear, TypeOK
  <1>3. CASE C_GetId(c)
    BY <1>2, <1>3 DEF C_GetId, TypeOK
  <1>4. CASE C_GetAnswer(c)
    BY <1>2, <1>4 DEF C_GetAnswer, TypeOK
  <1>5. CASE C_Loop(c) \/ C_Wait(c)
    BY <1>5 DEF C_Loop, C_Wait, TypeOK
  <1>10. CASE C_DontWait(c)
    BY <1>10 DEF C_DontWait, TypeOK
  <1>6. CASE C_Leave(c) \/ C_EmptyLine(c)
    BY <1>6 DEF C_Leave, C_EmptyLine, TypeOK
  <1>7. CASE C_Close(c)
    BY <1>7 DEF C_Close, TypeOK
  <1>8. ASSUME NEW kind \in Lines, C_Line(c, kind) PROVE TypeOK'
    BY <1>8 DEF C_Line, TypeOK
  <1>9. CASE ClientSigInt(c)
    <2>1. PICK place \in Interrupted(client_pc[c]) :
              /\ client_pc' = [client_pc EXCEPT ![c] = place]
              /\ send' = IF client_pc[c] = "await_answer" /\ place = "loop"
                         THEN [send EXCEPT ![c] = @ - 1] ELSE send
              /\ unsaid' = IF client_pc[c] = "stop" /\ place = "close"
                           THEN unsaid \union {c} ELSE unsaid
      BY <1>9 DEF ClientSigInt
    <2>2. place \in {client_pc[c], "loop", "await_id", "sent", "close"}
      BY DEF Interrupted
    <2>3. send' \in [Clients -> Int]
      BY <2>1 DEF TypeOK
    <2> QED
      BY <1>9, <2>1, <2>2, <2>3 DEF ClientSigInt, TypeOK
  <1> QED
    BY <1>1, <1>3, <1>4, <1>5, <1>6, <1>7, <1>8, <1>9, <1>10
       DEF AnyClientStep

-----------------------------------------------------------------------------
(* The answers.                                                             *)

(* The server takes a message of somebody else.                             *)
LEMMA TakenFromOther ==
    ASSUME TypeOK, NEW d \in Clients, InHand(d), public # <<>>, public' = Tail(public),
           Head(public).pid # d, private'[d] = private[d], UNCHANGED <<client_pc, line>>
    PROVE  InHand(d)'
  <1>1. \A i \in 1..Len(public') :
            i + 1 \in 1..Len(public) /\ public'[i] = public[i + 1]
    BY MessageTaken
  <1>2. \A i, j \in Int : i + 1 = j + 1 => i = j
    OBVIOUS
  <1>3. ASSUME NEW i \in 1..Len(public'), public'[i].pid = d
        PROVE  /\ private'[d] = <<>>
               /\ \/ client_pc'[d] = "await_id"
                  \/ /\ client_pc'[d] \in {"sent", "await_answer"}
                     /\ public'[i].mType = "ASK" /\ public'[i].line = line'[d]
               /\ \A j \in 1..Len(public') : public'[j].pid = d => i = j
    <2>1. i + 1 \in 1..Len(public) /\ public[i + 1].pid = d
      BY <1>1, <1>3
    <2>2. \A j \in 1..Len(public') : public'[j].pid = d => i + 1 = j + 1
      BY <1>1, <2>1 DEF InHand
    <2> QED
      BY <1>1, <1>2, <1>3, <2>1, <2>2 DEF InHand
  <1> QED
    BY <1>3 DEF InHand

(* The server takes a message and answers it, or does not.                  *)
LEMMA TakenAndAnswered ==
    ASSUME TypeOK, NEW d \in Clients, InHand(d), public # <<>>, public' = Tail(public),
           Head(public).pid = d, UNCHANGED <<client_pc, line>>,
           NEW answer \in Nat, answer = Head(public).line \/ Head(public).mType # "ASK",
           private'[d] \in {private[d], Append(private[d], answer)}
    PROVE  InHand(d)'
  <1>1. /\ 1 \in 1..Len(public) /\ Head(public) = public[1]
        /\ \A i \in 1..Len(public') :
               i + 1 \in 1..Len(public) /\ 1 < i + 1 /\ public'[i] = public[i + 1]
    BY MessageTaken
  <1>2. \A i \in 1..Len(public') : public'[i].pid # d
    <2>1. \A j \in 1..Len(public) : public[j].pid = d => 1 = j
      BY <1>1 DEF InHand
    <2> QED
      BY <1>1, <2>1
  <1>3. /\ private[d] = <<>>
        /\ \/ client_pc[d] = "await_id"
           \/ client_pc[d] \in {"sent", "await_answer"} /\ answer = line[d]
    BY <1>1 DEF InHand
  <1>4. \/ private'[d] = <<>>
        \/ private'[d] = <<answer>> /\ Len(private'[d]) = 1 /\ private'[d][1] = answer
    BY <1>3
  <1>5. Len(<<>>) = 0
    OBVIOUS
  <1>6. /\ Len(private'[d]) <= 1
        /\ private'[d] # <<>> => private'[d][1] = answer
    <2>1. CASE private'[d] = <<>>
      BY <1>5, <2>1
    <2>2. CASE Len(private'[d]) = 1 /\ private'[d][1] = answer
      BY <2>2
    <2> QED
      BY <1>4, <2>1, <2>2
  <1>7. client_pc'[d] \notin {"end", "stop", "close", "done"}
    BY DEF InHand
  <1> QED
    BY <1>2, <1>3, <1>6, <1>7 DEF InHand

(* A message that the server takes is gone, and its answer is there instead.*)
LEMMA ServerOneAtATime == TypeOK /\ OneAtATime /\ AnyServerStep => OneAtATime'
  <1> SUFFICES ASSUME TypeOK, OneAtATime, AnyServerStep, NEW d \in Clients, ~ client_stop'[d]
               PROVE  InHand(d)'
    BY DEF OneAtATime
  <1>0. ASSUME NEW mType, Receive(mType), NEW c \in Clients, c = Head(public).pid,
               private' = private \/ Answer(c, Head(public).line)
                  \/ (mType # "ASK" /\ Answer(c, 0))
        PROVE  InHand(d)'
    <2>1. /\ public # <<>> /\ public' = Tail(public) /\ Head(public).mType = mType
          /\ Head(public).line \in Nat /\ UNCHANGED <<client_pc, client_stop, line>>
      BY <1>0, Received
    <2>2. InHand(d)
      BY <2>1 DEF OneAtATime
    <2>3. CASE d # c
      <3>1. private'[d] = private[d]
        BY <1>0, <2>1, <2>3, Answered
      <3> QED
        BY <1>0, <2>1, <2>2, <2>3, <3>1, TakenFromOther
    <2>4. CASE d = c
      <3>1. PICK answer \in Nat :
               /\ answer = Head(public).line \/ Head(public).mType # "ASK"
               /\ private'[d] \in {private[d], Append(private[d], answer)}
        <4>1. ASSUME NEW answer \in Nat, Answer(c, answer)
              PROVE  private'[d] \in {private[d], Append(private[d], answer)}
          BY <2>4, <4>1, Answered
        <4> QED
          BY <1>0, <2>1, <4>1
      <3> QED
        BY <1>0, <2>1, <2>2, <2>4, <3>1, TakenAndAnswered
    <2> QED
      BY <2>3, <2>4
  <1>1. CASE S_Start
    <2>1. PICK c \in Clients : /\ c = Head(public).pid /\ Receive("START")
                               /\ private' = private \/ Answer(c, 0)
      BY <1>1, Started
    <2> QED
      BY <1>0, <2>1
  <1>2. CASE S_Ask
    <2>1. PICK c \in Clients : /\ c = Head(public).pid /\ Receive("ASK")
                               /\ Answer(c, Head(public).line)
      BY <1>2, Asked
    <2> QED
      BY <1>0, <2>1
  <1>3. CASE S_End \/ S_Stop \/ S_Unknown
    <2>1. PICK mType : Receive(mType)
      BY <1>3 DEF S_End, S_Stop, S_Unknown
    <2>2. private' = private
      BY <1>3 DEF S_End, S_Stop, S_Unknown
    <2>3. Head(public).pid \in Clients
      BY <2>1, Received
    <2> QED
      BY <1>0, <2>1, <2>2, <2>3
  <1>4. CASE S_Nothing \/ S_Check \/ ServerSigInt
    <2>1. UNCHANGED <<public, private, client_pc, client_stop, line>>
      BY <1>4 DEF S_Nothing, S_Check, ServerSigInt, clientVars
    <2> QED
      BY <2>1 DEF OneAtATime, InHand
  <1>5. CASE AnyClose
    <2>1. UNCHANGED <<private, client_pc, client_stop, line>> /\ public' \in {<<>>, public}
      BY <1>5 DEF AnyClose, clientVars
    <2>2. Len(<<>>) = 0 /\ \A i \in 1..0 : FALSE
      OBVIOUS
    <2> QED
      BY <2>1, <2>2 DEF OneAtATime, InHand
  <1> QED
    BY <1>1, <1>2, <1>3, <1>4, <1>5 DEF AnyServerStep

(* A message is added to the public queue, or lost.                         *)
LEMMA SentOrLost ==
    ASSUME TypeOK, NEW m \in Messages, SendsOrLoses(m)
    PROVE  /\ \A i \in 1..Len(public') :
                 \/ i \in 1..Len(public) /\ public'[i] = public[i]
                 \/ i = Len(public) + 1 /\ public'[i] = m
           /\ \A i \in 1..Len(public) : i \in 1..Len(public') /\ public'[i] = public[i]
           /\ \/ removed
              \/ Len(public) + 1 \in 1..Len(public') /\ public'[Len(public) + 1] = m
  <1>1. public \in Seq(Messages)
    BY DEF TypeOK
  <1>2. CASE public' = Append(public, m)
    BY <1>1, <1>2, MessageSent
  <1>3. CASE removed /\ public' = public
    BY <1>3
  <1> QED
    BY <1>2, <1>3 DEF SendsOrLoses

(* What the client in this step does to the others: nothing.                *)
LEMMA OthersUntouched ==
    ASSUME TypeOK, NEW c \in Clients, AnyClientStep(c), NEW d \in Clients, d # c
    PROVE  /\ client_pc'[d] = client_pc[d] /\ client_stop'[d] = client_stop[d]
           /\ private'[d] = private[d] /\ line'[d] = line[d] /\ send'[d] = send[d]
           /\ d \in unsaid' <=> d \in unsaid
  <1> USE DEF ClientGoto
  <1>1. ASSUME NEW from, NEW mType, NEW to, Sends(c, from, mType, to)
        PROVE  /\ client_pc'[d] = client_pc[d]
               /\ UNCHANGED <<private, client_stop, send, line, unsaid>>
    BY <1>1 DEF Sends, TypeOK
  <1>2. CASE C_GetId(c) \/ C_GetAnswer(c)
    BY <1>2 DEF C_GetId, C_GetAnswer, Hear, TypeOK
  <1>3. CASE C_Loop(c) \/ C_Wait(c) \/ C_DontWait(c)
    BY <1>3 DEF C_Loop, C_Wait, C_DontWait, TypeOK
  <1>4. CASE C_Leave(c) \/ C_Close(c) \/ C_EmptyLine(c)
    BY <1>4 DEF C_Leave, C_Close, C_EmptyLine, TypeOK
  <1>5. CASE \E kind \in Lines : C_Line(c, kind)
    BY <1>5 DEF C_Line, TypeOK
  <1>6. CASE ClientSigInt(c)
    BY <1>6 DEF ClientSigInt, TypeOK
  <1> QED
    BY <1>1, <1>2, <1>3, <1>4, <1>5, <1>6 DEF AnyClientStep

(* A step that leaves a client and its messages alone leaves it in hand.    *)
LEMMA NotTouched ==
    ASSUME NEW d \in Clients, InHand(d), client_pc'[d] = client_pc[d],
           private'[d] = private[d], line'[d] = line[d],
           \A i \in 1..Len(public') :
               public'[i].pid = d => i \in 1..Len(public) /\ public'[i] = public[i]
    PROVE  InHand(d)'
  BY DEF InHand

(* The messages that are under way from a client, after a step of one.      *)
LEMMA OthersSaid ==
    ASSUME TypeOK, NEW c \in Clients, AnyClientStep(c)
    PROVE  \/ UNCHANGED public
           \/ \E from \in {"start", "ask", "end", "stop"},
                mType \in {"START", "ASK", "END", "STOP"}, to \in {"await_id", "sent", "close"} :
                /\ Sends(c, from, mType, to)
                /\ from = "start" <=> mType = "START"
                /\ from = "ask"   <=> mType = "ASK"
                /\ from = "stop"  <=> mType = "STOP"
                /\ from = "start" <=> to = "await_id"
                /\ from = "stop"  <=> to = "close"
  <1>1. CASE C_GetId(c) \/ C_Loop(c) \/ C_Wait(c) \/ C_DontWait(c) \/ C_GetAnswer(c)
             \/ C_Leave(c) \/ C_Close(c) \/ ClientSigInt(c) \/ C_EmptyLine(c)
             \/ \E kind \in Lines : C_Line(c, kind)
    BY <1>1 DEF C_GetId, C_Loop, C_Wait, C_DontWait, C_GetAnswer, C_Leave, C_Close, Hear,
                ClientSigInt, C_EmptyLine, C_Line
  <1> QED
    BY <1>1 DEF AnyClientStep

(* What a client that sends does to the public queue.                       *)
LEMMA WhatIsSent ==
    ASSUME TypeOK, NEW c \in Clients, NEW from \in {"start", "ask", "end", "stop"},
           NEW mType \in {"START", "ASK", "END", "STOP"}, NEW to \in {"await_id", "sent", "close"},
           Sends(c, from, mType, to)
    PROVE  /\ \A i \in 1..Len(public') :
                 \/ i \in 1..Len(public) /\ public'[i] = public[i]
                 \/ /\ i = Len(public) + 1 /\ public'[i].pid = c /\ public'[i].mType = mType
                    /\ public'[i].line = IF from = "start" THEN 0 ELSE line[c]
           /\ \A i \in 1..Len(public) : i \in 1..Len(public') /\ public'[i] = public[i]
           /\ \/ removed
              \/ /\ Len(public) + 1 \in 1..Len(public')
                 /\ public'[Len(public) + 1].pid = c /\ public'[Len(public) + 1].mType = mType
           /\ client_pc[c] = from /\ client_pc' = [client_pc EXCEPT ![c] = to]
           /\ UNCHANGED <<serverVars, removed, private, client_stop, send, line, unsaid>>
  <1> DEFINE m == [mType |-> mType, pid |-> c,
                   line |-> IF from = "start" THEN 0 ELSE line[c]]
  <1>1. m \in Messages /\ m.pid = c /\ m.mType = mType
        /\ m.line = IF from = "start" THEN 0 ELSE line[c]
    BY DEF TypeOK, Messages
  <1>2. SendsOrLoses(m) /\ client_pc[c] = from /\ client_pc' = [client_pc EXCEPT ![c] = to]
        /\ UNCHANGED <<serverVars, removed, private, client_stop, send, line, unsaid>>
    BY DEF Sends, ClientGoto
  <1> HIDE DEF m
  <1> QED
    BY <1>1, <1>2, SentOrLost

(* A client that hears the only answer has no other one.                    *)
LEMMA LastHeard ==
    ASSUME NEW q \in Seq(Nat), q # <<>>, Len(q) <= 1
    PROVE  Tail(q) = <<>>
  <1>1. Len(q) \in Nat \ {0} /\ Tail(q) \in Seq(Nat) /\ Len(Tail(q)) = Len(q) - 1
    BY EmptySeq, HeadTailProperties
  <1>2. Len(Tail(q)) \notin Nat \ {0}
    BY <1>1
  <1> QED
    BY <1>1, <1>2, EmptySeq

(* A client goes on with its answer, or with one message more.              *)
LEMMA ClientOneAtATime ==
    ASSUME TypeOK, OneAtATime, NEW c \in Clients, AnyClientStep(c)
    PROVE  OneAtATime'
  <1> SUFFICES ASSUME NEW d \in Clients, ~ client_stop'[d] PROVE InHand(d)'
    BY DEF OneAtATime
  <1> USE DEF ClientGoto
  <1>1. CASE d # c
    <2>1. /\ client_pc'[d] = client_pc[d] /\ private'[d] = private[d] /\ line'[d] = line[d]
          /\ InHand(d)
      BY <1>1, OthersUntouched DEF OneAtATime
    <2>2. \A i \in 1..Len(public') :
              public'[i].pid = d => i \in 1..Len(public) /\ public'[i] = public[i]
      <3>1. CASE UNCHANGED public
        BY <3>1
      <3>2. ASSUME NEW from \in {"start", "ask", "end", "stop"},
                   NEW mType \in {"START", "ASK", "END", "STOP"},
                   NEW to \in {"await_id", "sent", "close"}, Sends(c, from, mType, to)
            PROVE  \A i \in 1..Len(public') :
                       public'[i].pid = d => i \in 1..Len(public) /\ public'[i] = public[i]
        BY <1>1, <3>2, WhatIsSent
      <3> QED
        BY <3>1, <3>2, OthersSaid
    <2> QED
      BY <2>1, <2>2, NotTouched
  <1>2. ASSUME d = c, ~ client_stop[c] PROVE InHand(d)'
    <2>0. InHand(c) /\ client_pc \in [Clients -> {"start", "await_id", "loop", "getline",
              "ask", "end", "sent", "await_answer", "stop", "close", "done", "dead"}]
          /\ private[c] \in Seq(Nat)
      BY <1>2 DEF OneAtATime, TypeOK
    <2>1. CASE Sends(c, "start", "START", "await_id") \/ Sends(c, "ask", "ASK", "sent")
      <3>1. ASSUME NEW from \in {"start", "ask"}, NEW mType \in {"START", "ASK"},
                   NEW to \in {"await_id", "sent"}, Sends(c, from, mType, to),
                   to = "await_id" \/ (from = "ask" /\ mType = "ASK" /\ to = "sent")
            PROVE  InHand(d)'
        <4>1. /\ \A i \in 1..Len(public') :
                 \/ i \in 1..Len(public) /\ public'[i] = public[i]
                 \/ /\ i = Len(public) + 1 /\ public'[i].pid = c /\ public'[i].mType = mType
                    /\ public'[i].line = IF from = "start" THEN 0 ELSE line[c]
              /\ client_pc[c] = from /\ client_pc' = [client_pc EXCEPT ![c] = to]
              /\ private' = private /\ line' = line
          BY <3>1, WhatIsSent
        <4>2. private[c] = <<>> /\ \A i \in 1..Len(public) : public[i].pid # c
          BY <2>0, <4>1 DEF InHand
        <4>3. client_pc'[c] = to /\ Len(<<>>) = 0
          BY <2>0, <4>1
        <4>4. \A i \in 1..Len(public') : public'[i].pid = c =>
                 /\ i = Len(public) + 1 /\ public'[i].mType = mType
                 /\ public'[i].line = IF from = "start" THEN 0 ELSE line[c]
          BY <4>1, <4>2
        <4> QED
          BY <1>2, <3>1, <4>1, <4>2, <4>3, <4>4 DEF InHand
      <3> QED
        BY <2>1, <3>1
    <2>2. CASE Sends(c, "end", "END", "sent") \/ Sends(c, "stop", "STOP", "close")
      BY <2>0, <2>2 DEF Sends, InHand
    <2>3. CASE C_GetId(c) \/ C_GetAnswer(c)
      <3>1. /\ private[c] # <<>> /\ private' = [private EXCEPT ![c] = Tail(@)]
            /\ client_pc' = [client_pc EXCEPT ![c] = "loop"] /\ UNCHANGED public
        BY <2>3 DEF C_GetId, C_GetAnswer, Hear
      <3>2. \A i \in 1..Len(public) : public[i].pid # c
        BY <2>0, <3>1 DEF InHand
      <3>3. private'[c] = <<>>
        <4>1. Len(private[c]) <= 1 /\ private'[c] = Tail(private[c])
          BY <2>0, <3>1 DEF InHand, TypeOK
        <4> QED
          BY <2>0, <3>1, <4>1, LastHeard
      <3>4. client_pc'[c] = "loop" /\ Len(<<>>) = 0
        BY <2>0, <3>1
      <3> QED
        <4>1. public' = public
          BY <3>1
        <4> QED
          BY <1>2, <3>2, <3>3, <3>4, <4>1 DEF InHand
    <2>4. CASE C_Loop(c) \/ C_EmptyLine(c)
      <3>1. /\ client_pc[c] \in {"loop", "getline"}
            /\ client_pc'[c] \in {"getline", "dead"} /\ UNCHANGED <<public, private, line>>
        BY <2>0, <2>4 DEF C_Loop, C_EmptyLine
      <3> QED
        BY <1>2, <2>0, <3>1 DEF InHand
    <2>5. CASE C_Wait(c)
      <3>1. /\ client_pc[c] = "sent" /\ client_pc'[c] = "await_answer"
            /\ UNCHANGED <<public, private, line>>
        BY <2>0, <2>5 DEF C_Wait
      <3> QED
        BY <1>2, <2>0, <3>1 DEF InHand
    <2>6. CASE C_DontWait(c) \/ C_Leave(c)
      BY <1>2, <2>6 DEF C_DontWait, C_Leave
    <2>7. CASE C_Close(c)
      BY <2>0, <2>7 DEF C_Close, InHand
    <2>8. CASE ClientSigInt(c)
      BY <1>2, <2>8 DEF ClientSigInt, TypeOK
    <2>9. ASSUME NEW kind \in Lines, C_Line(c, kind) PROVE InHand(d)'
      <3>1. client_pc[c] = "getline" /\ UNCHANGED <<public, private>>
        BY <2>9 DEF C_Line
      <3>2. kind # "END"
        BY <1>2, <2>9 DEF C_Line, TypeOK
      <3>3. client_pc'[c] \in {"ask", "loop"}
        BY <2>0, <2>9, <3>2 DEF C_Line
      <3>4. private[c] = <<>> /\ \A i \in 1..Len(public) : public[i].pid # c
        BY <2>0, <3>1 DEF InHand
      <3> QED
        BY <1>2, <2>0, <3>1, <3>3, <3>4 DEF InHand
    <2> QED
      BY <2>1, <2>2, <2>3, <2>4, <2>5, <2>6, <2>7, <2>8, <2>9 DEF AnyClientStep
  <1>3. ASSUME client_stop[c], d = c PROVE FALSE
    <2>1. client_stop \in [Clients -> BOOLEAN]
      BY DEF TypeOK
    <2>2. CASE ClientSigInt(c)
      BY <1>3, <2>1, <2>2 DEF ClientSigInt
    <2>3. CASE \E kind \in Lines : C_Line(c, kind)
      BY <1>3, <2>1, <2>3 DEF C_Line
    <2>4. CASE UNCHANGED client_stop
      BY <1>3, <2>4
    <2> QED
      BY <2>2, <2>3, <2>4 DEF AnyClientStep, Sends, C_GetId, C_Loop, C_Wait, C_DontWait,
                              C_GetAnswer, C_Leave, C_Close, C_EmptyLine
  <1> QED
    BY <1>1, <1>2, <1>3

(* One message or one answer of a client is under way at most.              *)
LEMMA NextOneAtATime ==
    TypeOK /\ OneAtATime /\ (AnyStep \/ UNCHANGED vars) => OneAtATime'
  <1>1. ASSUME OneAtATime, UNCHANGED vars PROVE OneAtATime'
    BY <1>1 DEF OneAtATime, InHand, vars, clientVars
  <1> QED
    BY <1>1, ServerOneAtATime, ClientOneAtATime DEF AnyStep

(* The state keeps its shape in every step.                                 *)
LEMMA NextTypeOK == TypeOK /\ (AnyStep \/ UNCHANGED vars) => TypeOK'
  <1>1. ASSUME TypeOK, UNCHANGED vars PROVE TypeOK'
    BY <1>1 DEF TypeOK, vars, clientVars, serverVars
  <1> QED
    BY <1>1, ServerTypeOK, ClientTypeOK DEF AnyStep

(* What is under way to a client is what it waits for.                      *)
LEMMA InHandIsMine == TypeOK /\ OneAtATime => AnswerIsMine
  <1> SUFFICES ASSUME TypeOK, OneAtATime, NEW c \in Clients, ~ client_stop[c]
               PROVE  /\ client_pc[c] \in {"sent", "await_answer"} =>
                             /\ Len(private[c]) <= 1
                             /\ private[c] # <<>> => Head(private[c]) = line[c]
                      /\ client_pc[c] \in {"loop", "getline", "ask"} => private[c] = <<>>
    BY DEF AnswerIsMine
  <1>1. InHand(c) /\ private[c] \in Seq(Nat)
    BY DEF OneAtATime, TypeOK
  <1>2. private[c] # <<>> => Head(private[c]) = private[c][1]
    BY <1>1, HeadTailProperties
  <1> QED
    BY <1>1, <1>2 DEF InHand

-----------------------------------------------------------------------------
(* The slots.                                                               *)

(* A free slot is taken.                                                    *)
LEMMA SlotTaken ==
    ASSUME TypeOK, NEW c \in Clients, NEW i \in Slots, clientMsgQs[i] = NoClient,
           clientMsgQs' = [clientMsgQs EXCEPT ![i] = c]
    PROVE  \A p \in Clients : InTable(p)' <=> InTable(p) \/ p = c
  <1>1. NoClient \notin Clients /\ clientMsgQs \in [Slots -> Clients \union {NoClient}]
    BY MessageServerAssumption DEF TypeOK
  <1> QED
    BY <1>1 DEF InTable

(* The only slot of a client is given back.                                 *)
LEMMA SlotGivenBack ==
    ASSUME TypeOK, OneSlotEach, NEW c \in Clients, NEW i \in Slots, clientMsgQs[i] = c,
           clientMsgQs' = [clientMsgQs EXCEPT ![i] = NoClient]
    PROVE  \A p \in Clients : InTable(p)' <=> InTable(p) /\ p # c
  <1>1. NoClient \notin Clients /\ clientMsgQs \in [Slots -> Clients \union {NoClient}]
    BY MessageServerAssumption DEF TypeOK
  <1> QED
    BY <1>1 DEF InTable, OneSlotEach

(* What taking a message does to the table: START may add who sent it, STOP *)
(* removes it.                                                              *)
LEMMA TakenMessage ==
    ASSUME TypeOK, OneSlotEach, TableFollows, S_Start \/ S_Ask \/ S_End \/ S_Stop \/ S_Unknown
    PROVE  \E c \in Clients :
              /\ c = Head(public).pid /\ public # <<>> /\ public' = Tail(public)
              /\ UNCHANGED <<removed, client_pc, client_stop, send, line, unsaid>>
              /\ \A p \in Clients : p # c => /\ InTable(p)' <=> InTable(p)
                                             /\ private'[p] = private[p]
              /\ private'[c] # private[c] => InTable(c)'
              /\ Head(public).mType # "STOP" => (InTable(c) => InTable(c)')
              /\ Head(public).mType # "START" => (InTable(c)' => InTable(c))
              /\ Head(public).mType = "STOP" => ~ InTable(c)'
  <1> DEFINE Q(c) == /\ c = Head(public).pid /\ public # <<>> /\ public' = Tail(public)
                     /\ UNCHANGED <<removed, client_pc, client_stop, send, line, unsaid>>
  <1>0. ASSUME NEW mType, Receive(mType)
        PROVE  Head(public).pid \in Clients /\ Q(Head(public).pid) /\ Head(public).mType = mType
    BY <1>0, Received
  <1>u. UNCHANGED clientMsgQs => \A p \in Clients : InTable(p)' <=> InTable(p)
    BY DEF InTable
  <1>1. CASE S_Start
    <2>1. PICK c \in Clients :
              /\ c = Head(public).pid /\ Receive("START")
              /\ \/ UNCHANGED <<clientMsgQs, private>>
                 \/ /\ clientMsgQs[client_no'] = NoClient /\ client_no' \in Slots
                    /\ clientMsgQs' = [clientMsgQs EXCEPT ![client_no'] = c]
                    /\ Answer(c, 0)
      BY <1>1, Started
    <2>2. Q(c) /\ Head(public).mType = "START"
      BY <1>0, <2>1
    <2>3. CASE UNCHANGED <<clientMsgQs, private>>
      BY <1>u, <2>2, <2>3
    <2>4. CASE /\ clientMsgQs[client_no'] = NoClient /\ client_no' \in Slots
               /\ clientMsgQs' = [clientMsgQs EXCEPT ![client_no'] = c]
               /\ Answer(c, 0)
      <3>1. \A p \in Clients : InTable(p)' <=> InTable(p) \/ p = c
        BY <2>4, SlotTaken
      <3>2. \A p \in Clients : p # c => private'[p] = private[p]
        BY <2>4, Answered
      <3> QED
        BY <2>2, <3>1, <3>2
    <2> QED
      BY <2>1, <2>3, <2>4
  <1>2. CASE S_Ask
    <2>1. PICK c \in Clients :
              /\ c = Head(public).pid /\ Receive("ASK")
              /\ Answer(c, Head(public).line) /\ UNCHANGED clientMsgQs
      BY <1>2, Asked
    <2>2. Q(c) /\ Head(public).mType = "ASK" /\ Head(public).line \in Nat
      BY <1>0, <2>1, Received
    <2>3. \A p \in Clients : p # c => private'[p] = private[p]
      BY <2>1, <2>2, Answered
    <2>4. InTable(c)
      <3>1. Head(public) = public[1] /\ 1 \in 1..Len(public)
        BY <2>2, MessageTaken
      <3> QED
        BY <2>2, <3>1 DEF TableFollows
    <2> QED
      BY <1>u, <2>1, <2>2, <2>3, <2>4
  <1>3. CASE S_End
    <2>1. Receive("END") /\ UNCHANGED <<clientMsgQs, private>>
      BY <1>3 DEF S_End
    <2> QED
      BY <1>0, <1>u, <2>1
  <1>4. CASE S_Stop
    <2>1. PICK c \in Clients, i \in Slots :
              /\ c = Head(public).pid /\ Receive("STOP") /\ clientMsgQs[i] = c
              /\ clientMsgQs' = [clientMsgQs EXCEPT ![i] = NoClient]
              /\ UNCHANGED private
      BY <1>4, Stopped
    <2>2. Q(c) /\ Head(public).mType = "STOP"
      BY <1>0, <2>1
    <2>3. \A p \in Clients : InTable(p)' <=> InTable(p) /\ p # c
      BY <2>1, SlotGivenBack
    <2> QED
      BY <2>1, <2>2, <2>3
  <1>5. CASE S_Unknown
    <2>1. PICK mType \in {"ASK", "STOP"} : Receive(mType)
      BY <1>5 DEF S_Unknown
    <2>2. UNCHANGED <<clientMsgQs, private>> /\ ~ InTable(Head(public).pid)
      BY <1>5, SlotOfFinds DEF S_Unknown
    <2> QED
      BY <1>0, <1>u, <2>1, <2>2
  <1> QED
    BY <1>1, <1>2, <1>3, <1>4, <1>5

(* Nobody gets a second slot.                                               *)
LEMMA NextOneSlot ==
    TypeOK /\ OneSlotEach /\ TableFollows /\ (AnyStep \/ UNCHANGED vars) => OneSlotEach'
  <1> SUFFICES ASSUME TypeOK, OneSlotEach, TableFollows, AnyStep \/ UNCHANGED vars
               PROVE  OneSlotEach'
    OBVIOUS
  <1>1. CASE S_Start
    <2>1. PICK c \in Clients :
              /\ c = Head(public).pid /\ Receive("START")
              /\ \/ UNCHANGED clientMsgQs
                 \/ /\ clientMsgQs[client_no'] = NoClient /\ client_no' \in Slots
                    /\ clientMsgQs' = [clientMsgQs EXCEPT ![client_no'] = c]
      BY <1>1, Started
    <2>2. ~ InTable(c)
      <3>1. public # <<>> /\ public' = Tail(public) /\ Head(public).mType = "START"
        BY <2>1, Received
      <3>2. Head(public) = public[1] /\ 1 \in 1..Len(public)
        BY <3>1, MessageTaken
      <3> QED
        BY <2>1, <3>1, <3>2 DEF TableFollows
    <2>3. CASE UNCHANGED clientMsgQs
      BY <2>3 DEF OneSlotEach
    <2>4. CASE /\ client_no' \in Slots
               /\ clientMsgQs' = [clientMsgQs EXCEPT ![client_no'] = c]
      <3>1. \A j \in Slots : clientMsgQs[j] # c
        BY <2>2 DEF InTable
      <3>2. \A j \in Slots : clientMsgQs'[j] = IF j = client_no' THEN c ELSE clientMsgQs[j]
        BY <2>4 DEF TypeOK
      <3> QED
        BY <3>1, <3>2 DEF OneSlotEach
    <2> QED
      BY <2>1, <2>3, <2>4
  <1>2. CASE S_Stop
    <2>1. PICK c \in Clients, i \in Slots :
              clientMsgQs' = [clientMsgQs EXCEPT ![i] = NoClient]
      BY <1>2, Stopped
    <2> QED
      BY <2>1 DEF OneSlotEach, TypeOK
  <1>3. CASE UNCHANGED clientMsgQs
    BY <1>3 DEF OneSlotEach
  <1>4. ASSUME NEW c \in Clients, AnyClientStep(c) PROVE UNCHANGED clientMsgQs
    BY <1>4 DEF AnyClientStep, Sends, C_GetId, C_Loop, C_Wait, C_DontWait, C_GetAnswer,
                C_Leave, C_Close, ClientSigInt, C_EmptyLine, C_Line, ClientGoto, serverVars
  <1>5. CASE S_Ask \/ S_End \/ S_Unknown \/ S_Nothing \/ S_Check \/ AnyClose \/ ServerSigInt
    BY <1>3, <1>5 DEF S_Ask, S_End, S_Unknown, S_Nothing, S_Check, AnyClose, ServerSigInt
  <1> QED
    BY <1>1, <1>2, <1>3, <1>4, <1>5 DEF AnyStep, AnyServerStep, vars, serverVars

(* A step of the server takes a message, closes, or leaves the queues and   *)
(* the table alone.                                                         *)
LEMMA OtherServerSteps ==
    ASSUME AnyServerStep, ~ (S_Start \/ S_Ask \/ S_End \/ S_Stop \/ S_Unknown)
    PROVE  /\ UNCHANGED <<clientMsgQs, private, clientVars>>
           /\ \/ UNCHANGED <<public, removed>>
              \/ removed' /\ public' \in {<<>>, public}
  BY DEF AnyServerStep, S_Nothing, S_Check, AnyClose, ServerSigInt

(* What a client says stays in order.                                       *)
LEMMA ServerSaidInOrder ==
    TypeOK /\ OneSlotEach /\ TableFollows /\ SaidInOrder /\ AnyServerStep => SaidInOrder'
  <1> SUFFICES ASSUME TypeOK, OneSlotEach, TableFollows, SaidInOrder, AnyServerStep
               PROVE  SaidInOrder'
    OBVIOUS
  <1>1. CASE S_Start \/ S_Ask \/ S_End \/ S_Stop \/ S_Unknown
    <2>1. public # <<>> /\ public' = Tail(public)
      BY <1>1, TakenMessage
    <2>2. \A i \in 1..Len(public') : i + 1 \in 1..Len(public) /\ public'[i] = public[i + 1]
      BY <2>1, MessageTaken
    <2>3. ASSUME NEW i \in 1..Len(public'), NEW j \in 1..Len(public'), i < j,
                 public'[i].pid = public'[j].pid
          PROVE  public'[i].mType # "STOP" /\ public'[j].mType # "START"
      <3>1. i + 1 \in 1..Len(public) /\ j + 1 \in 1..Len(public) /\ i + 1 < j + 1
        BY <2>2, <2>3
      <3> QED
        BY <2>2, <2>3, <3>1 DEF SaidInOrder
    <2> QED
      BY <2>3 DEF SaidInOrder
  <1>2. CASE UNCHANGED public \/ public' = <<>>
    <2>1. \A i \in 1..Len(<<>>) : FALSE
      OBVIOUS
    <2> QED
      BY <1>2, <2>1 DEF SaidInOrder
  <1> QED
    BY <1>1, <1>2, OtherServerSteps

(* START goes first, and STOP last: after it the client says nothing.       *)
LEMMA ClientSaidInOrder ==
    ASSUME TypeOK, TableFollows, SaidInOrder, NEW c \in Clients, AnyClientStep(c)
    PROVE  SaidInOrder'
  <1>1. CASE UNCHANGED public
    BY <1>1 DEF SaidInOrder
  <1>2. ASSUME NEW from \in {"start", "ask", "end", "stop"},
               NEW mType \in {"START", "ASK", "END", "STOP"},
               NEW to \in {"await_id", "sent", "close"}, Sends(c, from, mType, to),
               mType = "START" => from = "start"
        PROVE  SaidInOrder'
    <2>1. /\ \A i \in 1..Len(public') :
                \/ i \in 1..Len(public) /\ public'[i] = public[i]
                \/ i = Len(public) + 1 /\ public'[i].pid = c /\ public'[i].mType = mType
          /\ client_pc[c] = from
      BY <1>2, WhatIsSent
    <2>2. \A i \in 1..Len(public) : public[i].pid = c =>
              public[i].mType # "STOP" /\ mType # "START"
      BY <1>2, <2>1 DEF TableFollows
    <2>3. Len(public) \in Nat
      BY DEF TypeOK
    <2>4. ASSUME NEW i \in 1..Len(public'), NEW j \in 1..Len(public'), i < j,
                 public'[i].pid = public'[j].pid
          PROVE  public'[i].mType # "STOP" /\ public'[j].mType # "START"
      <3>1. i \in 1..Len(public) /\ public'[i] = public[i]
        BY <2>1, <2>3, <2>4
      <3>2. CASE j \in 1..Len(public) /\ public'[j] = public[j]
        BY <2>4, <3>1, <3>2 DEF SaidInOrder
      <3>3. CASE public'[j].pid = c /\ public'[j].mType = mType
        BY <2>2, <2>4, <3>1, <3>3
      <3> QED
        BY <2>1, <3>2, <3>3
    <2> QED
      BY <2>4 DEF SaidInOrder
  <1> QED
    BY <1>1, <1>2, OthersSaid

(* What a client says stays in order in every step.                         *)
LEMMA NextSaidInOrder ==
    TypeOK /\ OneSlotEach /\ TableFollows /\ SaidInOrder /\ (AnyStep \/ UNCHANGED vars)
    => SaidInOrder'
  <1>1. ASSUME SaidInOrder, UNCHANGED vars PROVE SaidInOrder'
    BY <1>1 DEF SaidInOrder, vars
  <1> QED
    BY <1>1, ServerSaidInOrder, ClientSaidInOrder DEF AnyStep

(* The table follows what the clients have said.                            *)
LEMMA ServerTableFollows ==
    TypeOK /\ OneSlotEach /\ SaidInOrder /\ TableFollows /\ AnyServerStep => TableFollows'
  <1> SUFFICES ASSUME TypeOK, OneSlotEach, SaidInOrder, TableFollows, AnyServerStep
               PROVE  TableFollows'
    OBVIOUS
  <1>1. CASE S_Start \/ S_Ask \/ S_End \/ S_Stop \/ S_Unknown
    <2>1. PICK c \in Clients :
              /\ c = Head(public).pid /\ public # <<>> /\ public' = Tail(public)
              /\ UNCHANGED <<removed, client_pc, client_stop, send, line, unsaid>>
              /\ \A p \in Clients : p # c => /\ InTable(p)' <=> InTable(p)
                                             /\ private'[p] = private[p]
              /\ private'[c] # private[c] => InTable(c)'
              /\ Head(public).mType # "STOP" => (InTable(c) => InTable(c)')
              /\ Head(public).mType # "START" => (InTable(c)' => InTable(c))
              /\ Head(public).mType = "STOP" => ~ InTable(c)'
      BY <1>1, TakenMessage
    <2>2. /\ 1 \in 1..Len(public) /\ Head(public) = public[1]
          /\ public' \in Seq(Messages)
          /\ \A i \in 1..Len(public') :
                 i + 1 \in 1..Len(public) /\ 1 < i + 1 /\ public'[i] = public[i + 1]
      BY <2>1, MessageTaken
    <2>3. ASSUME NEW i \in 1..Len(public'), NEW p, p = public'[i].pid
          PROVE  /\ p \in Clients
                 /\ public'[i].mType = "START" => ~ InTable(p)'
                 /\ public'[i].mType = "ASK"   => InTable(p)'
                 /\ public'[i].mType = "STOP"  => client_pc'[p] \in {"close", "done"}
      <3>1. i + 1 \in 1..Len(public) /\ public'[i] = public[i + 1] /\ p \in Clients
        <4>1. public'[i] \in Messages
          BY <2>2
        <4> QED
          BY <2>2, <2>3, <4>1 DEF Messages
      <3>2. p = c => public'[i].mType # "START" /\ Head(public).mType # "STOP"
        BY <2>1, <2>2, <2>3, <3>1 DEF SaidInOrder
      <3>3. /\ public'[i].mType = "START" => ~ InTable(p)
            /\ public'[i].mType = "ASK" => InTable(p)
            /\ public'[i].mType = "STOP" => client_pc[p] \in {"close", "done"}
        BY <2>3, <3>1 DEF TableFollows
      <3> QED
        BY <2>1, <3>1, <3>2, <3>3
    <2>4. ASSUME NEW d \in Clients
          PROVE  /\ client_pc'[d] = "start" => ~ InTable(d)' /\ private'[d] = <<>>
                                               /\ \A i \in 1..Len(public') : public'[i].pid # d
                 /\ client_pc'[d] = "await_id" /\ private'[d] # <<>> => InTable(d)'
                 /\ client_pc'[d] = "loop" /\ ~ client_stop'[d] => InTable(d)'
                 /\ client_pc'[d] \in {"getline", "ask", "end", "sent", "await_answer"}
                       => InTable(d)'
      <3>1. CASE d # c
        BY <2>1, <2>2, <3>1 DEF TableFollows
      <3>2. CASE d = c
        <4>1. client_pc[d] # "start"
          BY <2>1, <2>2, <3>2 DEF TableFollows
        <4>2. client_pc[d] \notin {"close", "done"} => (InTable(d) => InTable(d)')
          BY <2>1, <2>2, <3>2 DEF TableFollows
        <4> QED
          BY <2>1, <3>2, <4>1, <4>2 DEF TableFollows
      <3> QED
        BY <3>1, <3>2
    <2>5. \A i \in 1..Len(public)' :
              /\ (public[i].mType = "START" => ~ InTable(public[i].pid))'
              /\ (public[i].mType = "ASK"   => InTable(public[i].pid))'
              /\ (public[i].mType = "STOP"  => client_pc[public[i].pid] \in {"close", "done"})'
      BY <2>3 DEF InTable
    <2> QED
      BY <2>4, <2>5 DEF TableFollows
  <1>2. CASE UNCHANGED <<clientMsgQs, private, clientVars>> /\ public' \in {<<>>, public}
    <2>1. \A i \in 1..Len(<<>>) : FALSE
      OBVIOUS
    <2>2. \A p : InTable(p)' <=> InTable(p)
      BY <1>2 DEF InTable
    <2> QED
      BY <1>2, <2>1, <2>2 DEF TableFollows, clientVars
  <1> QED
    BY <1>1, <1>2, OtherServerSteps

(* What a client says, in the table: nobody comes, nobody goes.             *)
LEMMA ClientTable ==
    ASSUME NEW c \in Clients, AnyClientStep(c)
    PROVE  UNCHANGED clientMsgQs /\ \A p : InTable(p)' <=> InTable(p)
  <1>1. UNCHANGED clientMsgQs
    BY DEF AnyClientStep, Sends, C_GetId, C_Loop, C_Wait, C_DontWait, C_GetAnswer,
           C_Leave, C_Close, ClientSigInt, C_EmptyLine, C_Line, ClientGoto, serverVars
  <1> QED
    BY <1>1 DEF InTable

(* Where a client goes in a step that says nothing.                         *)
LEMMA QuietSteps ==
    ASSUME TypeOK, NEW c \in Clients, AnyClientStep(c)
    PROVE  \/ \E from \in {"start", "ask", "end", "stop"},
                mType \in {"START", "ASK", "END", "STOP"}, to \in {"await_id", "sent", "close"} :
                /\ Sends(c, from, mType, to)
                /\ from = "start" <=> mType = "START"
                /\ from = "ask"   <=> mType = "ASK"
                /\ from = "stop"  <=> mType = "STOP"
                /\ from = "start" <=> to = "await_id"
                /\ from = "stop"  <=> to = "close"
           \/ /\ client_pc'[c] = client_pc[c] /\ client_stop'[c] /\ UNCHANGED <<public, private>>
           \/ /\ client_pc[c] = "start" /\ client_pc'[c] = "await_id"
              /\ UNCHANGED <<public, private>>
           \/ /\ client_pc[c] \in {"await_id", "getline", "sent", "await_answer"}
              /\ client_pc'[c] = "loop" /\ UNCHANGED public
              /\ \/ client_stop'[c] \/ client_pc[c] # "await_id" \/ private[c] # <<>>
           \/ /\ client_pc[c] = "loop" /\ ~ client_stop[c] /\ client_pc'[c] = "getline"
              /\ UNCHANGED <<public, private>>
           \/ /\ client_pc[c] \in {"getline", "ask", "end", "sent"}
              /\ client_pc'[c] \in {"ask", "end", "sent", "await_answer", "dead"}
              /\ UNCHANGED <<public, private>>
           \/ /\ client_pc[c] \in {"loop", "stop", "close"}
              /\ client_pc'[c] \in {"stop", "close", "done"} /\ UNCHANGED public
  <1> USE DEF ClientGoto
  <1>0. client_pc \in [Clients -> {"start", "await_id", "loop", "getline", "ask", "end", "sent",
              "await_answer", "stop", "close", "done", "dead"}]
    BY DEF TypeOK
  <1>1. CASE C_GetId(c) \/ C_GetAnswer(c)
    BY <1>0, <1>1 DEF C_GetId, C_GetAnswer, Hear
  <1>2. CASE C_Loop(c) \/ C_Wait(c) \/ C_EmptyLine(c)
    BY <1>0, <1>2 DEF C_Loop, C_Wait, C_EmptyLine
  <1>3. CASE C_DontWait(c)
    BY <1>0, <1>3 DEF C_DontWait
  <1>4. CASE C_Leave(c)
    BY <1>0, <1>4 DEF C_Leave
  <1>5. CASE C_Close(c)
    BY <1>0, <1>5 DEF C_Close
  <1>6. ASSUME NEW kind \in Lines, C_Line(c, kind)
        PROVE  /\ client_pc[c] = "getline" /\ client_pc'[c] \in {"ask", "end", "loop"}
               /\ UNCHANGED <<public, private>>
    BY <1>0, <1>6 DEF C_Line
  <1>7. CASE ClientSigInt(c)
    <2>1. PICK place \in Interrupted(client_pc[c]) :
              client_pc' = [client_pc EXCEPT ![c] = place]
      BY <1>7 DEF ClientSigInt
    <2>2. client_stop'[c] /\ UNCHANGED <<public, private>>
      BY <1>7 DEF ClientSigInt, TypeOK
    <2>3. client_pc'[c] = place
      BY <1>0, <2>1
    <2>4. \/ place = client_pc[c]
          \/ client_pc[c] \in {"await_id", "getline", "await_answer"} /\ place = "loop"
          \/ client_pc[c] = "start" /\ place = "await_id"
          \/ client_pc[c] \in {"ask", "end"} /\ place = "sent"
          \/ client_pc[c] = "stop" /\ place = "close"
      BY DEF Interrupted
    <2> QED
      BY <2>2, <2>3, <2>4
  <1> QED
    BY <1>1, <1>2, <1>3, <1>4, <1>5, <1>6, <1>7 DEF AnyClientStep

(* A client that has left its loop to say STOP does not come back.          *)
LEMMA StaysAway ==
    ASSUME TypeOK, NEW c \in Clients, AnyClientStep(c), client_pc[c] \in {"close", "done"}
    PROVE  client_pc'[c] \in {"close", "done"} /\ UNCHANGED public
  <1>1. ASSUME NEW from \in {"start", "ask", "end", "stop"}, NEW mType, NEW to,
               Sends(c, from, mType, to)
        PROVE  FALSE
    BY <1>1 DEF Sends, ClientGoto
  <1>2. CASE C_Close(c)
    BY <1>2 DEF C_Close, ClientGoto, TypeOK
  <1>3. CASE ClientSigInt(c)
    BY <1>3 DEF ClientSigInt, Interrupted, TypeOK
  <1> QED
    BY <1>1, <1>2, <1>3 DEF AnyClientStep, C_GetId, C_Loop, C_Wait, C_DontWait, C_GetAnswer,
                            C_Leave, C_EmptyLine, C_Line, ClientGoto

(* The messages after a step of a client, and the table.                    *)
LEMMA ClientMessagesFollow ==
    ASSUME TypeOK, TableFollows, NEW c \in Clients, AnyClientStep(c),
           NEW i \in 1..Len(public'), NEW p, p = public'[i].pid
    PROVE  /\ p \in Clients
           /\ public'[i].mType = "START" => ~ InTable(p)'
           /\ public'[i].mType = "ASK"   => InTable(p)'
           /\ public'[i].mType = "STOP"  => client_pc'[p] \in {"close", "done"}
  <1>1. InTable(p)' <=> InTable(p)
    BY ClientTable
  <1>2. CASE i \in 1..Len(public) /\ public'[i] = public[i]
    <2>1. p \in Clients
      <3>1. public[i] \in Messages
        BY <1>2 DEF TypeOK
      <3> QED
        BY <1>2, <3>1 DEF Messages
    <2>2. client_pc[p] \in {"close", "done"} => client_pc'[p] \in {"close", "done"}
      BY <2>1, StaysAway, OthersUntouched
    <2> QED
      BY <1>1, <1>2, <2>1, <2>2 DEF TableFollows
  <1>3. ASSUME NEW from \in {"start", "ask", "end", "stop"},
               NEW mType \in {"START", "ASK", "END", "STOP"},
               NEW to \in {"await_id", "sent", "close"}, Sends(c, from, mType, to),
               from = "start" <=> mType = "START",
               from = "ask"   <=> mType = "ASK",
               from = "stop"  <=> mType = "STOP",
               from = "stop"  <=> to = "close",
               ~ (i \in 1..Len(public) /\ public'[i] = public[i])
        PROVE  /\ p = c /\ public'[i].mType = mType
               /\ mType = "START" => ~ InTable(c)
               /\ mType = "ASK"   => InTable(c)
               /\ mType = "STOP"  => client_pc'[c] = "close"
    <2>1. /\ p = c /\ public'[i].mType = mType /\ client_pc[c] = from
          /\ client_pc' = [client_pc EXCEPT ![c] = to]
      BY <1>3, WhatIsSent
    <2>2. client_pc'[c] = to
      BY <2>1 DEF TypeOK
    <2> QED
      BY <1>3, <2>1, <2>2 DEF TableFollows
  <1>4. CASE UNCHANGED public
    BY <1>2, <1>4
  <1> QED
    BY <1>1, <1>2, <1>3, <1>4, OthersSaid

(* The client after its step, and the table.                                *)
LEMMA ClientPlaceFollows ==
    ASSUME TypeOK, TableFollows, NEW c \in Clients, AnyClientStep(c)
    PROVE  /\ client_pc'[c] = "start" => ~ InTable(c)' /\ private'[c] = <<>> /\ UNCHANGED public
           /\ client_pc'[c] = "await_id" /\ private'[c] # <<>> => InTable(c)'
           /\ client_pc'[c] = "loop" /\ ~ client_stop'[c] => InTable(c)'
           /\ client_pc'[c] \in {"getline", "ask", "end", "sent", "await_answer"} => InTable(c)'
  <1>1. InTable(c)' <=> InTable(c)
    BY ClientTable
  <1>2. ASSUME NEW from \in {"start", "ask", "end", "stop"},
               NEW mType \in {"START", "ASK", "END", "STOP"},
               NEW to \in {"await_id", "sent", "close"}, Sends(c, from, mType, to),
               from = "start" <=> to = "await_id",
               from = "stop"  <=> to = "close"
        PROVE  /\ client_pc'[c] # "start" /\ client_pc'[c] # "loop"
               /\ client_pc'[c] = "await_id" => private'[c] = <<>>
               /\ client_pc'[c] \in {"getline", "ask", "end", "sent", "await_answer"} => InTable(c)
    <2>1. /\ client_pc[c] = from /\ UNCHANGED private
          /\ client_pc' = [client_pc EXCEPT ![c] = to]
      BY <1>2, WhatIsSent
    <2>2. client_pc'[c] = to
      BY <2>1 DEF TypeOK
    <2> QED
      BY <1>2, <2>1, <2>2 DEF TableFollows
  <1> QED
    BY <1>1, <1>2, QuietSteps DEF TableFollows

(* What a client says, and where it goes, agrees with the table.            *)
LEMMA ClientTableFollows ==
    ASSUME TypeOK, TableFollows, NEW c \in Clients, AnyClientStep(c)
    PROVE  TableFollows'
  <1>1. \A i \in 1..Len(public)' :
            /\ (public[i].mType = "START" => ~ InTable(public[i].pid))'
            /\ (public[i].mType = "ASK"   => InTable(public[i].pid))'
            /\ (public[i].mType = "STOP"  => client_pc[public[i].pid] \in {"close", "done"})'
    BY ClientMessagesFollow DEF InTable
  <1>2. ASSUME NEW d \in Clients
        PROVE  /\ client_pc'[d] = "start" => ~ InTable(d)' /\ private'[d] = <<>>
                                             /\ \A i \in 1..Len(public') : public'[i].pid # d
               /\ client_pc'[d] = "await_id" /\ private'[d] # <<>> => InTable(d)'
               /\ client_pc'[d] = "loop" /\ ~ client_stop'[d] => InTable(d)'
               /\ client_pc'[d] \in {"getline", "ask", "end", "sent", "await_answer"}
                     => InTable(d)'
    <2>1. CASE d = c
      <3>1. client_pc'[c] = "start" => client_pc[c] = "start"
        <4>1. ASSUME NEW from \in {"start", "ask", "end", "stop"},
                     NEW mType \in {"START", "ASK", "END", "STOP"},
                     NEW to \in {"await_id", "sent", "close"}, Sends(c, from, mType, to)
              PROVE  client_pc'[c] # "start"
          BY <4>1, WhatIsSent DEF TypeOK
        <4> QED
          BY <4>1, QuietSteps
      <3> QED
        BY <2>1, <3>1, ClientPlaceFollows DEF TableFollows
    <2>2. CASE d # c
      <3>1. /\ client_pc'[d] = client_pc[d] /\ client_stop'[d] = client_stop[d]
            /\ private'[d] = private[d] /\ (InTable(d)' <=> InTable(d))
        BY <2>2, OthersUntouched, ClientTable
      <3>2. ASSUME NEW i \in 1..Len(public'), public'[i].pid = d
            PROVE  i \in 1..Len(public) /\ public[i].pid = d
        BY <2>2, <3>2, OthersSaid, WhatIsSent
      <3> QED
        BY <3>1, <3>2 DEF TableFollows
    <2> QED
      BY <2>1, <2>2
  <1> QED
    BY <1>1, <1>2 DEF TableFollows

(* The table follows what the clients have said.                            *)
LEMMA NextTableFollows ==
    /\ TypeOK /\ OneSlotEach /\ SaidInOrder /\ TableFollows
    /\ AnyStep \/ UNCHANGED vars
    => TableFollows'
  <1>1. ASSUME TableFollows, UNCHANGED vars PROVE TableFollows'
    BY <1>1 DEF TableFollows, InTable, vars, clientVars, serverVars
  <1> QED
    BY <1>1, ServerTableFollows, ClientTableFollows DEF AnyStep

(* The server reads the STOP of a client last, and gives its slot back.     *)
LEMMA ServerLeftInOrder ==
    TypeOK /\ OneSlotEach /\ SaidInOrder /\ TableFollows /\ LeftInOrder /\ AnyServerStep
    => LeftInOrder'
  <1> SUFFICES ASSUME TypeOK, OneSlotEach, SaidInOrder, TableFollows, LeftInOrder, AnyServerStep
               PROVE  LeftInOrder'
    OBVIOUS
  <1>1. CASE S_Start \/ S_Ask \/ S_End \/ S_Stop \/ S_Unknown
    <2>1. PICK c \in Clients :
              /\ c = Head(public).pid /\ public # <<>> /\ public' = Tail(public)
              /\ UNCHANGED <<removed, client_pc, send, unsaid>>
              /\ \A p \in Clients : p # c => (InTable(p)' <=> InTable(p))
              /\ Head(public).mType = "STOP" => ~ InTable(c)'
      BY <1>1, TakenMessage
    <2>2. /\ 1 \in 1..Len(public) /\ Head(public) = public[1]
          /\ \A i \in 1..Len(public') :
                 i + 1 \in 1..Len(public) /\ 1 < i + 1 /\ public'[i] = public[i + 1]
          /\ \A i \in 2..Len(public) :
                 i - 1 \in 1..Len(public') /\ public'[i - 1] = public[i]
      BY <2>1, MessageTaken
    <2>3. ASSUME NEW d \in Clients, client_pc'[d] \in {"close", "done"}, send'[d] = 0,
                 d \notin unsaid', ~ removed'
          PROVE  \/ \E i \in 1..Len(public') : public'[i].pid = d /\ public'[i].mType = "STOP"
                 \/ ~ InTable(d)' /\ \A i \in 1..Len(public') : public'[i].pid # d
      <3>1. \/ \E i \in 1..Len(public) : public[i].pid = d /\ public[i].mType = "STOP"
            \/ ~ InTable(d) /\ \A i \in 1..Len(public) : public[i].pid # d
        BY <2>1, <2>3 DEF LeftInOrder
      <3>2. CASE \E i \in 2..Len(public) : public[i].pid = d /\ public[i].mType = "STOP"
        BY <2>2, <3>2
      <3>3. CASE public[1].pid = d /\ public[1].mType = "STOP"
        <4>1. \A i \in 1..Len(public') : public'[i].pid # d
          BY <2>2, <3>3 DEF SaidInOrder
        <4> QED
          BY <2>1, <2>2, <3>3, <4>1
      <3>4. CASE ~ InTable(d) /\ \A i \in 1..Len(public) : public[i].pid # d
        BY <2>1, <2>2, <3>4
      <3>5. \A i \in 1..Len(public) : i = 1 \/ i \in 2..Len(public)
        OBVIOUS
      <3> QED
        BY <3>1, <3>2, <3>3, <3>4, <3>5
    <2> QED
      BY <2>3 DEF LeftInOrder
  <1>2. CASE UNCHANGED <<clientMsgQs, clientVars>> /\ (removed' \/ UNCHANGED <<public, removed>>)
    BY <1>2 DEF LeftInOrder, InTable, clientVars
  <1> QED
    BY <1>1, <1>2, OtherServerSteps

(* A client that is on its way out in this step said STOP in it, if it owes *)
(* no answer and SIGINT did not keep it from saying so.                     *)
LEMMA SaysStop ==
    ASSUME TypeOK, NEW c \in Clients, AnyClientStep(c), client_pc'[c] \in {"close", "done"},
           client_pc[c] \notin {"close", "done"}, send'[c] = 0, c \notin unsaid', ~ removed'
    PROVE  \E i \in 1..Len(public') : public'[i].pid = c /\ public'[i].mType = "STOP"
  <1>0. client_pc \in [Clients -> {"start", "await_id", "loop", "getline", "ask", "end", "sent",
              "await_answer", "stop", "close", "done", "dead"}]
    BY DEF TypeOK
  <1>1. CASE Sends(c, "stop", "STOP", "close")
    <2>1. ~ removed
      BY <1>1 DEF Sends
    <2> QED
      BY <1>1, <2>1, WhatIsSent
  <1>2. ASSUME NEW from \in {"start", "ask", "end"}, NEW mType, NEW to \in {"await_id", "sent"},
               Sends(c, from, mType, to)
        PROVE  FALSE
    BY <1>0, <1>2 DEF Sends, ClientGoto
  <1>3. ~ C_Leave(c)
    BY <1>0 DEF C_Leave, ClientGoto
  <1>4. ~ ClientSigInt(c)
    <2> SUFFICES ASSUME ClientSigInt(c) PROVE FALSE
      OBVIOUS
    <2>1. PICK place \in Interrupted(client_pc[c]) :
              /\ client_pc' = [client_pc EXCEPT ![c] = place]
              /\ unsaid' = IF client_pc[c] = "stop" /\ place = "close"
                           THEN unsaid \union {c} ELSE unsaid
      BY DEF ClientSigInt
    <2>2. place \in {"close", "done"}
      BY <1>0, <2>1
    <2>3. client_pc[c] = "stop" /\ place = "close"
      BY <2>2 DEF Interrupted
    <2> QED
      BY <2>1, <2>3
  <1>5. ~ C_GetId(c) /\ ~ C_Loop(c) /\ ~ C_Wait(c) /\ ~ C_DontWait(c)
    BY <1>0 DEF C_GetId, C_Loop, C_Wait, C_DontWait, ClientGoto
  <1>6. ~ C_GetAnswer(c) /\ ~ C_Close(c) /\ ~ C_EmptyLine(c)
    BY <1>0 DEF C_GetAnswer, C_Close, C_EmptyLine, ClientGoto
  <1>7. ~ \E kind \in Lines : C_Line(c, kind)
    BY <1>0 DEF C_Line
  <1> QED
    BY <1>1, <1>2, <1>3, <1>4, <1>5, <1>6, <1>7 DEF AnyClientStep

(* A client that is gone changes neither its count of answers nor unsaid.   *)
LEMMA LeftForGood ==
    ASSUME TypeOK, NEW c \in Clients, AnyClientStep(c), client_pc[c] \in {"close", "done"}
    PROVE  UNCHANGED <<public, send, unsaid>>
  <1>1. C_Close(c) \/ ClientSigInt(c)
    BY DEF AnyClientStep, Sends, C_GetId, C_Loop, C_Wait, C_DontWait, C_GetAnswer, C_Leave,
           C_EmptyLine, C_Line, ClientGoto
  <1> QED
    BY <1>1 DEF C_Close, ClientSigInt

(* A client leaves with STOP in the queue, if at all in order.              *)
LEMMA ClientLeftInOrder ==
    ASSUME TypeOK, LeftInOrder, NEW c \in Clients, AnyClientStep(c)
    PROVE  LeftInOrder'
  <1>1. UNCHANGED removed
    BY DEF AnyClientStep, Sends, C_GetId, C_Loop, C_Wait, C_DontWait, C_GetAnswer, C_Leave,
           C_Close, ClientSigInt, C_EmptyLine, C_Line, Hear
  <1>2. ASSUME NEW d \in Clients, client_pc'[d] \in {"close", "done"}, send'[d] = 0,
               d \notin unsaid', ~ removed'
        PROVE  \/ \E i \in 1..Len(public') : public'[i].pid = d /\ public'[i].mType = "STOP"
               \/ ~ InTable(d)' /\ \A i \in 1..Len(public') : public'[i].pid # d
    <2>1. CASE d = c /\ client_pc[c] \notin {"close", "done"}
      BY <1>2, <2>1, SaysStop
    <2>2. CASE d = c /\ client_pc[c] \in {"close", "done"}
      BY <1>1, <1>2, <2>2, LeftForGood, ClientTable DEF LeftInOrder
    <2>3. CASE d # c
      <3>1. \/ \E i \in 1..Len(public) : public[i].pid = d /\ public[i].mType = "STOP"
            \/ ~ InTable(d) /\ \A i \in 1..Len(public) : public[i].pid # d
        BY <1>1, <1>2, <2>3, OthersUntouched DEF LeftInOrder
      <3>2. /\ \A i \in 1..Len(public) : i \in 1..Len(public') /\ public'[i] = public[i]
            /\ \A i \in 1..Len(public') :
                   public'[i].pid = d => i \in 1..Len(public) /\ public[i].pid = d
        BY <2>3, OthersSaid, WhatIsSent
      <3>3. InTable(d)' <=> InTable(d)
        BY ClientTable
      <3> QED
        BY <3>1, <3>2, <3>3
    <2> QED
      BY <2>1, <2>2, <2>3
  <1> QED
    BY <1>2 DEF LeftInOrder

(* Who leaves with STOP leaves no slot behind.                              *)
LEMMA NextLeftInOrder ==
    /\ TypeOK /\ OneSlotEach /\ SaidInOrder /\ TableFollows /\ LeftInOrder
    /\ AnyStep \/ UNCHANGED vars
    => LeftInOrder'
  <1>1. ASSUME LeftInOrder, UNCHANGED vars PROVE LeftInOrder'
    BY <1>1 DEF LeftInOrder, InTable, vars, clientVars, serverVars
  <1> QED
    BY <1>1, ServerLeftInOrder, ClientLeftInOrder DEF AnyStep

-----------------------------------------------------------------------------
(* The theorems.                                                            *)

(* The inductive invariant holds at the beginning.                          *)
LEMMA InitIInv == Init => IInv
  <1> SUFFICES ASSUME Init PROVE IInv
    OBVIOUS
  <1>1. 0 \in Slots /\ NoClient \notin Clients
    BY MessageServerAssumption DEF Slots
  <1>2. public = <<>> /\ Len(public) = 0 /\ \A i \in 1..Len(public) : FALSE
    BY DEF Init
  <1>3. TypeOK
    <2>1. <<>> \in Seq(Messages) /\ <<>> \in Seq(Nat)
      BY EmptySeq
    <2>2. public \in Seq(Messages) /\ private \in [Clients -> Seq(Nat)]
      BY <2>1 DEF Init
    <2>3. clientMsgQs \in [Slots -> Clients \union {NoClient}] /\ client_no \in Slots
      BY <1>1 DEF Init
    <2>4. /\ client_pc \in [Clients -> {"start", "await_id", "loop", "getline", "ask", "end",
                "sent", "await_answer", "stop", "close", "done", "dead"}]
          /\ client_stop \in [Clients -> BOOLEAN]
      BY DEF Init
    <2>5. send \in [Clients -> Int] /\ line \in [Clients -> Nat] /\ unsaid \subseteq Clients
      BY DEF Init
    <2>6. /\ removed \in BOOLEAN /\ server_end \in BOOLEAN /\ server_stop \in BOOLEAN
          /\ server_pc \in {"receive", "check", "close", "gone", "undefined"}
      BY DEF Init
    <2> QED
      BY <2>2, <2>3, <2>4, <2>5, <2>6 DEF TypeOK
  <1>4. \A c \in Clients : ~ InTable(c) /\ client_pc[c] = "start" /\ private[c] = <<>>
    BY <1>1 DEF Init, InTable
  <1>5. OneAtATime
    BY <1>2, <1>4 DEF OneAtATime, InHand
  <1>6. SaidInOrder /\ OneSlotEach
    BY <1>2 DEF Init, SaidInOrder, OneSlotEach
  <1>7. TableFollows /\ LeftInOrder
    BY <1>2, <1>4 DEF TableFollows, LeftInOrder
  <1> QED
    BY <1>3, <1>5, <1>6, <1>7 DEF IInv

(* Every step of either server, or of a client of it, keeps it.             *)
LEMMA NextIInv == IInv /\ (AnyStep \/ UNCHANGED vars) => IInv'
  BY NextTypeOK, NextOneAtATime, NextSaidInOrder, NextOneSlot, NextTableFollows,
     NextLeftInOrder DEF IInv

(* What it says of the slots.                                               *)
LEMMA IInvSlots == IInv => SlotsFitClients
  <1> SUFFICES ASSUME IInv PROVE SlotsFitClients
    OBVIOUS
  <1>1. ASSUME public # <<>>, Head(public).mType = "ASK" PROVE Known(Head(public).pid)
    <2>1. public \in Seq(Messages)
      BY DEF IInv, TypeOK
    <2>2. 1 \in 1..Len(public) /\ Head(public) = public[1]
      BY <1>1, <2>1, HeadTailProperties
    <2>3. InTable(Head(public).pid)
      BY <1>1, <2>2 DEF IInv, TableFollows
    <2> QED
      BY <2>3, SlotOfFinds DEF IInv
  <1>2. ASSUME NEW c \in Clients, client_pc[c] = "done", send[c] = 0, c \notin unsaid,
               ~ removed, \A i \in 1..Len(public) : public[i].pid # c
        PROVE  \A i \in Slots : clientMsgQs[i] # c
    BY <1>2 DEF IInv, LeftInOrder, InTable
  <1> QED
    BY <1>1, <1>2 DEF SlotsFitClients

(* System V and POSIX: the inductive invariant holds in every state that    *)
(* the server and its clients reach.                                        *)
THEOREM Invariance == Spec => []IInv
  <1>1. IInv /\ [Next]_vars => IInv'
    BY NextIInv, SystemVSteps
  <1> QED
    BY InitIInv, <1>1, PTL DEF Spec

(* The same for the POSIX server and its clients.                           *)
THEOREM P_Invariance == P_Spec => []IInv
  <1>1. IInv /\ [P_Next]_vars => IInv'
    BY NextIInv, PosixSteps
  <1>2. P_Init => IInv
    BY InitIInv DEF P_Init
  <1> QED
    BY <1>1, <1>2, PTL DEF P_Spec

(* An answer that a client takes is the answer to its last line, whatever   *)
(* the other clients, signals and the server's end do in between.           *)
THEOREM AnswersMine == (Spec => []AnswerIsMine) /\ (P_Spec => []AnswerIsMine)
  <1>1. IInv => AnswerIsMine
    BY InHandIsMine DEF IInv
  <1>2. Spec => []AnswerIsMine
    BY <1>1, Invariance, PTL
  <1>3. P_Spec => []AnswerIsMine
    BY <1>1, P_Invariance, PTL
  <1> QED
    BY <1>2, <1>3

(* The server never reads past its table for a client that asks, and a      *)
(* client that has left with STOP has no slot.                              *)
THEOREM SlotsFit == (Spec => []SlotsFitClients) /\ (P_Spec => []SlotsFitClients)
  <1>1. Spec => []SlotsFitClients
    BY IInvSlots, Invariance, PTL
  <1>2. P_Spec => []SlotsFitClients
    BY IInvSlots, P_Invariance, PTL
  <1> QED
    BY <1>1, <1>2

(* A client that finds no answer to its START in its queue, though it is    *)
(* there to read it, came when no slot was free.                            *)
LEMMA NotStarted ==
    ASSUME TypeOK, S_Start, private' = private, client_pc[Head(public).pid] # "done"
    PROVE  \A i \in Slots : clientMsgQs[i] # NoClient
  <1>1. PICK c \in Clients :
            /\ c = Head(public).pid
            /\ Search(client_no).flag = 2 \/ Answer(c, 0)
    BY Started
  <1>2. CASE Search(client_no).flag = 2
    BY <1>2, SearchFinds
  <1>3. CASE Answer(c, 0)
    <2>1. private[c] \in Seq(Nat) /\ private'[c] = Append(private[c], 0)
      BY <1>1, <1>3, Answered DEF TypeOK
    <2>2. Len(private'[c]) = Len(private[c]) + 1 /\ Len(private[c]) \in Nat
      BY <2>1, AppendProperties
    <2> QED
      BY <2>2
  <1> QED
    BY <1>1, <1>2, <1>3

(* Clients are turned away only if the table is full, wherever the cursor   *)
(* of the search stands.                                                    *)
THEOREM TurnedAway == (Spec => TurnedAwayOnlyIfFull) /\ (P_Spec => TurnedAwayOnlyIfFull)
  <1> DEFINE A == S_Start /\ private' = private /\ client_pc[Head(public).pid] # "done"
                  => \A i \in Slots : clientMsgQs[i] # NoClient
  <1>1. IInv => [A]_vars
    BY NotStarted DEF IInv
  <1>2. Spec => [][A]_vars
    BY <1>1, Invariance, PTL
  <1>3. P_Spec => [][A]_vars
    BY <1>1, P_Invariance, PTL
  <1> QED
    BY <1>2, <1>3 DEF TurnedAwayOnlyIfFull
================================================================================
