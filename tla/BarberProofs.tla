------------------------------ MODULE BarberProofs ------------------------------
(****************************************************************************)
(* Theorems about both barber shops for every number of clients, of seats   *)
(* and of shaves, and every size of the message queue.                      *)
(****************************************************************************)
EXTENDS PosixBarber, SequenceTheorems, TLAPS

-----------------------------------------------------------------------------
(* The inductive invariant.                                                 *)

(* The places of the barber's main that hold the lock, and the others.      *)
B_Locked == {"B_receive", "B_invite", "B_sit_wait", "B_unlock", "B_unlock_asleep"}
B_Places == B_Locked \union
    {"B_lock", "B_tell_done", "B_leave_wait", "B_asleep", "closing", "closing_masked"}
H_Places == {"H_confirm", "H_sit_wait", "H_tell_done", "H_leave_wait"}

(* Those of a client, and those from waking the barber to leaving.          *)
C_Locked == {"C_look", "C_sit", "C_unlock_queued", "C_unlock_failed", "C_unlock_full",
             "C_wake_wait", "C_unlock_chair"}
C_Places == C_Locked \union
    {"C_again", "C_lock", "C_waiting", "C_in_chair", "C_shave_wait", "C_leave",
     "finished", "failed"}
C_Chair  == {"C_wake_wait", "C_unlock_chair", "C_in_chair", "C_shave_wait", "C_leave"}
S_Places == {"S_sit", "S_shave_wait", "S_leave"}

(* The state is of the expected shape; the semaphores are removed last.     *)
PlacesOK ==
    /\ main \in [Processes -> B_Places \union C_Places]
    /\ main[Barber] \in B_Places /\ \A c \in Clients : main[c] \in C_Places
    /\ handler \in [Processes -> {"none"} \union H_Places \union S_Places]
    /\ handler[Barber] \in {"none"} \union H_Places
    /\ \A c \in Clients : handler[c] \in {"none"} \union S_Places
    /\ gone \subseteq Processes

TypeOK ==
    /\ awake \in {0, 1} /\ waiting \in Int /\ waiting <= Seats /\ queue \in Seq(Clients)
    /\ sem \in [{"lock", "toBarber", "toClient"} -> Nat] /\ removed \subseteq {"queue", "sem"}
    /\ PlacesOK
    /\ pending \in [Processes -> Processes \union {Nobody}]
    /\ pending[Barber] \in Clients \union {Nobody}
    /\ customer \in Clients \union {Nobody}
    /\ shaved \in [Clients -> {0, 1}] /\ noOfShaves \in [Clients -> Int]
    /\ served \in [Clients -> Nat]
    /\ "sem" \in removed => Closing /\ "queue" \in removed

(* A client that is invited is in its busy wait, and not shaved yet; one    *)
(* that is in the shop has a shave to come.                                 *)
ClientsFollow ==
    \A c \in Clients :
        /\ handler[c] # "none" \/ pending[c] # Nobody => main[c] = "C_waiting" /\ shaved[c] = 0
        /\ handler[c] = "none" \/ pending[c] = Nobody
        /\ shaved[c] = 1 => main[c] = "C_waiting"
        /\ main[c] \notin {"C_again", "finished"} => noOfShaves[c] >= 1

(* The lock is free or has one holder.                                      *)
Holds(p) == main[p] \in B_Locked \union C_Locked

OneHolder ==
    /\ sem["lock"] \in {0, 1}
    /\ \A p, q \in Processes : Holds(p) /\ Holds(q) => p = q
    /\ \A p \in Processes : Holds(p) => sem["lock"] = 0

(* The queue has clients in their busy wait, or almost, each once.          *)
InQueue(c) == \E i \in 1..Len(queue) : queue[i] = c

Queued ==
    /\ \A i, j \in 1..Len(queue) : queue[i] = queue[j] => i = j
    /\ \A c \in Clients : InQueue(c) =>
          /\ main[c] \in {"C_unlock_queued", "C_waiting"}
          /\ handler[c] = "none" /\ pending[c] = Nobody /\ shaved[c] = 0

(* A client takes its place in the count first, then in the queue.          *)
Counted ==
    "queue" \notin removed =>
        /\ (\A c \in Clients : main[c] # "C_sit") => waiting = Len(queue)
        /\ (\E c \in Clients : main[c] = "C_sit") => waiting = Len(queue) + 1

(* While the barber is marked as asleep he is, and nobody waits or sits     *)
(* down.  He is woken up once.                                              *)
Asleep ==
    /\ awake = 0 => /\ handler[Barber] = "none" /\ queue = <<>>
                    /\ main[Barber] \in {"B_unlock_asleep", "B_asleep", "closing"}
                    /\ \A c \in Clients : main[c] # "C_sit"
    /\ main[Barber] = "B_unlock_asleep" => awake = 0
    /\ handler[Barber] # "none" => main[Barber] \in {"B_asleep", "closing"}
    /\ pending[Barber] # Nobody =>
          /\ awake = 0 /\ main[Barber] \in {"B_asleep", "closing"}
          /\ main[pending[Barber]] = "C_wake_wait"

(* The clients that have to do with the barber, and his messages and theirs.*)
Busy(c) == main[c] \in C_Chair \/ handler[c] # "none" \/ pending[c] # Nobody
Told(toClient, toBarber) == sem["toClient"] = toClient /\ sem["toBarber"] = toBarber

OneBusy == \A c, d \in Clients : Busy(c) /\ Busy(d) => c = d

(* No message waits for a barber without a customer.                        *)
NoCustomer ==
    \/ handler[Barber] = "none" /\ main[Barber] \in {"B_lock", "B_receive", "B_asleep"}
    \/ awake = 0
    => Told(0, 0) /\ \A c \in Clients : Busy(c) => awake = 0 /\ main[c] = "C_wake_wait"

(* What barber and client do, step by step, when the client wakes him up,   *)
WokenUp ==
    handler[Barber] # "none" =>
        /\ customer \in Clients
        /\ \A c \in Clients : Busy(c) => c = customer
        /\ LET at(h, c) == handler[Barber] = h /\ main[customer] = c IN
           \/ at("H_confirm", "C_wake_wait")       /\ Told(0, 0)
           \/ at("H_sit_wait", "C_wake_wait")      /\ Told(1, 0)
           \/ at("H_sit_wait", "C_unlock_chair")   /\ Told(0, 0)
           \/ at("H_sit_wait", "C_in_chair")       /\ Told(0, 0)
           \/ at("H_sit_wait", "C_shave_wait")     /\ Told(0, 1)
           \/ at("H_tell_done", "C_shave_wait")    /\ Told(0, 0)
           \/ at("H_leave_wait", "C_shave_wait")   /\ Told(1, 0)
           \/ at("H_leave_wait", "C_leave")        /\ Told(0, 0)
           \/ /\ handler[Barber] = "H_leave_wait"  /\ Told(0, 1)
              /\ \A c \in Clients : ~ Busy(c)

(* and when he invites it.                                                  *)
Invited ==
    main[Barber] \in {"B_invite", "B_sit_wait", "B_unlock", "B_tell_done", "B_leave_wait"} =>
        /\ customer \in Clients
        /\ \A c \in Clients : Busy(c) => c = customer
        /\ LET at(b, s) == main[Barber] = b /\ handler[customer] = s
               waits == /\ main[customer] = "C_waiting" /\ shaved[customer] = 0
                        /\ ~ InQueue(customer) IN
           \/ at("B_invite", "none") /\ waits /\ Told(0, 0) /\ pending[customer] = Nobody
           \/ at("B_sit_wait", "none") /\ waits    /\ Told(0, 0)
           \/ at("B_sit_wait", "S_sit")            /\ Told(0, 0)
           \/ at("B_sit_wait", "S_shave_wait")     /\ Told(0, 1)
           \/ at("B_unlock", "S_shave_wait")       /\ Told(0, 0)
           \/ at("B_tell_done", "S_shave_wait")    /\ Told(0, 0)
           \/ at("B_leave_wait", "S_shave_wait")   /\ Told(1, 0)
           \/ at("B_leave_wait", "S_leave")        /\ Told(0, 0)
           \/ /\ main[Barber] = "B_leave_wait"     /\ Told(0, 1)
              /\ \A c \in Clients : ~ Busy(c)

(* The messages to a client, also when the barber does not go on any more:  *)
(* there is one at most, for a client that waits for it, and a shave is     *)
(* done when the client is told so, and counted when it leaves.             *)
Waits(c) == main[c] = "C_shave_wait" \/ handler[c] = "S_shave_wait"
Leaves(c) == main[c] = "C_leave" \/ handler[c] = "S_leave"

Messages ==
    /\ sem["toClient"] \in {0, 1}
    /\ \A c \in Clients :
          Busy(c) /\ sem["toClient"] = 1 => main[c] = "C_wake_wait" \/ Waits(c)

Due(c) == Leaves(c) \/ (Waits(c) /\ sem["toClient"] = 1)

Account(c) ==
    /\ Due(c)   => served[c] = Shaves[c] - noOfShaves[c] + shaved[c] + 1
    /\ ~ Due(c) => served[c] = Shaves[c] - noOfShaves[c] + shaved[c]

Accounts == \A c \in Clients : Account(c)

(* All of it but the first two parts goes with the semaphores.              *)
ShopInv ==
    /\ OneHolder /\ Queued  /\ Counted  /\ Asleep   /\ OneBusy /\ NoCustomer
    /\ WokenUp   /\ Invited /\ Messages /\ Accounts

IInv == TypeOK /\ ClientsFollow /\ ("sem" \notin removed => ShopInv)

-----------------------------------------------------------------------------
(* The steps of both programs; how much room the message queue has is left  *)
(* open.                                                                    *)

AnyBarberStep == B_Lock \/ BarberStep \/ BarberStops

AnyClientStep(c) ==
    \/ C_Again(c) \/ C_Lock(c) \/ C_FreeSeat(c) \/ (\E room \in Nat : SitDown(c, room))
    \/ C_CantSend(c) \/ C_UnlockFailed(c) \/ C_UnlockQueued(c) \/ C_Shaved(c)
    \/ C_NoFreeSeats(c) \/ C_UnlockFull(c) \/ C_WakeUp(c) \/ C_WakeWait(c)
    \/ C_UnlockChair(c) \/ C_InChair(c) \/ C_ShaveWait(c) \/ C_Leave(c)
    \/ S_Invited(c) \/ S_Sit(c) \/ S_ShaveWait(c) \/ S_Leave(c)

AnyStep ==
    \/ AnyBarberStep
    \/ \E c \in Clients : AnyClientStep(c)
    \/ \E p \in Processes : Stops(p)

(* A step of the shop with System V objects is one of these.                *)
LEMMA SystemVSteps == Next => AnyStep
  <1> SUFFICES ASSUME Next PROVE AnyStep
    OBVIOUS
  <1>1. MaxQueued \in Nat
    BY BarberAssumption
  <1>2. ASSUME NEW c \in Clients, C_Lock(c) \/ ClientStep(c) PROVE AnyClientStep(c)
    BY <1>1, <1>2 DEF ClientStep, C_Sit, AnyClientStep
  <1> QED
    BY <1>2 DEF Next, AnyStep, AnyBarberStep, Processes

(* A step of the shop with POSIX objects is one, too.                       *)
LEMMA PosixSteps == P_Next => AnyStep
  <1> SUFFICES ASSUME P_Next PROVE AnyStep
    OBVIOUS
  <1>1. Seats \in Nat
    BY BarberAssumption
  <1>2. ASSUME NEW c \in Clients, P_C_Lock(c) \/ P_ClientStep(c) PROVE AnyClientStep(c)
    BY <1>1, <1>2
    DEF P_ClientStep, AnyClientStep, P_C_Lock, P_C_Again, P_C_FreeSeat, P_C_Sit,
        P_C_UnlockQueued, P_C_Shaved, P_C_NoFreeSeats, P_C_UnlockFull, P_C_WakeUp,
        P_C_WakeWait, P_C_UnlockChair, P_C_InChair, P_C_ShaveWait, P_C_Leave,
        P_S_Invited, P_S_Sit, P_S_ShaveWait, P_S_Leave
  <1>3. ASSUME P_B_Lock \/ P_BarberStep PROVE AnyBarberStep
    BY <1>3
    DEF P_BarberStep, AnyBarberStep, BarberStep, P_B_Lock, P_B_Receive, P_B_Invite,
        P_B_SitWait, P_B_Unlock, P_B_TellDone, P_B_LeaveWait, P_B_NobodyThere,
        P_B_UnlockAsleep, P_B_WakesUp, P_H_WokenUp, P_H_Confirm, P_H_SitWait, P_H_TellDone,
        P_H_LeaveWait
  <1> QED
    BY <1>2, <1>3 DEF P_Next, P_Stops, AnyStep

(* Processes run in main, at the places of main,                            *)
Goes(p, from, to) ==
    /\ handler[p] = "none" /\ main[p] = from
    /\ main' = [main EXCEPT ![p] = to] /\ UNCHANGED <<handler, gone>>

(* A step of main moves main, and happens outside of handlers only.         *)
LEMMA RunsInMain ==
    ASSUME TypeOK, NEW p \in Processes, NEW from \in B_Places \union C_Places, NEW to,
           Run(p, from, to)
    PROVE  Goes(p, from, to)
  <1>1. handler[p] \in {"none"} \union H_Places \union S_Places
    BY DEF TypeOK, PlacesOK
  <1>2. from \notin H_Places \union S_Places
    BY DEF B_Places, B_Locked, C_Places, C_Locked, H_Places, S_Places
  <1> QED
    BY <1>1, <1>2 DEF Run, Goes

(* and in their handler, at its places.                                     *)
GoesOn(p, from, to) ==
    /\ handler[p] = from
    /\ handler' = [handler EXCEPT ![p] = to] /\ UNCHANGED <<main, gone>>

(* The same for a step of a handler.                                        *)
LEMMA RunsInHandler ==
    ASSUME TypeOK, NEW p \in Processes, NEW from \in H_Places \union S_Places, NEW to,
           Run(p, from, to)
    PROVE  GoesOn(p, from, to)
  <1>1. main[p] \in B_Places \union C_Places
    BY DEF TypeOK, PlacesOK
  <1>2. from \notin B_Places \union C_Places
    BY DEF B_Places, B_Locked, C_Places, C_Locked, H_Places, S_Places
  <1> QED
    BY <1>1, <1>2 DEF Run, GoesOn

(* No signal interrupts a wait.                                             *)
LEMMA HandledInPlace ==
    ASSUME IInv, NEW p \in Processes, NEW place, Handle(p, place)
    PROVE  /\ pending[p] # Nobody /\ handler[p] = "none"
           /\ pending' = [pending EXCEPT ![p] = Nobody]
           /\ handler' = [handler EXCEPT ![p] = place]
           /\ UNCHANGED <<main, gone>>
           /\ p = Barber => main[Barber] \in {"B_asleep", "closing"}
           /\ p # Barber => main[p] = "C_waiting"
  <1>1. p = Barber => main[p] \in {"B_asleep", "closing"}
    BY DEF IInv, ShopInv, Asleep, TypeOK, Closing, Handle
  <1>2. p # Barber => main[p] = "C_waiting"
    BY DEF IInv, ClientsFollow, Handle, Processes
  <1>3. AfterWait(main[p]) = {main[p]}
    BY <1>1, <1>2 DEF AfterWait
  <1>4. main \in [Processes -> B_Places \union C_Places]
    BY DEF IInv, TypeOK, PlacesOK
  <1> QED
    BY <1>1, <1>2, <1>3, <1>4 DEF Handle

-----------------------------------------------------------------------------
(* The state keeps its shape.                                               *)

(* A barber who does not close goes from place to place of his main or his  *)
(* handler,                                                                 *)
LEMMA BarberPlaces ==
    ASSUME TypeOK, NEW from, NEW to, Run(Barber, from, to),
           \/ from \in B_Places \ {"closing", "closing_masked"} /\ to \in B_Places
           \/ from \in H_Places /\ to \in {"none"} \union H_Places
    PROVE  PlacesOK' /\ (Closing => Closing')
  <1>1. Barber \in Processes
    BY DEF Processes
  <1>2. CASE from \in B_Places \ {"closing", "closing_masked"} /\ to \in B_Places
    <2>1. Goes(Barber, from, to)
      BY <1>1, <1>2, RunsInMain
    <2> QED
      BY <1>1, <1>2, <2>1, BarberAssumption DEF Goes, TypeOK, PlacesOK, Closing
  <1>3. CASE from \in H_Places /\ to \in {"none"} \union H_Places
    <2>1. GoesOn(Barber, from, to)
      BY <1>1, <1>3, RunsInHandler
    <2> QED
      BY <1>1, <1>3, <2>1, BarberAssumption DEF GoesOn, TypeOK, PlacesOK, Closing
  <1> QED
    BY <1>2, <1>3

(* and so does a client.                                                    *)
LEMMA ClientPlaces ==
    ASSUME TypeOK, NEW c \in Clients, NEW from, NEW to, Run(c, from, to),
           \/ from \in C_Places /\ to \in C_Places
           \/ from \in S_Places /\ to \in {"none"} \union S_Places
    PROVE  PlacesOK' /\ (Closing => Closing')
  <1>1. c \in Processes /\ c # Barber
    BY BarberAssumption DEF Processes
  <1>2. CASE from \in C_Places /\ to \in C_Places
    <2>1. Goes(c, from, to)
      BY <1>1, <1>2, RunsInMain
    <2>2. /\ main' \in [Processes -> B_Places \union C_Places]
          /\ main'[Barber] = main[Barber]
          /\ \A d \in Clients : main'[d] \in C_Places
      BY <1>1, <1>2, <2>1 DEF Goes, TypeOK, PlacesOK, Processes
    <2> QED
      BY <2>1, <2>2 DEF Goes, TypeOK, PlacesOK, Closing
  <1>3. CASE from \in S_Places /\ to \in {"none"} \union S_Places
    <2>1. GoesOn(c, from, to)
      BY <1>1, <1>3, RunsInHandler
    <2>2. /\ handler' \in [Processes -> {"none"} \union H_Places \union S_Places]
          /\ handler'[Barber] = handler[Barber]
          /\ \A d \in Clients : handler'[d] \in {"none"} \union S_Places
      BY <1>1, <1>3, <2>1 DEF GoesOn, TypeOK, PlacesOK, Processes
    <2> QED
      BY <2>1, <2>2 DEF GoesOn, TypeOK, PlacesOK, Closing
  <1> QED
    BY <1>2, <1>3

(* A semaphore keeps its type.                                              *)
LEMMA SemaphoreOK ==
    ASSUME TypeOK, NEW p, NEW s \in {"lock", "toBarber", "toClient"}, NEW from, NEW to,
           Wait(p, s, from, to) \/ Post(p, s, from, to)
    PROVE  /\ sem' \in [{"lock", "toBarber", "toClient"} -> Nat] /\ Run(p, from, to)
           /\ UNCHANGED <<awake, waiting, queue, removed, pending, customer>>
  BY DEF TypeOK, Wait, Post

(* The type of everything but the places, for a step that changes only      *)
(* semaphores and counts.                                                   *)
LEMMA StepTypeOK ==
    ASSUME TypeOK, PlacesOK', Closing => Closing',
           sem' \in [{"lock", "toBarber", "toClient"} -> Nat],
           UNCHANGED <<awake, waiting, queue, removed, pending, customer>>,
           shaved' \in [Clients -> {0, 1}], noOfShaves' \in [Clients -> Int],
           served' \in [Clients -> Nat]
    PROVE  TypeOK'
  BY DEF TypeOK

(* The steps of the barber keep the types.                                  *)
LEMMA BarberTypeOK ==
    ASSUME IInv, AnyBarberStep
    PROVE  TypeOK'
  <1> USE DEF B_Places, B_Locked, H_Places
  <1>0. TypeOK /\ Barber \in Processes
    BY DEF IInv, Processes
  <1>1. CASE B_Lock \/ B_SitWait \/ B_Unlock \/ B_LeaveWait \/ B_UnlockAsleep
    <2>1. PICK s \in {"lock", "toBarber", "toClient"} :
          \E from \in B_Places \ {"closing", "closing_masked"}, to \in B_Places :
              Wait(Barber, s, from, to) \/ Post(Barber, s, from, to)
      BY <1>1 DEF B_Lock, B_SitWait, B_Unlock, B_LeaveWait, B_UnlockAsleep
    <2>2. UNCHANGED shaves
      BY <1>1 DEF B_Lock, B_SitWait, B_Unlock, B_LeaveWait, B_UnlockAsleep
    <2>3. /\ sem' \in [{"lock", "toBarber", "toClient"} -> Nat] /\ PlacesOK'
          /\ UNCHANGED <<awake, waiting, queue, removed, pending, customer>>
          /\ Closing => Closing'
      BY <1>0, <2>1, SemaphoreOK, BarberPlaces
    <2> QED
      BY <1>0, <2>2, <2>3, StepTypeOK DEF TypeOK, shaves
  <1>2. CASE H_Confirm \/ H_SitWait \/ H_LeaveWait
    <2>1. PICK s \in {"lock", "toBarber", "toClient"} :
          \E from \in H_Places, to \in {"none"} \union H_Places :
              Wait(Barber, s, from, to) \/ Post(Barber, s, from, to)
      BY <1>2 DEF H_Confirm, H_SitWait, H_LeaveWait
    <2>2. UNCHANGED shaves
      BY <1>2 DEF H_Confirm, H_SitWait, H_LeaveWait
    <2>3. /\ sem' \in [{"lock", "toBarber", "toClient"} -> Nat] /\ PlacesOK'
          /\ UNCHANGED <<awake, waiting, queue, removed, pending, customer>>
          /\ Closing => Closing'
      BY <1>0, <2>1, SemaphoreOK, BarberPlaces
    <2> QED
      BY <1>0, <2>2, <2>3, StepTypeOK DEF TypeOK, shaves
  <1>3. CASE B_TellDone \/ H_TellDone
    <2>1. \/ Post(Barber, "toClient", "B_tell_done", "B_leave_wait")
          \/ Post(Barber, "toClient", "H_tell_done", "H_leave_wait")
      BY <1>3 DEF B_TellDone, H_TellDone
    <2>2. served' = [served EXCEPT ![customer] = @ + 1] /\ UNCHANGED <<shaved, noOfShaves>>
      BY <1>3 DEF B_TellDone, H_TellDone
    <2>3. served' \in [Clients -> Nat]
      <3>1. served \in [Clients -> Nat]
        BY <1>0 DEF TypeOK
      <3>2. served' = [c \in Clients |-> IF c = customer THEN served[c] + 1 ELSE served[c]]
        BY <2>2, <3>1
      <3> QED
        BY <3>1, <3>2
    <2>4. /\ sem' \in [{"lock", "toBarber", "toClient"} -> Nat] /\ PlacesOK'
          /\ UNCHANGED <<awake, waiting, queue, removed, pending, customer>>
          /\ Closing => Closing'
      <3>1. /\ sem' \in [{"lock", "toBarber", "toClient"} -> Nat]
            /\ \/ Run(Barber, "B_tell_done", "B_leave_wait")
               \/ Run(Barber, "H_tell_done", "H_leave_wait")
            /\ UNCHANGED <<awake, waiting, queue, removed, pending, customer>>
        BY <1>0, <2>1, SemaphoreOK
      <3> QED
        BY <1>0, <3>1, BarberPlaces
    <2> QED
      BY <1>0, <2>2, <2>3, <2>4, StepTypeOK DEF TypeOK
  <1>4. CASE B_Receive
    <2>1. /\ queue # <<>> /\ queue' = Tail(queue) /\ customer' = Head(queue)
          /\ waiting' = waiting - 1 /\ UNCHANGED <<awake, sem, removed, pending, shaves>>
          /\ Run(Barber, "B_receive", "B_invite")
      BY <1>4 DEF B_Receive
    <2>2. queue' \in Seq(Clients) /\ customer' \in Clients
      BY <1>0, <2>1, HeadTailProperties DEF TypeOK
    <2>3. PlacesOK' /\ (Closing => Closing')
      BY <1>0, <2>1, BarberPlaces
    <2>4. waiting' \in Int /\ waiting' <= Seats
      BY <1>0, <2>1, BarberAssumption DEF TypeOK
    <2> QED
      BY <1>0, <2>1, <2>2, <2>3, <2>4 DEF TypeOK, shaves
  <1>5. CASE B_Invite
    <2>1. /\ Run(Barber, "B_invite", "B_sit_wait") /\ Kill(customer, Barber)
          /\ UNCHANGED <<shop, customer, shaves>>
      BY <1>5 DEF B_Invite
    <2>2. PlacesOK' /\ (Closing => Closing')
      BY <1>0, <2>1, BarberPlaces
    <2>3. customer # Barber
      BY <1>0, BarberAssumption DEF TypeOK, Processes
    <2>4. /\ pending' \in [Processes -> Processes \union {Nobody}]
          /\ pending'[Barber] = pending[Barber]
      BY <1>0, <2>1, <2>3 DEF TypeOK, Kill
    <2> QED
      BY <1>0, <2>1, <2>2, <2>4 DEF TypeOK, shop, shaves
  <1>6. CASE B_NobodyThere \/ B_WakesUp
    <2>1. /\ \/ Run(Barber, "B_receive", "B_unlock_asleep") \/ Run(Barber, "B_asleep", "B_lock")
          /\ awake' \in {0, awake}
          /\ UNCHANGED <<waiting, queue, sem, removed, pending, customer, shaves>>
      BY <1>6 DEF B_NobodyThere, B_WakesUp, shop
    <2>2. PlacesOK' /\ (Closing => Closing')
      BY <1>0, <2>1, BarberPlaces
    <2> QED
      BY <1>0, <2>1, <2>2 DEF TypeOK, shaves
  <1>7. CASE H_WokenUp
    <2>1. /\ pending[Barber] # Nobody /\ pending' = [pending EXCEPT ![Barber] = Nobody]
          /\ handler' = [handler EXCEPT ![Barber] = "H_confirm"] /\ UNCHANGED <<main, gone>>
          /\ customer' = pending[Barber] /\ awake' = 1
          /\ UNCHANGED <<waiting, queue, sem, removed, shaves>>
      BY <1>0, <1>7, HandledInPlace DEF H_WokenUp
    <2>2. PlacesOK'
      BY <1>0, <2>1, BarberAssumption DEF TypeOK, PlacesOK
    <2>3. /\ pending' \in [Processes -> Processes \union {Nobody}]
          /\ pending'[Barber] = Nobody /\ customer' \in Clients
      BY <1>0, <2>1 DEF TypeOK
    <2> QED
      BY <1>0, <2>1, <2>2, <2>3 DEF TypeOK, shaves, Closing
  <1>8. CASE BarberStops
    <2>1. PlacesOK' /\ Closing'
      BY <1>0, <1>8, BarberAssumption DEF BarberStops, TypeOK, PlacesOK, Closing
    <2> QED
      BY <1>0, <1>8, <2>1 DEF BarberStops, TypeOK, shop, shaves
  <1>9. CASE B_RemoveQueue
    <2>1. UNCHANGED <<main, handler, gone>>
      <3>1. /\ main \in [Processes -> B_Places \union C_Places]
            /\ Run(Barber, main[Barber], main[Barber])
        BY <1>0, <1>9 DEF TypeOK, PlacesOK, B_RemoveQueue
      <3>2. Goes(Barber, main[Barber], main[Barber])
        BY <1>0, <3>1, RunsInMain
      <3> QED
        BY <3>1, <3>2 DEF Goes
    <2>2. /\ removed' \subseteq {"queue", "sem"} /\ queue' \in Seq(Clients)
          /\ Closing /\ "queue" \in removed'
      BY <1>0, <1>9, EmptySeq DEF B_RemoveQueue, TypeOK
    <2> QED
      BY <1>0, <1>9, <2>1, <2>2 DEF B_RemoveQueue, TypeOK, PlacesOK, shaves, Closing
  <1>10. CASE B_RemoveSem
    <2>1. /\ removed' \subseteq {"queue", "sem"}
          /\ sem' \in [{"lock", "toBarber", "toClient"} -> Nat]
      BY <1>0, <1>10 DEF B_RemoveSem, TypeOK
    <2>2. PlacesOK' /\ Closing'
      BY <1>0, <1>10 DEF B_RemoveSem, TypeOK, PlacesOK, Closing
    <2>3. /\ pending' \in [Processes -> Processes \union {Nobody}]
          /\ pending'[Barber] = Nobody
      BY <1>0, <1>10 DEF B_RemoveSem, TypeOK
    <2> QED
      BY <1>0, <1>10, <2>1, <2>2, <2>3 DEF B_RemoveSem, TypeOK, shaves
  <1> QED
    BY <1>1, <1>2, <1>3, <1>4, <1>5, <1>6, <1>7, <1>8, <1>9, <1>10
    DEF AnyBarberStep, BarberStep

(* The steps of a client keep the types.                                    *)
LEMMA ClientTypeOK ==
    ASSUME IInv, NEW c \in Clients, AnyClientStep(c)
    PROVE  TypeOK'
  <1> USE DEF C_Places, C_Locked, S_Places
  <1>0. TypeOK /\ c \in Processes /\ c # Barber
    BY BarberAssumption DEF IInv, Processes
  <1>1. CASE C_Lock(c) \/ C_UnlockFailed(c) \/ C_UnlockQueued(c) \/ C_UnlockFull(c)
             \/ C_WakeWait(c) \/ C_UnlockChair(c) \/ C_InChair(c) \/ C_ShaveWait(c)
    <2>1. PICK s \in {"lock", "toBarber", "toClient"} :
          \E from \in C_Places, to \in C_Places : Wait(c, s, from, to) \/ Post(c, s, from, to)
      BY <1>1 DEF C_Lock, C_UnlockFailed, C_UnlockQueued, C_UnlockFull, C_WakeWait,
                  C_UnlockChair, C_InChair, C_ShaveWait
    <2>2. UNCHANGED shaves
      BY <1>1 DEF C_Lock, C_UnlockFailed, C_UnlockQueued, C_UnlockFull, C_WakeWait,
                  C_UnlockChair, C_InChair, C_ShaveWait
    <2>3. /\ sem' \in [{"lock", "toBarber", "toClient"} -> Nat] /\ PlacesOK'
          /\ UNCHANGED <<awake, waiting, queue, removed, pending, customer>>
          /\ Closing => Closing'
      <3>1. /\ sem' \in [{"lock", "toBarber", "toClient"} -> Nat]
            /\ \E from \in C_Places, to \in C_Places : Run(c, from, to)
            /\ UNCHANGED <<awake, waiting, queue, removed, pending, customer>>
        BY <1>0, <2>1, SemaphoreOK
      <3> QED
        BY <1>0, <3>1, ClientPlaces
    <2> QED
      BY <1>0, <2>2, <2>3, StepTypeOK DEF TypeOK, shaves
  <1>2. CASE S_Sit(c) \/ S_ShaveWait(c) \/ S_Leave(c)
    <2>1. PICK s \in {"lock", "toBarber", "toClient"} :
          \E from \in S_Places, to \in {"none"} \union S_Places :
              Wait(c, s, from, to) \/ Post(c, s, from, to)
      BY <1>2 DEF S_Sit, S_ShaveWait, S_Leave
    <2>2. shaved' \in [Clients -> {0, 1}] /\ UNCHANGED <<noOfShaves, served>>
      BY <1>0, <1>2 DEF S_Sit, S_ShaveWait, S_Leave, shaves, TypeOK
    <2>3. /\ sem' \in [{"lock", "toBarber", "toClient"} -> Nat] /\ PlacesOK'
          /\ UNCHANGED <<awake, waiting, queue, removed, pending, customer>>
          /\ Closing => Closing'
      <3>1. /\ sem' \in [{"lock", "toBarber", "toClient"} -> Nat]
            /\ \E from \in S_Places, to \in {"none"} \union S_Places : Run(c, from, to)
            /\ UNCHANGED <<awake, waiting, queue, removed, pending, customer>>
        BY <1>0, <2>1, SemaphoreOK
      <3> QED
        BY <1>0, <3>1, ClientPlaces
    <2> QED
      BY <1>0, <2>2, <2>3, StepTypeOK DEF TypeOK
  <1>3. CASE C_Leave(c)
    <2>1. Post(c, "toBarber", "C_leave", "C_again") /\ UNCHANGED <<shaved, served>>
          /\ noOfShaves' \in [Clients -> Int]
      BY <1>0, <1>3 DEF C_Leave, TypeOK
    <2>2. /\ sem' \in [{"lock", "toBarber", "toClient"} -> Nat] /\ PlacesOK'
          /\ UNCHANGED <<awake, waiting, queue, removed, pending, customer>>
          /\ Closing => Closing'
      <3>1. /\ sem' \in [{"lock", "toBarber", "toClient"} -> Nat]
            /\ Run(c, "C_leave", "C_again")
            /\ UNCHANGED <<awake, waiting, queue, removed, pending, customer>>
        BY <1>0, <2>1, SemaphoreOK
      <3> QED
        BY <1>0, <3>1, ClientPlaces
    <2> QED
      BY <1>0, <2>1, <2>2, StepTypeOK DEF TypeOK
  <1>4. CASE C_Again(c) \/ C_CantSend(c) \/ C_NoFreeSeats(c)
    <2>1. PICK from \in C_Places, to \in C_Places : Run(c, from, to)
      BY <1>4 DEF C_Again, C_CantSend, C_NoFreeSeats
    <2>2. PlacesOK' /\ (Closing => Closing')
      BY <1>0, <2>1, ClientPlaces
    <2> QED
      BY <1>0, <1>4, <2>2 DEF C_Again, C_CantSend, C_NoFreeSeats, TypeOK, shop, shaves
  <1>5. CASE C_FreeSeat(c)
    <2>1. PlacesOK' /\ (Closing => Closing')
      BY <1>0, <1>5, ClientPlaces DEF C_FreeSeat
    <2>2. waiting' \in Int /\ waiting' <= Seats
      BY <1>0, <1>5, BarberAssumption DEF C_FreeSeat, TypeOK
    <2> QED
      BY <1>0, <1>5, <2>1, <2>2 DEF C_FreeSeat, TypeOK, shaves
  <1>6. ASSUME NEW room \in Nat, SitDown(c, room) PROVE TypeOK'
    <2>1. PlacesOK' /\ (Closing => Closing')
      BY <1>0, <1>6, ClientPlaces DEF SitDown
    <2>2. queue' \in Seq(Clients)
      BY <1>0, <1>6, AppendProperties DEF SitDown, TypeOK
    <2> QED
      BY <1>0, <1>6, <2>1, <2>2 DEF SitDown, TypeOK, shaves
  <1>7. CASE C_Shaved(c)
    <2>1. PlacesOK' /\ (Closing => Closing')
      BY <1>0, <1>7, ClientPlaces DEF C_Shaved
    <2>2. shaved' \in [Clients -> {0, 1}] /\ noOfShaves' \in [Clients -> Int]
      BY <1>0, <1>7 DEF C_Shaved, TypeOK
    <2> QED
      BY <1>0, <1>7, <2>1, <2>2 DEF C_Shaved, TypeOK, shop
  <1>8. CASE C_WakeUp(c)
    <2>1. PlacesOK' /\ (Closing => Closing')
      BY <1>0, <1>8, ClientPlaces DEF C_WakeUp
    <2>2. /\ pending' \in [Processes -> Processes \union {Nobody}]
          /\ pending'[Barber] \in Clients \union {Nobody}
      BY <1>0, <1>8 DEF C_WakeUp, Kill, TypeOK, Processes
    <2> QED
      BY <1>0, <1>8, <2>1, <2>2 DEF C_WakeUp, TypeOK, shop, shaves
  <1>9. CASE S_Invited(c)
    <2>1. /\ pending' = [pending EXCEPT ![c] = Nobody]
          /\ handler' = [handler EXCEPT ![c] = "S_sit"]
          /\ UNCHANGED <<main, gone, shop, customer, shaves>>
      BY <1>0, <1>9, HandledInPlace DEF S_Invited
    <2>2. PlacesOK'
      BY <1>0, <2>1 DEF TypeOK, PlacesOK
    <2>3. /\ pending' \in [Processes -> Processes \union {Nobody}]
          /\ pending'[Barber] = pending[Barber]
      BY <1>0, <2>1 DEF TypeOK
    <2> QED
      BY <1>0, <2>1, <2>2, <2>3 DEF TypeOK, shop, shaves, Closing
  <1> QED
    BY <1>1, <1>2, <1>3, <1>4, <1>5, <1>6, <1>7, <1>8, <1>9 DEF AnyClientStep

(* A process that is stopped keeps the types.                               *)
LEMMA StopTypeOK ==
    ASSUME TypeOK, NEW p \in Processes, Stops(p)
    PROVE  TypeOK'
  <1>1. /\ pending' \in [Processes -> Processes \union {Nobody}]
        /\ pending'[Barber] \in Clients \union {Nobody}
    BY DEF Stops, TypeOK, Processes
  <1>2. PlacesOK' /\ (Closing => Closing')
    BY DEF Stops, TypeOK, PlacesOK, Closing
  <1> QED
    BY <1>1, <1>2 DEF Stops, TypeOK, shop, shaves

-----------------------------------------------------------------------------
(* Who changes what.                                                        *)

(* A process goes on, the others stay where they are.                       *)
LEMMA RunsAlone ==
    ASSUME TypeOK, NEW p \in Processes, NEW from, NEW to, Run(p, from, to),
           NEW q \in Processes, q # p
    PROVE  main'[q] = main[q] /\ handler'[q] = handler[q]
  BY DEF Run, TypeOK, PlacesOK

(* The barber does not touch the clients, unless he invites one.            *)
LEMMA BarberAlone ==
    ASSUME IInv, AnyBarberStep, NEW c \in Clients
    PROVE  /\ main'[c] = main[c] /\ handler'[c] = handler[c]
           /\ pending'[c] = pending[c] \/ (B_Invite /\ c = customer)
           /\ UNCHANGED <<shaved, noOfShaves>>
  <1>0. TypeOK /\ c \in Processes /\ Barber \in Processes /\ c # Barber
    BY BarberAssumption DEF IInv, Processes
  <1>1. ASSUME NEW s, NEW from, NEW to, Wait(Barber, s, from, to) \/ Post(Barber, s, from, to)
        PROVE  main'[c] = main[c] /\ handler'[c] = handler[c] /\ UNCHANGED pending
    BY <1>0, <1>1, RunsAlone DEF Wait, Post
  <1>2. CASE B_Lock \/ B_SitWait \/ B_Unlock \/ B_LeaveWait \/ B_UnlockAsleep
    BY <1>1, <1>2 DEF B_Lock, B_SitWait, B_Unlock, B_LeaveWait, B_UnlockAsleep, shaves
  <1>3. CASE H_Confirm \/ H_SitWait \/ H_LeaveWait
    BY <1>1, <1>3 DEF H_Confirm, H_SitWait, H_LeaveWait, shaves
  <1>4. CASE B_TellDone \/ H_TellDone
    BY <1>1, <1>4 DEF B_TellDone, H_TellDone
  <1>5. CASE B_Receive \/ B_NobodyThere \/ B_WakesUp \/ B_RemoveQueue
    BY <1>0, <1>5, RunsAlone DEF B_Receive, B_NobodyThere, B_WakesUp, B_RemoveQueue, shaves
  <1>6. CASE B_Invite
    BY <1>0, <1>6, RunsAlone DEF B_Invite, Kill, shaves, TypeOK
  <1>7. CASE H_WokenUp
    BY <1>0, <1>7, HandledInPlace DEF H_WokenUp, shaves, TypeOK, PlacesOK
  <1>8. CASE BarberStops
    BY <1>0, <1>8 DEF BarberStops, shaves, TypeOK, PlacesOK
  <1>9. CASE B_RemoveSem
    BY <1>0, <1>9 DEF B_RemoveSem, shaves, TypeOK
  <1> QED
    BY <1>2, <1>3, <1>4, <1>5, <1>6, <1>7, <1>8, <1>9 DEF AnyBarberStep, BarberStep

(* A client touches nobody else, but that it may wake up the barber.        *)
LEMMA ClientAlone ==
    ASSUME IInv, NEW c \in Clients, AnyClientStep(c), NEW q \in Processes, q # c
    PROVE  /\ main'[q] = main[q] /\ handler'[q] = handler[q]
           /\ pending'[q] = pending[q] \/ (C_WakeUp(c) /\ q = Barber)
           /\ q \in Clients => shaved'[q] = shaved[q] /\ noOfShaves'[q] = noOfShaves[q]
           /\ UNCHANGED <<served, customer, removed, awake>>
  <1>0. TypeOK /\ c \in Processes
    BY DEF IInv, Processes
  <1>1. ASSUME NEW s, NEW from, NEW to, Wait(c, s, from, to) \/ Post(c, s, from, to)
        PROVE  /\ main'[q] = main[q] /\ handler'[q] = handler[q]
               /\ UNCHANGED <<pending, customer, removed, awake>>
    BY <1>0, <1>1, RunsAlone DEF Wait, Post
  <1>2. CASE C_Lock(c) \/ C_UnlockFailed(c) \/ C_UnlockQueued(c) \/ C_UnlockFull(c)
             \/ C_WakeWait(c) \/ C_UnlockChair(c) \/ C_InChair(c) \/ C_ShaveWait(c)
             \/ S_Sit(c) \/ S_ShaveWait(c)
    BY <1>1, <1>2 DEF C_Lock, C_UnlockFailed, C_UnlockQueued, C_UnlockFull, C_WakeWait,
                  C_UnlockChair, C_InChair, C_ShaveWait, S_Sit, S_ShaveWait, shaves
  <1>3. CASE C_Leave(c) \/ S_Leave(c)
    BY <1>0, <1>1, <1>3 DEF C_Leave, S_Leave, TypeOK
  <1>4. CASE C_Again(c) \/ C_CantSend(c) \/ C_NoFreeSeats(c) \/ C_FreeSeat(c) \/ C_Shaved(c)
    BY <1>0, <1>4, RunsAlone
    DEF C_Again, C_CantSend, C_NoFreeSeats, C_FreeSeat, C_Shaved, shop, shaves, TypeOK
  <1>5. ASSUME NEW room \in Nat, SitDown(c, room)
        PROVE  /\ main'[q] = main[q] /\ handler'[q] = handler[q]
               /\ UNCHANGED <<pending, customer, removed, awake, shaves>>
    BY <1>0, <1>5, RunsAlone DEF SitDown
  <1>6. CASE C_WakeUp(c)
    BY <1>0, <1>6, RunsAlone DEF C_WakeUp, Kill, shop, shaves, TypeOK
  <1>7. CASE S_Invited(c)
    BY <1>0, <1>7, HandledInPlace DEF S_Invited, shop, shaves, TypeOK, PlacesOK
  <1> QED
    BY <1>2, <1>3, <1>4, <1>5, <1>6, <1>7 DEF AnyClientStep, shaves

(* A process that is stopped stays where it is.                             *)
LEMMA StopAlone ==
    ASSUME TypeOK, NEW p \in Processes, Stops(p), NEW q \in Processes
    PROVE  /\ pending'[q] = pending[q] \/ (q = p /\ pending'[q] = Nobody)
           /\ UNCHANGED <<shop, main, handler, customer, shaves>>
  BY DEF Stops, TypeOK

(* A message is taken from a semaphore, or put there, as long as it exists. *)
Takes(s) == "sem" \notin removed => sem[s] > 0 /\ sem' = [sem EXCEPT ![s] = @ - 1]
Gives(s) == "sem" \notin removed => sem' = [sem EXCEPT ![s] = @ + 1]
Else     == UNCHANGED <<awake, waiting, queue, removed, pending, customer>>

(* What waiting and posting do to the way and the semaphores, in main,      *)
LEMMA WaitsInMain ==
    ASSUME TypeOK, NEW p \in Processes, NEW s, NEW from \in B_Places \union C_Places, NEW to
    PROVE  /\ Wait(p, s, from, to) => Goes(p, from, to) /\ Takes(s) /\ Else
           /\ Post(p, s, from, to) => Goes(p, from, to) /\ Gives(s) /\ Else
  BY RunsInMain DEF Wait, Post, Takes, Gives, Else

(* and in a handler.                                                        *)
LEMMA WaitsInHandler ==
    ASSUME TypeOK, NEW p \in Processes, NEW s, NEW from \in H_Places \union S_Places, NEW to
    PROVE  /\ Wait(p, s, from, to) => GoesOn(p, from, to) /\ Takes(s) /\ Else
           /\ Post(p, s, from, to) => GoesOn(p, from, to) /\ Gives(s) /\ Else
  BY RunsInHandler DEF Wait, Post, Takes, Gives, Else

(* The way of the barber, and the semaphores on it.                         *)
LEMMA BarberGoes ==
    ASSUME IInv
    PROVE  /\ B_Lock => Goes(Barber, "B_lock", "B_receive") /\ Takes("lock") /\ Else
           /\ B_SitWait => Goes(Barber, "B_sit_wait", "B_unlock") /\ Takes("toBarber") /\ Else
           /\ B_Unlock => Goes(Barber, "B_unlock", "B_tell_done") /\ Gives("lock") /\ Else
           /\ B_TellDone =>
                  Goes(Barber, "B_tell_done", "B_leave_wait") /\ Gives("toClient") /\ Else
           /\ B_LeaveWait => Goes(Barber, "B_leave_wait", "B_lock") /\ Takes("toBarber") /\ Else
           /\ B_UnlockAsleep =>
                  Goes(Barber, "B_unlock_asleep", "B_asleep") /\ Gives("lock") /\ Else
           /\ H_Confirm => GoesOn(Barber, "H_confirm", "H_sit_wait") /\ Gives("toClient") /\ Else
           /\ H_SitWait =>
                  GoesOn(Barber, "H_sit_wait", "H_tell_done") /\ Takes("toBarber") /\ Else
           /\ H_TellDone =>
                  GoesOn(Barber, "H_tell_done", "H_leave_wait") /\ Gives("toClient") /\ Else
           /\ H_LeaveWait => GoesOn(Barber, "H_leave_wait", "none") /\ Takes("toBarber") /\ Else
           /\ B_Receive => Goes(Barber, "B_receive", "B_invite")
           /\ B_Invite => Goes(Barber, "B_invite", "B_sit_wait")
           /\ B_NobodyThere => Goes(Barber, "B_receive", "B_unlock_asleep")
           /\ B_WakesUp => Goes(Barber, "B_asleep", "B_lock")
  <1>0. TypeOK /\ Barber \in Processes
    BY DEF IInv, Processes
  <1> USE DEF B_Places, B_Locked, C_Places, C_Locked, H_Places, S_Places
  <1>1. B_Lock => Goes(Barber, "B_lock", "B_receive") /\ Takes("lock") /\ Else
    BY <1>0, WaitsInMain DEF B_Lock
  <1>2. B_SitWait => Goes(Barber, "B_sit_wait", "B_unlock") /\ Takes("toBarber") /\ Else
    BY <1>0, WaitsInMain DEF B_SitWait
  <1>3. B_Unlock => Goes(Barber, "B_unlock", "B_tell_done") /\ Gives("lock") /\ Else
    BY <1>0, WaitsInMain DEF B_Unlock
  <1>4. B_TellDone => Goes(Barber, "B_tell_done", "B_leave_wait") /\ Gives("toClient") /\ Else
    BY <1>0, WaitsInMain DEF B_TellDone
  <1>5. B_LeaveWait => Goes(Barber, "B_leave_wait", "B_lock") /\ Takes("toBarber") /\ Else
    BY <1>0, WaitsInMain DEF B_LeaveWait
  <1>6. B_UnlockAsleep => Goes(Barber, "B_unlock_asleep", "B_asleep") /\ Gives("lock") /\ Else
    BY <1>0, WaitsInMain DEF B_UnlockAsleep
  <1>7. H_Confirm => GoesOn(Barber, "H_confirm", "H_sit_wait") /\ Gives("toClient") /\ Else
    BY <1>0, WaitsInHandler DEF H_Confirm
  <1>8. H_SitWait => GoesOn(Barber, "H_sit_wait", "H_tell_done") /\ Takes("toBarber") /\ Else
    BY <1>0, WaitsInHandler DEF H_SitWait
  <1>9. H_TellDone => GoesOn(Barber, "H_tell_done", "H_leave_wait") /\ Gives("toClient") /\ Else
    BY <1>0, WaitsInHandler DEF H_TellDone
  <1>10. H_LeaveWait => GoesOn(Barber, "H_leave_wait", "none") /\ Takes("toBarber") /\ Else
    BY <1>0, WaitsInHandler DEF H_LeaveWait
  <1>11. B_Receive => Goes(Barber, "B_receive", "B_invite")
    BY <1>0, RunsInMain DEF B_Receive
  <1>12. B_Invite => Goes(Barber, "B_invite", "B_sit_wait")
    BY <1>0, RunsInMain DEF B_Invite
  <1>13. B_NobodyThere => Goes(Barber, "B_receive", "B_unlock_asleep")
    BY <1>0, RunsInMain DEF B_NobodyThere
  <1>14. B_WakesUp => Goes(Barber, "B_asleep", "B_lock")
    BY <1>0, RunsInMain DEF B_WakesUp
  <1> QED
    BY <1>1, <1>2, <1>3, <1>4, <1>5, <1>6, <1>7, <1>8, <1>9, <1>10, <1>11, <1>12, <1>13, <1>14

(* The way of a client.                                                     *)
LEMMA ClientGoes ==
    ASSUME IInv, NEW c \in Clients
    PROVE  /\ C_Lock(c) => Goes(c, "C_lock", "C_look") /\ Takes("lock") /\ Else
           /\ C_UnlockFailed(c) => Goes(c, "C_unlock_failed", "failed") /\ Gives("lock") /\ Else
           /\ C_UnlockQueued(c) =>
                  Goes(c, "C_unlock_queued", "C_waiting") /\ Gives("lock") /\ Else
           /\ C_UnlockFull(c) => Goes(c, "C_unlock_full", "C_again") /\ Gives("lock") /\ Else
           /\ C_WakeWait(c) =>
                  Goes(c, "C_wake_wait", "C_unlock_chair") /\ Takes("toClient") /\ Else
           /\ C_UnlockChair(c) => Goes(c, "C_unlock_chair", "C_in_chair") /\ Gives("lock") /\ Else
           /\ C_InChair(c) => Goes(c, "C_in_chair", "C_shave_wait") /\ Gives("toBarber") /\ Else
           /\ C_ShaveWait(c) => Goes(c, "C_shave_wait", "C_leave") /\ Takes("toClient") /\ Else
           /\ C_Leave(c) => Goes(c, "C_leave", "C_again") /\ Gives("toBarber") /\ Else
           /\ S_Sit(c) => GoesOn(c, "S_sit", "S_shave_wait") /\ Gives("toBarber") /\ Else
           /\ S_ShaveWait(c) => GoesOn(c, "S_shave_wait", "S_leave") /\ Takes("toClient") /\ Else
           /\ S_Leave(c) => GoesOn(c, "S_leave", "none") /\ Gives("toBarber") /\ Else
           /\ C_FreeSeat(c) => Goes(c, "C_look", "C_sit")
           /\ C_CantSend(c) => Goes(c, "C_sit", "C_unlock_failed")
           /\ C_Shaved(c) => Goes(c, "C_waiting", "C_again")
           /\ C_NoFreeSeats(c) => Goes(c, "C_look", "C_unlock_full")
           /\ C_WakeUp(c) => Goes(c, "C_look", "C_wake_wait")
           /\ C_Again(c) => Goes(c, "C_again", IF noOfShaves[c] > 0 THEN "C_lock" ELSE "finished")
           /\ \A room : SitDown(c, room) => Goes(c, "C_sit", "C_unlock_queued")
  <1>0. TypeOK /\ c \in Processes
    BY DEF IInv, Processes
  <1> USE DEF B_Places, B_Locked, C_Places, C_Locked, H_Places, S_Places
  <1>1. C_Lock(c) => Goes(c, "C_lock", "C_look") /\ Takes("lock") /\ Else
    BY <1>0, WaitsInMain DEF C_Lock
  <1>2. C_UnlockFailed(c) => Goes(c, "C_unlock_failed", "failed") /\ Gives("lock") /\ Else
    BY <1>0, WaitsInMain DEF C_UnlockFailed
  <1>3. C_UnlockQueued(c) => Goes(c, "C_unlock_queued", "C_waiting") /\ Gives("lock") /\ Else
    BY <1>0, WaitsInMain DEF C_UnlockQueued
  <1>4. C_UnlockFull(c) => Goes(c, "C_unlock_full", "C_again") /\ Gives("lock") /\ Else
    BY <1>0, WaitsInMain DEF C_UnlockFull
  <1>5. C_WakeWait(c) => Goes(c, "C_wake_wait", "C_unlock_chair") /\ Takes("toClient") /\ Else
    BY <1>0, WaitsInMain DEF C_WakeWait
  <1>6. C_UnlockChair(c) => Goes(c, "C_unlock_chair", "C_in_chair") /\ Gives("lock") /\ Else
    BY <1>0, WaitsInMain DEF C_UnlockChair
  <1>7. C_InChair(c) => Goes(c, "C_in_chair", "C_shave_wait") /\ Gives("toBarber") /\ Else
    BY <1>0, WaitsInMain DEF C_InChair
  <1>8. C_ShaveWait(c) => Goes(c, "C_shave_wait", "C_leave") /\ Takes("toClient") /\ Else
    BY <1>0, WaitsInMain DEF C_ShaveWait
  <1>9. C_Leave(c) => Goes(c, "C_leave", "C_again") /\ Gives("toBarber") /\ Else
    BY <1>0, WaitsInMain DEF C_Leave
  <1>10. S_Sit(c) => GoesOn(c, "S_sit", "S_shave_wait") /\ Gives("toBarber") /\ Else
    BY <1>0, WaitsInHandler DEF S_Sit
  <1>11. S_ShaveWait(c) => GoesOn(c, "S_shave_wait", "S_leave") /\ Takes("toClient") /\ Else
    BY <1>0, WaitsInHandler DEF S_ShaveWait
  <1>12. S_Leave(c) => GoesOn(c, "S_leave", "none") /\ Gives("toBarber") /\ Else
    BY <1>0, WaitsInHandler DEF S_Leave
  <1>13. C_FreeSeat(c) => Goes(c, "C_look", "C_sit")
    BY <1>0, RunsInMain DEF C_FreeSeat
  <1>14. C_CantSend(c) => Goes(c, "C_sit", "C_unlock_failed")
    BY <1>0, RunsInMain DEF C_CantSend
  <1>15. C_Shaved(c) => Goes(c, "C_waiting", "C_again")
    BY <1>0, RunsInMain DEF C_Shaved
  <1>16. C_NoFreeSeats(c) => Goes(c, "C_look", "C_unlock_full")
    BY <1>0, RunsInMain DEF C_NoFreeSeats
  <1>17. C_WakeUp(c) => Goes(c, "C_look", "C_wake_wait")
    BY <1>0, RunsInMain DEF C_WakeUp
  <1>18. C_Again(c) => Goes(c, "C_again", IF noOfShaves[c] > 0 THEN "C_lock" ELSE "finished")
    BY <1>0, RunsInMain DEF C_Again
  <1>19. \A room : SitDown(c, room) => Goes(c, "C_sit", "C_unlock_queued")
    BY <1>0, RunsInMain DEF SitDown
  <1> QED
    BY <1>1, <1>2, <1>3, <1>4, <1>5, <1>6, <1>7, <1>8, <1>9,
       <1>10, <1>11, <1>12, <1>13, <1>14, <1>15, <1>16, <1>17, <1>18, <1>19

-----------------------------------------------------------------------------
(* Clients follow their way, whatever the barber does.                      *)

LEMMA NextTypeOK ==
    ASSUME IInv, AnyStep
    PROVE  TypeOK'
  BY BarberTypeOK, ClientTypeOK, StopTypeOK DEF AnyStep, IInv

(* ClientsFollow for one client.                                            *)
Follows(c) ==
    /\ handler[c] # "none" \/ pending[c] # Nobody => main[c] = "C_waiting" /\ shaved[c] = 0
    /\ handler[c] = "none" \/ pending[c] = Nobody
    /\ shaved[c] = 1 => main[c] = "C_waiting"
    /\ main[c] \notin {"C_again", "finished"} => noOfShaves[c] >= 1

(* The client whose step it is.                                             *)
LEMMA ClientFollows ==
    ASSUME IInv, NEW c \in Clients, AnyClientStep(c)
    PROVE  Follows(c)'
  <1>0. /\ TypeOK /\ TypeOK' /\ Follows(c) /\ c \in Processes /\ c # Barber
    BY ClientTypeOK, BarberAssumption DEF IInv, Processes, ClientsFollow, Follows
  <1> USE DEF Goes, GoesOn, Else, Follows, TypeOK, PlacesOK
  <1>1. CASE C_Lock(c) \/ C_UnlockFailed(c) \/ C_UnlockQueued(c) \/ C_UnlockFull(c)
    <2>1. UNCHANGED shaves
      BY <1>1 DEF C_Lock, C_UnlockFailed, C_UnlockQueued, C_UnlockFull
    <2> QED
      BY <1>0, <1>1, <2>1, ClientGoes DEF shaves
  <1>2. CASE C_WakeWait(c) \/ C_UnlockChair(c) \/ C_InChair(c) \/ C_ShaveWait(c)
    <2>1. UNCHANGED shaves
      BY <1>2 DEF C_WakeWait, C_UnlockChair, C_InChair, C_ShaveWait
    <2> QED
      BY <1>0, <1>2, <2>1, ClientGoes DEF shaves
  <1>3. CASE S_Sit(c) \/ S_ShaveWait(c)
    <2>1. UNCHANGED shaves
      BY <1>3 DEF S_Sit, S_ShaveWait
    <2> QED
      BY <1>0, <1>3, <2>1, ClientGoes DEF shaves
  <1>4. CASE C_Leave(c)
    <2>1. Goes(c, "C_leave", "C_again") /\ Else /\ UNCHANGED shaved
      BY <1>4, ClientGoes DEF C_Leave
    <2> QED
      BY <1>0, <2>1
  <1>5. CASE S_Leave(c)
    <2>1. GoesOn(c, "S_leave", "none") /\ Else /\ UNCHANGED noOfShaves
      BY <1>5, ClientGoes DEF S_Leave
    <2> QED
      BY <1>0, <2>1
  <1>6. CASE C_Again(c)
    <2>1. /\ Goes(c, "C_again", IF noOfShaves[c] > 0 THEN "C_lock" ELSE "finished")
          /\ UNCHANGED <<pending, shaves>>
      BY <1>6, ClientGoes DEF C_Again
    <2> QED
      BY <1>0, <2>1 DEF shaves
  <1>7. CASE C_FreeSeat(c) \/ C_CantSend(c) \/ C_NoFreeSeats(c)
    <2>1. UNCHANGED <<pending, shaves>>
      BY <1>7 DEF C_FreeSeat, C_CantSend, C_NoFreeSeats
    <2> QED
      BY <1>0, <1>7, <2>1, ClientGoes DEF shaves
  <1>8. CASE \E room \in Nat : SitDown(c, room)
    <2>1. Goes(c, "C_sit", "C_unlock_queued") /\ UNCHANGED <<pending, shaves>>
      BY <1>8, ClientGoes DEF SitDown
    <2> QED
      BY <1>0, <2>1 DEF shaves
  <1>9. CASE C_Shaved(c)
    <2>1. /\ Goes(c, "C_waiting", "C_again") /\ UNCHANGED pending
          /\ shaved[c] # 0 /\ shaved' = [shaved EXCEPT ![c] = 0]
      BY <1>9, ClientGoes DEF C_Shaved
    <2> QED
      BY <1>0, <2>1
  <1>10. CASE C_WakeUp(c)
    <2>1. /\ Goes(c, "C_look", "C_wake_wait") /\ pending'[c] = pending[c]
          /\ UNCHANGED shaves
      BY <1>0, <1>10, ClientGoes DEF C_WakeUp, Kill
    <2> QED
      BY <1>0, <2>1 DEF shaves
  <1>11. CASE S_Invited(c)
    <2>1. /\ pending[c] # Nobody /\ pending' = [pending EXCEPT ![c] = Nobody]
          /\ UNCHANGED <<main, shaves>>
      BY <1>0, <1>11, HandledInPlace DEF S_Invited
    <2> QED
      BY <1>0, <2>1 DEF shaves
  <1> QED
    BY <1>1, <1>2, <1>3, <1>4, <1>5, <1>6, <1>7, <1>8, <1>9, <1>10, <1>11
    DEF AnyClientStep

(* Every step keeps what is known of the clients.                           *)
LEMMA NextClientsFollow ==
    ASSUME IInv, AnyStep
    PROVE  ClientsFollow'
  <1>0. TypeOK /\ ClientsFollow
    BY DEF IInv
  <1>1. CASE AnyBarberStep
    <2>1. ASSUME NEW c \in Clients PROVE Follows(c)'
      <3>1. /\ main'[c] = main[c] /\ handler'[c] = handler[c]
            /\ pending'[c] = pending[c] \/ (B_Invite /\ c = customer)
            /\ UNCHANGED <<shaved, noOfShaves>>
        BY <1>1, BarberAlone
      <3>2. CASE B_Invite /\ c = customer
        <4>1. main[Barber] = "B_invite"
          BY <3>2, BarberGoes DEF Goes
        <4>2. ShopInv
          BY <4>1 DEF IInv, TypeOK, Closing
        <4>3. handler[c] = "none" /\ main[c] = "C_waiting" /\ shaved[c] = 0
          BY <3>2, <4>1, <4>2 DEF ShopInv, Invited
        <4> QED
          BY <1>0, <3>1, <4>3 DEF Follows, ClientsFollow
      <3> QED
        BY <1>0, <3>1, <3>2 DEF Follows, ClientsFollow
    <2> QED
      BY <2>1 DEF Follows, ClientsFollow
  <1>2. ASSUME NEW c \in Clients, AnyClientStep(c) PROVE ClientsFollow'
    <2>1. ASSUME NEW d \in Clients, d # c PROVE Follows(d)'
      <3>1. /\ main'[d] = main[d] /\ handler'[d] = handler[d] /\ pending'[d] = pending[d]
            /\ shaved'[d] = shaved[d] /\ noOfShaves'[d] = noOfShaves[d]
        BY <1>2, <2>1, ClientAlone, BarberAssumption DEF Processes
      <3> QED
        BY <1>0, <3>1 DEF Follows, ClientsFollow
    <2> QED
      BY <1>2, <2>1, ClientFollows DEF Follows, ClientsFollow
  <1>3. ASSUME NEW p \in Processes, Stops(p) PROVE ClientsFollow'
    <2>1. ASSUME NEW c \in Clients PROVE Follows(c)'
      <3>1. /\ pending'[c] = pending[c] \/ pending'[c] = Nobody
            /\ UNCHANGED <<main, handler, shaves>>
        BY <1>0, <1>3, StopAlone DEF Processes
      <3> QED
        BY <1>0, <3>1 DEF Follows, ClientsFollow, shaves
    <2> QED
      BY <2>1 DEF Follows, ClientsFollow
  <1> QED
    BY <1>1, <1>2, <1>3 DEF AnyStep

-----------------------------------------------------------------------------
(* The queue.                                                               *)

LEMMA QueuedKept ==
    ASSUME Queued, UNCHANGED queue,
           \A c \in Clients : InQueue(c) =>
               /\ main'[c] \in {"C_unlock_queued", "C_waiting"}
               /\ handler'[c] = "none" /\ pending'[c] = Nobody /\ shaved'[c] = 0
    PROVE  Queued'
  BY DEF Queued, InQueue

(* The barber takes from the front, and leaves the queue as it should be.   *)
LEMMA BarberQueued ==
    ASSUME IInv, ShopInv, AnyBarberStep
    PROVE  Queued'
  <1>0. TypeOK /\ Queued
    BY DEF IInv, ShopInv
  <1>1. CASE B_Receive
    <2>1. queue # <<>> /\ queue' = Tail(queue) /\ ~ B_Invite
      BY <1>1, BarberGoes DEF B_Receive, Goes
    <2>2. /\ queue' \in Seq(Clients) /\ Len(queue') = Len(queue) - 1
          /\ \A i \in 1..Len(queue') : i + 1 \in 1..Len(queue) /\ queue'[i] = queue[i + 1]
      BY <1>0, <2>1, HeadTailProperties DEF TypeOK
    <2>3. ASSUME NEW i \in 1..Len(queue'), NEW j \in 1..Len(queue'), queue'[i] = queue'[j]
          PROVE  i = j
      <3>1. i + 1 \in 1..Len(queue) /\ j + 1 \in 1..Len(queue) /\ queue[i + 1] = queue[j + 1]
        BY <2>2, <2>3
      <3>2. i + 1 = j + 1
        BY <1>0, <3>1 DEF Queued
      <3> QED
        BY <3>2
    <2>4. ASSUME NEW c \in Clients, InQueue(c)' PROVE InQueue(c)
      BY <2>2, <2>4 DEF InQueue
    <2>5. \A c \in Clients : /\ main'[c] = main[c] /\ handler'[c] = handler[c]
                             /\ pending'[c] = pending[c] /\ shaved'[c] = shaved[c]
      BY <1>1, <2>1, BarberAlone DEF AnyBarberStep, BarberStep
    <2> QED
      BY <1>0, <2>3, <2>4, <2>5 DEF Queued
  <1>2. CASE B_RemoveQueue
    BY <1>2 DEF B_RemoveQueue, Queued, InQueue
  <1>3. CASE ~ B_Receive /\ ~ B_RemoveQueue
    <2>1. UNCHANGED queue
      BY <1>3, BarberGoes
      DEF AnyBarberStep, BarberStep, Else, B_Invite, B_NobodyThere, B_WakesUp, H_WokenUp,
          BarberStops, B_RemoveSem, shop
    <2>2. ASSUME NEW c \in Clients, InQueue(c) PROVE ~ (B_Invite /\ c = customer)
      BY <2>2, BarberGoes DEF Goes, ShopInv, Invited
    <2> QED
      BY <1>0, <2>1, <2>2, BarberAlone, QueuedKept DEF Queued
  <1> QED
    BY <1>1, <1>2, <1>3

(* One client more at its end.                                              *)
LEMMA SeatTaken ==
    ASSUME NEW c \in Clients, queue \in Seq(Clients), queue' = Append(queue, c)
    PROVE  /\ Len(queue) \in Nat /\ Len(queue') = Len(queue) + 1 /\ queue' # <<>>
           /\ queue'[Len(queue) + 1] = c
           /\ \A i \in 1..Len(queue) : queue'[i] = queue[i]
           /\ \A i \in 1..Len(queue') : i \in 1..Len(queue) \/ i = Len(queue) + 1
           /\ \A i \in 1..Len(queue') :
                  queue'[i] = c \/ (i \in 1..Len(queue) /\ queue'[i] = queue[i])
  <1>1. /\ Len(queue') = Len(queue) + 1 /\ queue'[Len(queue) + 1] = c /\ queue' # <<>>
        /\ \A i \in 1..Len(queue) : queue'[i] = queue[i]
    BY AppendProperties
  <1>2. Len(queue) \in Nat
    BY LenProperties
  <1>3. \A i \in 1..Len(queue') : i \in 1..Len(queue) \/ i = Len(queue) + 1
    BY <1>1, <1>2
  <1> QED
    BY <1>1, <1>2, <1>3

(* A client joins at the end, once.                                         *)
LEMMA ClientQueued ==
    ASSUME IInv, ShopInv, NEW c \in Clients, AnyClientStep(c)
    PROVE  Queued'
  <1>0. TypeOK /\ TypeOK' /\ Queued /\ c # Barber /\ c \in Processes
    BY ClientTypeOK, BarberAssumption DEF IInv, ShopInv, Processes
  <1>1. ASSUME NEW d \in Clients, InQueue(d), d # c
        PROVE  /\ main'[d] \in {"C_unlock_queued", "C_waiting"}
               /\ handler'[d] = "none" /\ pending'[d] = Nobody /\ shaved'[d] = 0
    <2>1. /\ main'[d] = main[d] /\ handler'[d] = handler[d] /\ pending'[d] = pending[d]
          /\ shaved'[d] = shaved[d]
      BY <1>1, ClientAlone, BarberAssumption DEF Processes
    <2> QED
      BY <1>0, <1>1, <2>1 DEF Queued
  <1>2. CASE \E room \in Nat : SitDown(c, room)
    <2>1. /\ Goes(c, "C_sit", "C_unlock_queued") /\ queue' = Append(queue, c)
          /\ UNCHANGED <<pending, shaves>>
      BY <1>2, ClientGoes DEF SitDown
    <2>2. /\ Len(queue) \in Nat /\ Len(queue') = Len(queue) + 1 /\ queue'[Len(queue) + 1] = c
          /\ \A i \in 1..Len(queue) : queue'[i] = queue[i]
          /\ \A i \in 1..Len(queue') : i \in 1..Len(queue) \/ i = Len(queue) + 1
      BY <1>0, <2>1, SeatTaken DEF TypeOK
    <2>3. Len(queue) \in Nat
      BY <2>2
    <2>4. ~ InQueue(c) /\ \A d \in Clients : InQueue(d)' => d = c \/ InQueue(d)
      <3>1. ~ InQueue(c)
        BY <1>0, <2>1 DEF Goes, Queued
      <3> QED
        BY <2>2, <2>3, <3>1 DEF InQueue
    <2>5. \A i, j \in 1..Len(queue') : queue'[i] = queue'[j] => i = j
      BY <1>0, <2>2, <2>3, <2>4 DEF Queued, InQueue
    <2>6. /\ main'[c] = "C_unlock_queued" /\ handler'[c] = "none" /\ pending'[c] = Nobody
          /\ shaved'[c] = 0
      BY <1>0, <2>1 DEF Goes, TypeOK, PlacesOK, shaves, IInv, ClientsFollow
    <2> QED
      BY <1>1, <2>4, <2>5, <2>6 DEF Queued
  <1>3. CASE ~ \E room \in Nat : SitDown(c, room)
    <2>1. UNCHANGED queue
      BY <1>3, ClientGoes
      DEF AnyClientStep, Else, C_Again, C_FreeSeat, C_CantSend, C_Shaved, C_NoFreeSeats,
          C_WakeUp, S_Invited, shop
    <2>2. InQueue(c) => C_UnlockQueued(c)
      <3>1. ASSUME InQueue(c), ~ C_UnlockQueued(c) PROVE FALSE
        <4>1. /\ main[c] \in {"C_unlock_queued", "C_waiting"} /\ handler[c] = "none"
              /\ pending[c] = Nobody /\ shaved[c] = 0
          BY <1>0, <3>1 DEF Queued
        <4>2. ~ C_Shaved(c) /\ ~ S_Invited(c)
          BY <4>1 DEF C_Shaved, S_Invited, Handle
        <4> QED
          BY <1>3, <3>1, <4>1, <4>2, ClientGoes DEF AnyClientStep, Goes, GoesOn
      <3> QED
        BY <3>1
    <2>3. C_UnlockQueued(c) => /\ main'[c] = "C_waiting" /\ handler'[c] = handler[c]
                               /\ pending'[c] = pending[c] /\ shaved'[c] = shaved[c]
      BY <1>0, ClientGoes DEF C_UnlockQueued, Goes, Else, shaves, TypeOK, PlacesOK
    <2> QED
      BY <1>0, <1>1, <2>1, <2>2, <2>3, QueuedKept DEF Queued
  <1> QED
    BY <1>2, <1>3

-----------------------------------------------------------------------------
(* The steps of barber and clients, one by one.                              *)

(* The barber looks for a client, and goes to sleep.                        *)
LEMMA BarberLooks ==
    ASSUME IInv, ShopInv, TypeOK', Queued', "sem" \notin removed,
           B_Lock \/ B_Receive \/ B_NobodyThere \/ B_UnlockAsleep \/ B_WakesUp
    PROVE  ShopInv'
  <1>0. /\ TypeOK /\ ClientsFollow /\ Queued /\ OneHolder /\ Counted /\ Asleep /\ OneBusy
        /\ NoCustomer /\ WokenUp /\ Invited /\ Messages /\ Accounts /\ TypeOK' /\ Queued'
        /\ Barber \in Processes /\ Barber \notin Clients /\ Clients \subseteq Processes
        /\ Nobody \notin Processes /\ Shaves \in [Clients -> Nat]
        /\ Seats \in Nat /\ "sem" \notin removed
    BY BarberAssumption DEF IInv, ShopInv, Processes
  <1> USE DEF TypeOK, PlacesOK, Goes, GoesOn, Takes, Gives, Else, shop, shaves
  <1>1. CASE B_Lock
    <2>1. /\ Goes(Barber, "B_lock", "B_receive") /\ Takes("lock") /\ Else
          /\ UNCHANGED shaves
      BY <1>1, BarberGoes DEF B_Lock
    <2>2. OneHolder' /\ Counted' /\ Asleep'
      BY <1>0, <2>1 DEF OneHolder, Holds, Counted, Asleep
    <2>3. OneBusy' /\ NoCustomer' /\ WokenUp'
      BY <1>0, <2>1 DEF OneBusy, Busy, NoCustomer, Told, WokenUp
    <2>4. Invited' /\ Messages' /\ Accounts'
      BY <1>0, <2>1 DEF Invited, Told, Busy, InQueue, Messages, Waits, Accounts, Account,
            Due, Leaves
    <2> QED
      BY <1>0, <2>2, <2>3, <2>4 DEF ShopInv
  <1>2. CASE B_Receive
    <2>1. /\ Goes(Barber, "B_receive", "B_invite")
          /\ queue # <<>> /\ customer' = Head(queue) /\ queue' = Tail(queue)
          /\ waiting' = waiting - 1
          /\ UNCHANGED <<awake, sem, removed, pending, shaves>>
      BY <1>2, BarberGoes DEF B_Receive
    <2>2. /\ Len(queue) \in Nat /\ Len(queue') = Len(queue) - 1
          /\ 1 \in 1..Len(queue) /\ customer' = queue[1]
          /\ \A i \in 1..Len(queue') : i + 1 \in 2..Len(queue) /\ queue'[i] = queue[i + 1]
      BY <1>0, <2>1, HeadTailProperties, LenProperties
    <2>3. customer' \in Clients /\ ~ InQueue(customer)'
      BY <1>0, <2>1, <2>2, HeadTailProperties DEF Queued, InQueue
    <2>4. /\ main'[customer'] = "C_waiting" /\ handler'[customer'] = "none"
          /\ pending'[customer'] = Nobody /\ shaved'[customer'] = 0
      BY <1>0, <2>1, <2>2, <2>3 DEF Queued, InQueue, OneHolder, Holds, B_Locked, C_Locked
    <2>5. Told(0, 0) /\ \A c \in Clients : ~ Busy(c)
      BY <1>0, <2>1 DEF NoCustomer, Asleep
    <2>6. \A c \in Clients : ~ Busy(c)'
      BY <1>0, <2>1, <2>5 DEF Busy, C_Chair
    <2>7. OneHolder' /\ Asleep'
      BY <1>0, <2>1, <2>2, <2>3, <2>4, <2>5, <2>6 DEF OneHolder, Holds, B_Locked, C_Locked,
            Asleep
    <2>8. Counted'
      <3>1. \A c \in Clients : main'[c] = main[c] /\ main[c] # "C_sit"
        BY <1>0, <2>1 DEF OneHolder, Holds, B_Locked, C_Locked
      <3>2. /\ waiting \in Int /\ waiting' = waiting - 1
            /\ Len(queue') = Len(queue) - 1 /\ Len(queue) \in Nat
        BY <1>0, <2>1, <2>2
      <3> QED
        BY <1>0, <2>1, <3>1, <3>2 DEF Counted
    <2>9. OneBusy' /\ NoCustomer' /\ WokenUp'
      BY <1>0, <2>1, <2>2, <2>3, <2>4, <2>5, <2>6 DEF OneBusy, Busy, NoCustomer, Told,
            WokenUp
    <2>10. Invited' /\ Messages' /\ Accounts'
      BY <1>0, <2>1, <2>2, <2>3, <2>4, <2>5, <2>6 DEF Invited, Told, Busy, InQueue,
            Messages, Waits, Accounts, Account, Due, Leaves
    <2> QED
      BY <1>0, <2>7, <2>8, <2>9, <2>10 DEF ShopInv
  <1>3. CASE B_NobodyThere
    <2>1. /\ Goes(Barber, "B_receive", "B_unlock_asleep")
          /\ queue = <<>> /\ awake' = 0
          /\ UNCHANGED <<waiting, queue, sem, removed, pending, customer, shaves>>
      BY <1>3, BarberGoes DEF B_NobodyThere
    <2>2. OneHolder' /\ Counted' /\ Asleep'
      BY <1>0, <2>1 DEF OneHolder, Holds, B_Locked, C_Locked, Counted, Asleep
    <2>3. OneBusy' /\ NoCustomer' /\ WokenUp'
      BY <1>0, <2>1 DEF OneBusy, Busy, NoCustomer, Told, WokenUp
    <2>4. Invited' /\ Messages' /\ Accounts'
      BY <1>0, <2>1 DEF Invited, Told, Busy, InQueue, Messages, Waits, Accounts, Account,
            Due, Leaves
    <2> QED
      BY <1>0, <2>2, <2>3, <2>4 DEF ShopInv
  <1>4. CASE B_UnlockAsleep
    <2>1. /\ Goes(Barber, "B_unlock_asleep", "B_asleep") /\ Gives("lock") /\ Else
          /\ UNCHANGED shaves
      BY <1>4, BarberGoes DEF B_UnlockAsleep
    <2>2. OneHolder' /\ Counted'
      BY <1>0, <2>1 DEF OneHolder, Holds, B_Locked, C_Locked, Counted
    <2>3. Asleep'
      BY <1>0, <2>1 DEF Asleep
    <2>4. OneBusy' /\ NoCustomer' /\ WokenUp'
      BY <1>0, <2>1 DEF OneBusy, Busy, NoCustomer, Told, Asleep, C_Chair, WokenUp
    <2>5. Invited' /\ Messages' /\ Accounts'
      BY <1>0, <2>1 DEF Invited, Told, Busy, InQueue, Messages, Waits, Accounts, Account,
            Due, Leaves
    <2> QED
      BY <1>0, <2>2, <2>3, <2>4, <2>5 DEF ShopInv
  <1>5. CASE B_WakesUp
    <2>1. /\ Goes(Barber, "B_asleep", "B_lock")
          /\ awake # 0
          /\ UNCHANGED <<shop, pending, customer, shaves>>
      BY <1>5, BarberGoes DEF B_WakesUp
    <2>2. OneHolder' /\ Counted' /\ Asleep'
      BY <1>0, <2>1 DEF OneHolder, Holds, B_Locked, C_Locked, Counted, Asleep
    <2>3. OneBusy' /\ NoCustomer' /\ WokenUp'
      BY <1>0, <2>1 DEF OneBusy, Busy, NoCustomer, Told, WokenUp
    <2>4. Invited' /\ Messages' /\ Accounts'
      BY <1>0, <2>1 DEF Invited, Told, Busy, InQueue, Messages, Waits, Accounts, Account,
            Due, Leaves
    <2> QED
      BY <1>0, <2>2, <2>3, <2>4 DEF ShopInv
  <1> QED
    BY <1>1, <1>2, <1>3, <1>4, <1>5

(* He invites a client and shaves it.                                        *)
LEMMA BarberInvites ==
    ASSUME IInv, ShopInv, TypeOK', Queued', "sem" \notin removed,
           B_Invite \/ B_SitWait \/ B_Unlock \/ B_TellDone \/ B_LeaveWait
    PROVE  ShopInv'
  <1>0. /\ TypeOK /\ ClientsFollow /\ Queued /\ OneHolder /\ Counted /\ Asleep /\ OneBusy
        /\ NoCustomer /\ WokenUp /\ Invited /\ Messages /\ Accounts /\ TypeOK' /\ Queued'
        /\ Barber \in Processes /\ Barber \notin Clients /\ Clients \subseteq Processes
        /\ Nobody \notin Processes /\ Shaves \in [Clients -> Nat]
        /\ Seats \in Nat /\ "sem" \notin removed
    BY BarberAssumption DEF IInv, ShopInv, Processes
  <1> USE DEF TypeOK, PlacesOK, Goes, GoesOn, Takes, Gives, Else, shop, shaves
  <1>1. CASE B_Invite
    <2>1. /\ Goes(Barber, "B_invite", "B_sit_wait")
          /\ pending' \in {pending, [pending EXCEPT ![customer] = Barber]}
          /\ UNCHANGED <<shop, customer, shaves>>
      BY <1>1, BarberGoes DEF B_Invite, Kill
    <2>2. OneHolder' /\ Counted' /\ Asleep'
      BY <1>0, <2>1 DEF OneHolder, Holds, B_Locked, C_Locked, Counted, Asleep
    <2>3. OneBusy' /\ NoCustomer' /\ WokenUp'
      BY <1>0, <2>1 DEF OneBusy, Invited, Busy, C_Chair, NoCustomer, Told, Asleep, WokenUp
    <2>4. Invited' /\ Messages' /\ Accounts'
      BY <1>0, <2>1 DEF Invited, Told, Busy, InQueue, Messages, Waits, C_Chair, Accounts,
            Account, Due, Leaves
    <2> QED
      BY <1>0, <2>2, <2>3, <2>4 DEF ShopInv
  <1>2. CASE B_SitWait
    <2>1. /\ Goes(Barber, "B_sit_wait", "B_unlock") /\ Takes("toBarber") /\ Else
          /\ UNCHANGED shaves
      BY <1>2, BarberGoes DEF B_SitWait
    <2>2. OneHolder' /\ Counted' /\ Asleep'
      BY <1>0, <2>1 DEF OneHolder, Holds, B_Locked, C_Locked, Counted, Asleep
    <2>3. OneBusy'
      BY <1>0, <2>1 DEF OneBusy, Busy
    <2>4. NoCustomer'
      BY <1>0, <2>1 DEF NoCustomer, Told, Busy
    <2>5. WokenUp'
      BY <1>0, <2>1 DEF WokenUp, Told, Busy
    <2>6. Invited' /\ Messages' /\ Accounts'
      BY <1>0, <2>1 DEF Invited, Told, Busy, InQueue, Messages, Waits, Accounts, Account,
            Due, Leaves
    <2> QED
      BY <1>0, <2>2, <2>3, <2>4, <2>5, <2>6 DEF ShopInv
  <1>3. CASE B_Unlock
    <2>1. /\ Goes(Barber, "B_unlock", "B_tell_done") /\ Gives("lock") /\ Else
          /\ UNCHANGED shaves
      BY <1>3, BarberGoes DEF B_Unlock
    <2>2. OneHolder' /\ Counted' /\ Asleep'
      BY <1>0, <2>1 DEF OneHolder, Holds, B_Locked, C_Locked, Counted, Asleep
    <2>3. OneBusy' /\ NoCustomer' /\ WokenUp'
      BY <1>0, <2>1 DEF OneBusy, Busy, NoCustomer, Told, WokenUp
    <2>4. Invited' /\ Messages' /\ Accounts'
      BY <1>0, <2>1 DEF Invited, Told, Busy, InQueue, Messages, Waits, Accounts, Account,
            Due, Leaves
    <2> QED
      BY <1>0, <2>2, <2>3, <2>4 DEF ShopInv
  <1>4. CASE B_TellDone
    <2>1. /\ Goes(Barber, "B_tell_done", "B_leave_wait") /\ Gives("toClient") /\ Else
          /\ served' = [served EXCEPT ![customer] = @ + 1]
          /\ UNCHANGED <<shaved, noOfShaves>>
      BY <1>4, BarberGoes DEF B_TellDone
    <2>2. /\ customer \in Clients /\ handler[customer] = "S_shave_wait" /\ Told(0, 0)
          /\ \A c \in Clients : Busy(c) => c = customer
      BY <1>0, <2>1 DEF Invited
    <2>3. OneHolder' /\ Counted' /\ Asleep'
      BY <1>0, <2>1, <2>2 DEF OneHolder, Holds, B_Locked, C_Locked, Counted, Asleep
    <2>4. OneBusy' /\ NoCustomer' /\ WokenUp'
      BY <1>0, <2>1, <2>2 DEF OneBusy, Busy, NoCustomer, Told, Asleep, C_Chair, WokenUp
    <2>5. Invited' /\ Messages' /\ Accounts'
      BY <1>0, <2>1, <2>2 DEF Invited, Told, Busy, InQueue, Messages, Waits, C_Chair,
            Accounts, Account, Due, Leaves, WokenUp, ClientsFollow, OneBusy
    <2> QED
      BY <1>0, <2>3, <2>4, <2>5 DEF ShopInv
  <1>5. CASE B_LeaveWait
    <2>1. /\ Goes(Barber, "B_leave_wait", "B_lock") /\ Takes("toBarber") /\ Else
          /\ UNCHANGED shaves
      BY <1>5, BarberGoes DEF B_LeaveWait
    <2>2. OneHolder' /\ Counted' /\ Asleep'
      BY <1>0, <2>1 DEF OneHolder, Holds, B_Locked, C_Locked, Counted, Asleep
    <2>3. OneBusy' /\ NoCustomer' /\ WokenUp'
      BY <1>0, <2>1 DEF OneBusy, Busy, NoCustomer, Told, Invited, C_Chair, WokenUp
    <2>4. Invited' /\ Messages' /\ Accounts'
      BY <1>0, <2>1 DEF Invited, Told, Busy, InQueue, Messages, Waits, Accounts, Account,
            Due, Leaves
    <2> QED
      BY <1>0, <2>2, <2>3, <2>4 DEF ShopInv
  <1> QED
    BY <1>1, <1>2, <1>3, <1>4, <1>5

(* He is woken up, and shaves the client in his handler.                     *)
LEMMA BarberIsWoken ==
    ASSUME IInv, ShopInv, TypeOK', Queued', "sem" \notin removed,
           H_WokenUp \/ H_Confirm \/ H_SitWait \/ H_TellDone \/ H_LeaveWait
    PROVE  ShopInv'
  <1>0. /\ TypeOK /\ ClientsFollow /\ Queued /\ OneHolder /\ Counted /\ Asleep /\ OneBusy
        /\ NoCustomer /\ WokenUp /\ Invited /\ Messages /\ Accounts /\ TypeOK' /\ Queued'
        /\ Barber \in Processes /\ Barber \notin Clients /\ Clients \subseteq Processes
        /\ Nobody \notin Processes /\ Shaves \in [Clients -> Nat]
        /\ Seats \in Nat /\ "sem" \notin removed
    BY BarberAssumption DEF IInv, ShopInv, Processes
  <1> USE DEF TypeOK, PlacesOK, Goes, GoesOn, Takes, Gives, Else, shop, shaves
  <1>1. CASE H_WokenUp
    <2>1. /\ pending[Barber] # Nobody /\ handler[Barber] = "none"
          /\ pending' = [pending EXCEPT ![Barber] = Nobody]
          /\ handler' = [handler EXCEPT ![Barber] = "H_confirm"]
          /\ customer' = pending[Barber] /\ awake' = 1
          /\ UNCHANGED <<main, gone, waiting, queue, sem, removed, shaves>>
      BY <1>0, <1>1, HandledInPlace DEF H_WokenUp
    <2>2. OneHolder' /\ Counted' /\ Asleep'
      BY <1>0, <2>1 DEF OneHolder, Holds, Counted, Asleep
    <2>3. OneBusy' /\ NoCustomer' /\ WokenUp'
      BY <1>0, <2>1 DEF OneBusy, Busy, NoCustomer, Told, WokenUp, Asleep, ClientsFollow,
            OneHolder, C_Chair, Holds, B_Locked, C_Locked
    <2>4. Invited' /\ Messages' /\ Accounts'
      BY <1>0, <2>1 DEF Invited, Told, Asleep, Messages, Waits, Busy, Accounts, Account,
            Due, Leaves
    <2> QED
      BY <1>0, <2>2, <2>3, <2>4 DEF ShopInv
  <1>2. CASE H_Confirm
    <2>1. /\ GoesOn(Barber, "H_confirm", "H_sit_wait") /\ Gives("toClient") /\ Else
          /\ UNCHANGED shaves
      BY <1>2, BarberGoes DEF H_Confirm
    <2>2. OneHolder' /\ Counted' /\ Asleep'
      BY <1>0, <2>1 DEF OneHolder, Holds, Counted, Asleep
    <2>3. OneBusy' /\ NoCustomer' /\ WokenUp'
      BY <1>0, <2>1 DEF OneBusy, Busy, NoCustomer, Told, Asleep, C_Chair, WokenUp
    <2>4. Invited' /\ Messages'
      BY <1>0, <2>1 DEF Invited, Told, Asleep, Messages, Waits, WokenUp, Busy, C_Chair
    <2>5. Accounts'
      BY <1>0, <2>1 DEF Accounts, Account, Due, Waits, Leaves, Told, WokenUp, ClientsFollow,
            Messages, OneBusy, Busy, C_Chair
    <2> QED
      BY <1>0, <2>2, <2>3, <2>4, <2>5 DEF ShopInv
  <1>3. CASE H_SitWait
    <2>1. /\ GoesOn(Barber, "H_sit_wait", "H_tell_done") /\ Takes("toBarber") /\ Else
          /\ UNCHANGED shaves
      BY <1>3, BarberGoes DEF H_SitWait
    <2>2. OneHolder' /\ Counted' /\ Asleep'
      BY <1>0, <2>1 DEF OneHolder, Holds, Counted, Asleep
    <2>3. OneBusy' /\ NoCustomer' /\ WokenUp'
      BY <1>0, <2>1 DEF OneBusy, Busy, NoCustomer, Told, WokenUp
    <2>4. Invited' /\ Messages' /\ Accounts'
      BY <1>0, <2>1 DEF Invited, Told, Asleep, Messages, Waits, Busy, Accounts, Account,
            Due, Leaves
    <2> QED
      BY <1>0, <2>2, <2>3, <2>4 DEF ShopInv
  <1>4. CASE H_TellDone
    <2>1. /\ GoesOn(Barber, "H_tell_done", "H_leave_wait") /\ Gives("toClient") /\ Else
          /\ served' = [served EXCEPT ![customer] = @ + 1]
          /\ UNCHANGED <<shaved, noOfShaves>>
      BY <1>4, BarberGoes DEF H_TellDone
    <2>2. OneHolder' /\ Counted' /\ Asleep'
      BY <1>0, <2>1 DEF OneHolder, Holds, Counted, Asleep
    <2>3. OneBusy' /\ NoCustomer' /\ WokenUp'
      BY <1>0, <2>1 DEF OneBusy, Busy, NoCustomer, Told, WokenUp, C_Chair
    <2>4. Invited' /\ Messages' /\ Accounts'
      BY <1>0, <2>1 DEF Invited, Told, Asleep, Messages, Waits, WokenUp, Busy, C_Chair,
            Accounts, Account, Due, Leaves, ClientsFollow, OneBusy
    <2> QED
      BY <1>0, <2>2, <2>3, <2>4 DEF ShopInv
  <1>5. CASE H_LeaveWait
    <2>1. /\ GoesOn(Barber, "H_leave_wait", "none") /\ Takes("toBarber") /\ Else
          /\ UNCHANGED shaves
      BY <1>5, BarberGoes DEF H_LeaveWait
    <2>2. OneHolder' /\ Counted' /\ Asleep'
      BY <1>0, <2>1 DEF OneHolder, Holds, Counted, Asleep
    <2>3. OneBusy' /\ NoCustomer' /\ WokenUp'
      BY <1>0, <2>1 DEF OneBusy, Busy, NoCustomer, Told, WokenUp, C_Chair
    <2>4. Invited' /\ Messages' /\ Accounts'
      BY <1>0, <2>1 DEF Invited, Told, Asleep, Messages, Waits, Busy, Accounts, Account,
            Due, Leaves
    <2> QED
      BY <1>0, <2>2, <2>3, <2>4 DEF ShopInv
  <1> QED
    BY <1>1, <1>2, <1>3, <1>4, <1>5

(* He closes the shop wherever he is.                                        *)
LEMMA BarberCloses ==
    ASSUME IInv, ShopInv, TypeOK', Queued', "sem" \notin removed,
           BarberStops \/ B_RemoveQueue
    PROVE  ShopInv'
  <1>0. /\ TypeOK /\ ClientsFollow /\ Queued /\ OneHolder /\ Counted /\ Asleep /\ OneBusy
        /\ NoCustomer /\ WokenUp /\ Invited /\ Messages /\ Accounts /\ TypeOK' /\ Queued'
        /\ Barber \in Processes /\ Barber \notin Clients /\ Clients \subseteq Processes
        /\ Nobody \notin Processes /\ Shaves \in [Clients -> Nat]
        /\ Seats \in Nat /\ "sem" \notin removed
    BY BarberAssumption DEF IInv, ShopInv, Processes
  <1> USE DEF TypeOK, PlacesOK, Goes, GoesOn, Takes, Gives, Else, shop, shaves
  <1>1. CASE BarberStops
    <2>1. /\ \E place \in {"closing", "closing_masked"} :
                /\ handler[Barber] = "none" => place = "closing"
                /\ main' = [main EXCEPT ![Barber] = place]
          /\ handler' = [handler EXCEPT ![Barber] = "none"]
          /\ UNCHANGED <<gone, shop, pending, customer, shaves>>
          /\ main[Barber] \notin {"closing", "closing_masked"}
      BY <1>1 DEF BarberStops, Closing
    <2>2. OneHolder' /\ Counted' /\ Asleep'
      BY <1>0, <2>1 DEF OneHolder, Holds, B_Locked, C_Locked, Counted, Asleep
    <2>3. OneBusy' /\ NoCustomer' /\ WokenUp'
      BY <1>0, <2>1 DEF OneBusy, Busy, NoCustomer, Told, WokenUp
    <2>4. Invited' /\ Messages' /\ Accounts'
      BY <1>0, <2>1 DEF Invited, Told, Busy, InQueue, Messages, Waits, Accounts, Account,
            Due, Leaves
    <2> QED
      BY <1>0, <2>2, <2>3, <2>4 DEF ShopInv
  <1>2. CASE B_RemoveQueue
    <2>1. /\ main[Barber] \in {"closing", "closing_masked"}
          /\ queue' = <<>> /\ removed' = removed \union {"queue"}
          /\ UNCHANGED <<main, handler, gone, awake, waiting, sem, pending, customer, shaves>>
      BY <1>0, <1>2, RunsInMain DEF B_RemoveQueue, Closing, Run
    <2>2. OneHolder' /\ Counted' /\ Asleep'
      BY <1>0, <2>1 DEF OneHolder, Holds, Counted, Asleep
    <2>3. OneBusy' /\ NoCustomer' /\ WokenUp'
      BY <1>0, <2>1 DEF OneBusy, Busy, NoCustomer, Told, WokenUp
    <2>4. Invited' /\ Messages' /\ Accounts'
      BY <1>0, <2>1 DEF Invited, Told, Busy, InQueue, Messages, Waits, Accounts, Account,
            Due, Leaves
    <2> QED
      BY <1>0, <2>2, <2>3, <2>4 DEF ShopInv
  <1> QED
    BY <1>1, <1>2

(* What the client has shaved off stays the same, or it takes note of it.    *)
Repaid(c) ==
    \/ shaved'[c] = shaved[c] /\ noOfShaves'[c] = noOfShaves[c]
    \/ shaved[c] = 1 /\ shaved'[c] = 0 /\ noOfShaves'[c] = noOfShaves[c] - 1

(* A client that is not in the chair, nor waits for an invitation, does not  *)
(* touch what barber and customer do.                                        *)
LEMMA OutsideTheChair ==
    ASSUME IInv, ShopInv, TypeOK', NEW c \in Clients,
           ~ Busy(c), main'[c] \notin C_Chair, main[c] = "C_waiting" => shaved[c] # 0,
           \A p \in Processes : p # c => main'[p] = main[p],
           sem'["toClient"] = sem["toClient"] /\ sem'["toBarber"] = sem["toBarber"],
           \A d \in Clients : InQueue(d)' => InQueue(d) \/ d = c,
           \A d \in Clients : d # c => shaved'[d] = shaved[d] /\ noOfShaves'[d] = noOfShaves[d],
           Repaid(c),
           UNCHANGED <<awake, removed, handler, pending, customer, served>>
    PROVE  OneBusy' /\ NoCustomer' /\ WokenUp' /\ Invited' /\ Messages' /\ Accounts'
  <1>0. /\ TypeOK /\ OneBusy /\ NoCustomer /\ WokenUp /\ Invited /\ Messages /\ Accounts
        /\ Barber \in Processes /\ Barber \notin Clients /\ Clients \subseteq Processes
        /\ Nobody \notin Processes /\ Shaves \in [Clients -> Nat]
    BY BarberAssumption DEF IInv, ShopInv, Processes
  <1>1. /\ main'[Barber] = main[Barber]
        /\ \A d \in Clients : d # c => main'[d] = main[d]
    BY <1>0
  <1>2. \A d \in Clients : Busy(d)' = Busy(d)
    BY <1>1 DEF Busy
  <1>3. OneBusy'
    BY <1>0, <1>2 DEF OneBusy
  <1>4. NoCustomer'
    BY <1>0, <1>1, <1>2 DEF NoCustomer, Told
  <1>5. WokenUp'
    BY <1>0, <1>1, <1>2 DEF WokenUp, Told, Busy, C_Chair
  <1>6. Invited'
    BY <1>0, <1>1, <1>2 DEF Invited, Told, Busy, C_Chair
  <1>7. Messages'
    BY <1>0, <1>1, <1>2 DEF Messages, Waits, Busy, C_Chair
  <1>8. Accounts'
    <2>1. \A d \in Clients : Leaves(d)' = Leaves(d) /\ Waits(d)' = Waits(d)
      BY <1>0, <1>1 DEF Leaves, Waits, Busy, C_Chair
    <2>2. ASSUME NEW d \in Clients PROVE Account(d)'
      <3>1. Account(d) /\ Repaid(d)
        BY <1>0 DEF Accounts, Repaid
      <3>2. /\ served[d] \in Int /\ noOfShaves[d] \in Int /\ shaved[d] \in Int
            /\ Shaves[d] \in Int
        BY <1>0 DEF TypeOK
      <3>3. noOfShaves'[d] \in Int /\ shaved'[d] \in Int
        BY DEF TypeOK
      <3>4. served'[d] = served[d]
        OBVIOUS
      <3>5. Due(d)' <=> Due(d)
        BY <2>1 DEF Due
      <3> QED
        BY <3>1, <3>2, <3>3, <3>4, <3>5 DEF Account, Repaid
    <2> QED
      BY <2>2 DEF Accounts
  <1> QED
    BY <1>3, <1>4, <1>5, <1>6, <1>7, <1>8

(* A client comes in, leaves again or sits down to wait.                     *)
LEMMA ClientOutside ==
    ASSUME IInv, ShopInv, TypeOK', Queued', "sem" \notin removed, NEW c \in Clients,
           C_Again(c) \/ C_Lock(c) \/ C_FreeSeat(c) \/ (\E room \in Nat : SitDown(c, room))
           \/ C_CantSend(c) \/ C_UnlockFailed(c) \/ C_UnlockQueued(c) \/ C_UnlockFull(c)
           \/ C_Shaved(c) \/ C_NoFreeSeats(c)
    PROVE  ShopInv'
  <1>0. /\ TypeOK /\ ClientsFollow /\ Queued /\ OneHolder /\ Counted /\ Asleep /\ OneBusy
        /\ NoCustomer /\ WokenUp /\ Invited /\ Messages /\ Accounts /\ TypeOK' /\ Queued'
        /\ Barber \in Processes /\ Barber \notin Clients /\ Clients \subseteq Processes
        /\ Nobody \notin Processes /\ Shaves \in [Clients -> Nat]
        /\ Seats \in Nat /\ "sem" \notin removed
    BY BarberAssumption DEF IInv, ShopInv, Processes
  <1> USE DEF TypeOK, PlacesOK, Goes, GoesOn, Takes, Gives, Else, shop, shaves
  <1>1. CASE C_Again(c)
    <2>1. /\ Goes(c, "C_again", IF noOfShaves[c] > 0 THEN "C_lock" ELSE "finished")
          /\ UNCHANGED <<shop, pending, customer, shaves>>
      BY <1>1, ClientGoes DEF C_Again
    <2>2. OneHolder' /\ Counted' /\ Asleep'
      BY <1>0, <2>1 DEF OneHolder, Holds, B_Locked, C_Locked, Counted, Asleep
    <2>3. /\ ~ Busy(c) /\ main'[c] \notin C_Chair /\ (main[c] = "C_waiting" => shaved[c] # 0)
          /\ \A p \in Processes : p # c => main'[p] = main[p]
          /\ sem'["toClient"] = sem["toClient"] /\ sem'["toBarber"] = sem["toBarber"]
      BY <1>0, <2>1 DEF Busy, C_Chair, ClientsFollow
    <2>4. /\ \A d \in Clients : InQueue(d)' => InQueue(d) \/ d = c
          /\ \A d \in Clients : d # c => shaved'[d] = shaved[d] /\ noOfShaves'[d] = noOfShaves[d]
          /\ Repaid(c)
          /\ UNCHANGED <<awake, removed, handler, pending, customer, served>>
      BY <1>0, <2>1 DEF InQueue, Repaid
    <2> QED
      BY <1>0, <2>1, <2>2, <2>3, <2>4, OutsideTheChair DEF ShopInv
  <1>2. CASE C_Lock(c)
    <2>1. /\ Goes(c, "C_lock", "C_look") /\ Takes("lock") /\ Else
          /\ UNCHANGED shaves
      BY <1>2, ClientGoes DEF C_Lock
    <2>2. OneHolder' /\ Counted' /\ Asleep'
      BY <1>0, <2>1 DEF OneHolder, Holds, Counted, Asleep
    <2>3. /\ ~ Busy(c) /\ main'[c] \notin C_Chair /\ (main[c] = "C_waiting" => shaved[c] # 0)
          /\ \A p \in Processes : p # c => main'[p] = main[p]
          /\ sem'["toClient"] = sem["toClient"] /\ sem'["toBarber"] = sem["toBarber"]
      BY <1>0, <2>1 DEF Busy, C_Chair, ClientsFollow
    <2>4. /\ \A d \in Clients : InQueue(d)' => InQueue(d) \/ d = c
          /\ \A d \in Clients : d # c => shaved'[d] = shaved[d] /\ noOfShaves'[d] = noOfShaves[d]
          /\ Repaid(c)
          /\ UNCHANGED <<awake, removed, handler, pending, customer, served>>
      BY <1>0, <2>1 DEF InQueue, Repaid
    <2> QED
      BY <1>0, <2>1, <2>2, <2>3, <2>4, OutsideTheChair DEF ShopInv
  <1>3. CASE C_FreeSeat(c)
    <2>1. /\ Goes(c, "C_look", "C_sit")
          /\ awake # 0 /\ waiting' = waiting + 1
          /\ UNCHANGED <<awake, queue, sem, removed, pending, customer, shaves>>
      BY <1>3, ClientGoes DEF C_FreeSeat
    <2>2. \A d \in Clients : main[d] # "C_sit"
      BY <1>0, <2>1 DEF OneHolder, Holds, C_Locked
    <2>3. OneHolder' /\ Counted'
      BY <1>0, <2>1, <2>2 DEF OneHolder, Holds, B_Locked, C_Locked, Counted
    <2>4. Asleep'
      BY <1>0, <2>1, <2>2 DEF Asleep
    <2>5. /\ ~ Busy(c) /\ main'[c] \notin C_Chair /\ (main[c] = "C_waiting" => shaved[c] # 0)
          /\ \A p \in Processes : p # c => main'[p] = main[p]
          /\ sem'["toClient"] = sem["toClient"] /\ sem'["toBarber"] = sem["toBarber"]
      BY <1>0, <2>1, <2>2 DEF Busy, C_Chair, ClientsFollow
    <2>6. /\ \A d \in Clients : InQueue(d)' => InQueue(d) \/ d = c
          /\ \A d \in Clients : d # c => shaved'[d] = shaved[d] /\ noOfShaves'[d] = noOfShaves[d]
          /\ Repaid(c)
          /\ UNCHANGED <<awake, removed, handler, pending, customer, served>>
      BY <1>0, <2>1, <2>2 DEF InQueue, Repaid
    <2> QED
      BY <1>0, <2>1, <2>3, <2>4, <2>5, <2>6, OutsideTheChair DEF ShopInv
  <1>4. CASE \E room \in Nat : SitDown(c, room)
    <2>1. /\ Goes(c, "C_sit", "C_unlock_queued")
          /\ queue' = Append(queue, c)
          /\ UNCHANGED <<awake, waiting, sem, removed, pending, customer, shaves>>
      BY <1>4, ClientGoes DEF SitDown
    <2>2. \A d \in Clients : main'[d] # "C_sit"
      BY <1>0, <2>1 DEF OneHolder, Holds, C_Locked
    <2>3. queue \in Seq(Clients) /\ queue' = Append(queue, c)
      BY <1>0, <2>1
    <2>4. /\ Len(queue) \in Nat /\ Len(queue') = Len(queue) + 1 /\ queue' # <<>>
          /\ \A i \in 1..Len(queue') :
                  queue'[i] = c \/ (i \in 1..Len(queue) /\ queue'[i] = queue[i])
      BY <2>3, SeatTaken
    <2>5. OneHolder' /\ Counted'
      BY <1>0, <2>1, <2>2, <2>3, <2>4 DEF OneHolder, Holds, B_Locked, C_Locked, Counted
    <2>6. Asleep'
      BY <1>0, <2>1, <2>2, <2>3, <2>4 DEF Asleep
    <2>7. /\ ~ Busy(c) /\ main'[c] \notin C_Chair /\ (main[c] = "C_waiting" => shaved[c] # 0)
          /\ \A p \in Processes : p # c => main'[p] = main[p]
          /\ sem'["toClient"] = sem["toClient"] /\ sem'["toBarber"] = sem["toBarber"]
      BY <1>0, <2>1, <2>2, <2>3, <2>4 DEF Busy, C_Chair, ClientsFollow
    <2>8. /\ \A d \in Clients : InQueue(d)' => InQueue(d) \/ d = c
          /\ \A d \in Clients : d # c => shaved'[d] = shaved[d] /\ noOfShaves'[d] = noOfShaves[d]
          /\ Repaid(c)
          /\ UNCHANGED <<awake, removed, handler, pending, customer, served>>
      BY <1>0, <2>1, <2>2, <2>3, <2>4 DEF InQueue, Repaid
    <2> QED
      BY <1>0, <2>1, <2>5, <2>6, <2>7, <2>8, OutsideTheChair DEF ShopInv
  <1>5. CASE C_CantSend(c)
    <2>1. /\ Goes(c, "C_sit", "C_unlock_failed")
          /\ "queue" \in removed
          /\ UNCHANGED <<shop, pending, customer, shaves>>
      BY <1>5, ClientGoes DEF C_CantSend
    <2>2. OneHolder' /\ Counted' /\ Asleep'
      BY <1>0, <2>1 DEF OneHolder, Holds, B_Locked, C_Locked, Counted, Asleep
    <2>3. /\ ~ Busy(c) /\ main'[c] \notin C_Chair /\ (main[c] = "C_waiting" => shaved[c] # 0)
          /\ \A p \in Processes : p # c => main'[p] = main[p]
          /\ sem'["toClient"] = sem["toClient"] /\ sem'["toBarber"] = sem["toBarber"]
      BY <1>0, <2>1 DEF Busy, C_Chair, ClientsFollow
    <2>4. /\ \A d \in Clients : InQueue(d)' => InQueue(d) \/ d = c
          /\ \A d \in Clients : d # c => shaved'[d] = shaved[d] /\ noOfShaves'[d] = noOfShaves[d]
          /\ Repaid(c)
          /\ UNCHANGED <<awake, removed, handler, pending, customer, served>>
      BY <1>0, <2>1 DEF InQueue, Repaid
    <2> QED
      BY <1>0, <2>1, <2>2, <2>3, <2>4, OutsideTheChair DEF ShopInv
  <1>6. CASE C_UnlockFailed(c)
    <2>1. /\ Goes(c, "C_unlock_failed", "failed") /\ Gives("lock") /\ Else
          /\ UNCHANGED shaves
      BY <1>6, ClientGoes DEF C_UnlockFailed
    <2>2. OneHolder' /\ Counted' /\ Asleep'
      BY <1>0, <2>1 DEF OneHolder, Holds, B_Locked, C_Locked, Counted, Asleep
    <2>3. /\ ~ Busy(c) /\ main'[c] \notin C_Chair /\ (main[c] = "C_waiting" => shaved[c] # 0)
          /\ \A p \in Processes : p # c => main'[p] = main[p]
          /\ sem'["toClient"] = sem["toClient"] /\ sem'["toBarber"] = sem["toBarber"]
      BY <1>0, <2>1 DEF Busy, C_Chair, ClientsFollow
    <2>4. /\ \A d \in Clients : InQueue(d)' => InQueue(d) \/ d = c
          /\ \A d \in Clients : d # c => shaved'[d] = shaved[d] /\ noOfShaves'[d] = noOfShaves[d]
          /\ Repaid(c)
          /\ UNCHANGED <<awake, removed, handler, pending, customer, served>>
      BY <1>0, <2>1 DEF InQueue, Repaid
    <2> QED
      BY <1>0, <2>1, <2>2, <2>3, <2>4, OutsideTheChair DEF ShopInv
  <1>7. CASE C_UnlockQueued(c)
    <2>1. /\ Goes(c, "C_unlock_queued", "C_waiting") /\ Gives("lock") /\ Else
          /\ UNCHANGED shaves
      BY <1>7, ClientGoes DEF C_UnlockQueued
    <2>2. OneHolder' /\ Counted' /\ Asleep'
      BY <1>0, <2>1 DEF OneHolder, Holds, B_Locked, C_Locked, Counted, Asleep
    <2>3. /\ ~ Busy(c) /\ main'[c] \notin C_Chair /\ (main[c] = "C_waiting" => shaved[c] # 0)
          /\ \A p \in Processes : p # c => main'[p] = main[p]
          /\ sem'["toClient"] = sem["toClient"] /\ sem'["toBarber"] = sem["toBarber"]
      BY <1>0, <2>1 DEF Busy, C_Chair, ClientsFollow
    <2>4. /\ \A d \in Clients : InQueue(d)' => InQueue(d) \/ d = c
          /\ \A d \in Clients : d # c => shaved'[d] = shaved[d] /\ noOfShaves'[d] = noOfShaves[d]
          /\ Repaid(c)
          /\ UNCHANGED <<awake, removed, handler, pending, customer, served>>
      BY <1>0, <2>1 DEF InQueue, Repaid
    <2> QED
      BY <1>0, <2>1, <2>2, <2>3, <2>4, OutsideTheChair DEF ShopInv
  <1>8. CASE C_UnlockFull(c)
    <2>1. /\ Goes(c, "C_unlock_full", "C_again") /\ Gives("lock") /\ Else
          /\ UNCHANGED shaves
      BY <1>8, ClientGoes DEF C_UnlockFull
    <2>2. OneHolder' /\ Counted' /\ Asleep'
      BY <1>0, <2>1 DEF OneHolder, Holds, B_Locked, C_Locked, Counted, Asleep
    <2>3. /\ ~ Busy(c) /\ main'[c] \notin C_Chair /\ (main[c] = "C_waiting" => shaved[c] # 0)
          /\ \A p \in Processes : p # c => main'[p] = main[p]
          /\ sem'["toClient"] = sem["toClient"] /\ sem'["toBarber"] = sem["toBarber"]
      BY <1>0, <2>1 DEF Busy, C_Chair, ClientsFollow
    <2>4. /\ \A d \in Clients : InQueue(d)' => InQueue(d) \/ d = c
          /\ \A d \in Clients : d # c => shaved'[d] = shaved[d] /\ noOfShaves'[d] = noOfShaves[d]
          /\ Repaid(c)
          /\ UNCHANGED <<awake, removed, handler, pending, customer, served>>
      BY <1>0, <2>1 DEF InQueue, Repaid
    <2> QED
      BY <1>0, <2>1, <2>2, <2>3, <2>4, OutsideTheChair DEF ShopInv
  <1>9. CASE C_Shaved(c)
    <2>1. /\ Goes(c, "C_waiting", "C_again")
          /\ shaved[c] # 0 /\ shaved' = [shaved EXCEPT ![c] = 0]
          /\ noOfShaves' = [noOfShaves EXCEPT ![c] = @ - 1]
          /\ UNCHANGED <<shop, pending, customer, served>>
      BY <1>9, ClientGoes DEF C_Shaved
    <2>2. OneHolder' /\ Counted' /\ Asleep'
      BY <1>0, <2>1 DEF OneHolder, Holds, B_Locked, C_Locked, Counted, Asleep
    <2>3. /\ ~ Busy(c) /\ main'[c] \notin C_Chair /\ (main[c] = "C_waiting" => shaved[c] # 0)
          /\ \A p \in Processes : p # c => main'[p] = main[p]
          /\ sem'["toClient"] = sem["toClient"] /\ sem'["toBarber"] = sem["toBarber"]
      BY <1>0, <2>1 DEF Busy, C_Chair, ClientsFollow
    <2>4. /\ \A d \in Clients : InQueue(d)' => InQueue(d) \/ d = c
          /\ \A d \in Clients : d # c => shaved'[d] = shaved[d] /\ noOfShaves'[d] = noOfShaves[d]
          /\ Repaid(c)
          /\ UNCHANGED <<awake, removed, handler, pending, customer, served>>
      BY <1>0, <2>1 DEF InQueue, Repaid
    <2> QED
      BY <1>0, <2>1, <2>2, <2>3, <2>4, OutsideTheChair DEF ShopInv
  <1>10. CASE C_NoFreeSeats(c)
    <2>1. /\ Goes(c, "C_look", "C_unlock_full")
          /\ UNCHANGED <<shop, pending, customer, shaves>>
      BY <1>10, ClientGoes DEF C_NoFreeSeats
    <2>2. OneHolder' /\ Counted' /\ Asleep'
      BY <1>0, <2>1 DEF OneHolder, Holds, B_Locked, C_Locked, Counted, Asleep
    <2>3. /\ ~ Busy(c) /\ main'[c] \notin C_Chair /\ (main[c] = "C_waiting" => shaved[c] # 0)
          /\ \A p \in Processes : p # c => main'[p] = main[p]
          /\ sem'["toClient"] = sem["toClient"] /\ sem'["toBarber"] = sem["toBarber"]
      BY <1>0, <2>1 DEF Busy, C_Chair, ClientsFollow
    <2>4. /\ \A d \in Clients : InQueue(d)' => InQueue(d) \/ d = c
          /\ \A d \in Clients : d # c => shaved'[d] = shaved[d] /\ noOfShaves'[d] = noOfShaves[d]
          /\ Repaid(c)
          /\ UNCHANGED <<awake, removed, handler, pending, customer, served>>
      BY <1>0, <2>1 DEF InQueue, Repaid
    <2> QED
      BY <1>0, <2>1, <2>2, <2>3, <2>4, OutsideTheChair DEF ShopInv
  <1> QED
    BY <1>1, <1>2, <1>3, <1>4, <1>5, <1>6, <1>7, <1>8, <1>9, <1>10

(* A client finds the barber asleep, wakes him up and is shaved.              *)
LEMMA ClientWakesBarber ==
    ASSUME IInv, ShopInv, TypeOK', Queued', "sem" \notin removed, NEW c \in Clients,
           C_WakeUp(c) \/ C_WakeWait(c) \/ C_UnlockChair(c) \/ C_InChair(c)
           \/ C_ShaveWait(c) \/ C_Leave(c)
    PROVE  ShopInv'
  <1>0. /\ TypeOK /\ ClientsFollow /\ Queued /\ OneHolder /\ Counted /\ Asleep /\ OneBusy
        /\ NoCustomer /\ WokenUp /\ Invited /\ Messages /\ Accounts /\ TypeOK' /\ Queued'
        /\ Barber \in Processes /\ Barber \notin Clients /\ Clients \subseteq Processes
        /\ Nobody \notin Processes /\ Shaves \in [Clients -> Nat]
        /\ Seats \in Nat /\ "sem" \notin removed
    BY BarberAssumption DEF IInv, ShopInv, Processes
  <1> USE DEF TypeOK, PlacesOK, Goes, GoesOn, Takes, Gives, Else, shop, shaves
  <1>1. CASE C_WakeUp(c)
    <2>1. /\ Goes(c, "C_look", "C_wake_wait")
          /\ awake = 0 /\ pending' \in {pending, [pending EXCEPT ![Barber] = c]}
          /\ UNCHANGED <<shop, customer, shaves>>
      BY <1>1, ClientGoes DEF C_WakeUp, Kill
    <2>2. /\ pending[Barber] = Nobody /\ Told(0, 0) /\ \A d \in Clients : ~ Busy(d)
      BY <1>0, <2>1 DEF Asleep, NoCustomer, OneHolder, Holds, C_Locked
    <2>3. main[Barber] \in {"B_asleep", "closing"}
      BY <1>0, <2>1 DEF Asleep, OneHolder, Holds, B_Locked, C_Locked
    <2>4. OneHolder' /\ Counted'
      BY <1>0, <2>1, <2>2, <2>3 DEF OneHolder, Holds, B_Locked, C_Locked, Counted
    <2>5. Asleep'
      BY <1>0, <2>1, <2>2, <2>3 DEF Asleep
    <2>6. OneBusy' /\ NoCustomer' /\ WokenUp'
      BY <1>0, <2>1, <2>2, <2>3 DEF OneBusy, Busy, NoCustomer, Told, WokenUp, C_Chair
    <2>7. Invited' /\ Messages' /\ Accounts'
      BY <1>0, <2>1, <2>2, <2>3 DEF Invited, Told, Busy, InQueue, Messages, Waits, Accounts,
            Account, Due, Leaves
    <2> QED
      BY <1>0, <2>4, <2>5, <2>6, <2>7 DEF ShopInv
  <1>2. CASE C_WakeWait(c)
    <2>1. /\ Goes(c, "C_wake_wait", "C_unlock_chair") /\ Takes("toClient") /\ Else
          /\ UNCHANGED shaves
      BY <1>2, ClientGoes DEF C_WakeWait
    <2>2. OneHolder' /\ Counted' /\ Asleep'
      BY <1>0, <2>1 DEF OneHolder, Holds, B_Locked, C_Locked, Counted, Asleep, NoCustomer,
            Told
    <2>3. OneBusy'
      BY <1>0, <2>1 DEF OneBusy, Busy, C_Chair
    <2>4. NoCustomer'
      BY <1>0, <2>1 DEF NoCustomer, Told, Busy
    <2>5. WokenUp'
      BY <1>0, <2>1 DEF WokenUp, Told, Busy, C_Chair
    <2>6. Invited' /\ Messages' /\ Accounts'
      BY <1>0, <2>1 DEF Invited, Told, InQueue, Busy, C_Chair, Messages, Waits, Accounts,
            Account, Due, Leaves, OneBusy
    <2> QED
      BY <1>0, <2>2, <2>3, <2>4, <2>5, <2>6 DEF ShopInv
  <1>3. CASE C_UnlockChair(c)
    <2>1. /\ Goes(c, "C_unlock_chair", "C_in_chair") /\ Gives("lock") /\ Else
          /\ UNCHANGED shaves
      BY <1>3, ClientGoes DEF C_UnlockChair
    <2>2. OneHolder' /\ Counted' /\ Asleep'
      BY <1>0, <2>1 DEF OneHolder, Holds, B_Locked, C_Locked, Counted, Asleep
    <2>3. OneBusy' /\ NoCustomer' /\ WokenUp'
      BY <1>0, <2>1 DEF OneBusy, Busy, C_Chair, NoCustomer, Told, WokenUp
    <2>4. Invited' /\ Messages' /\ Accounts'
      BY <1>0, <2>1 DEF Invited, Told, InQueue, Busy, C_Chair, Messages, Waits, Accounts,
            Account, Due, Leaves
    <2> QED
      BY <1>0, <2>2, <2>3, <2>4 DEF ShopInv
  <1>4. CASE C_InChair(c)
    <2>1. /\ Goes(c, "C_in_chair", "C_shave_wait") /\ Gives("toBarber") /\ Else
          /\ UNCHANGED shaves
      BY <1>4, ClientGoes DEF C_InChair
    <2>2. OneHolder' /\ Counted' /\ Asleep'
      BY <1>0, <2>1 DEF OneHolder, Holds, B_Locked, C_Locked, Counted, Asleep
    <2>3. OneBusy' /\ NoCustomer'
      BY <1>0, <2>1 DEF OneBusy, Busy, C_Chair, NoCustomer, Told
    <2>4. WokenUp'
      BY <1>0, <2>1 DEF WokenUp, Told, Busy, C_Chair
    <2>5. Invited' /\ Messages' /\ Accounts'
      BY <1>0, <2>1 DEF Invited, Told, InQueue, Busy, C_Chair, Messages, Waits, Accounts,
            Account, Due, Leaves, OneBusy
    <2> QED
      BY <1>0, <2>2, <2>3, <2>4, <2>5 DEF ShopInv
  <1>5. CASE C_ShaveWait(c)
    <2>1. /\ Goes(c, "C_shave_wait", "C_leave") /\ Takes("toClient") /\ Else
          /\ UNCHANGED shaves
      BY <1>5, ClientGoes DEF C_ShaveWait
    <2>2. OneHolder' /\ Counted' /\ Asleep'
      BY <1>0, <2>1 DEF OneHolder, Holds, B_Locked, C_Locked, Counted, Asleep
    <2>3. OneBusy' /\ NoCustomer'
      BY <1>0, <2>1 DEF OneBusy, Busy, C_Chair, NoCustomer, Told
    <2>4. WokenUp'
      BY <1>0, <2>1 DEF WokenUp, Told, Busy, C_Chair
    <2>5. Invited' /\ Messages' /\ Accounts'
      BY <1>0, <2>1 DEF Invited, Told, InQueue, Busy, C_Chair, Messages, Waits, Accounts,
            Account, Due, Leaves, OneBusy, ClientsFollow
    <2> QED
      BY <1>0, <2>2, <2>3, <2>4, <2>5 DEF ShopInv
  <1>6. CASE C_Leave(c)
    <2>1. /\ Goes(c, "C_leave", "C_again") /\ Gives("toBarber") /\ Else
          /\ noOfShaves' = [noOfShaves EXCEPT ![c] = @ - 1]
          /\ UNCHANGED <<shaved, served>>
      BY <1>6, ClientGoes DEF C_Leave
    <2>2. OneHolder' /\ Counted' /\ Asleep'
      BY <1>0, <2>1 DEF OneHolder, Holds, B_Locked, C_Locked, Counted, Asleep
    <2>3. OneBusy' /\ NoCustomer'
      BY <1>0, <2>1 DEF OneBusy, Busy, C_Chair, NoCustomer, Told
    <2>4. WokenUp'
      BY <1>0, <2>1 DEF WokenUp, Told, ClientsFollow, Busy, C_Chair
    <2>5. Invited' /\ Messages'
      BY <1>0, <2>1 DEF Invited, Told, InQueue, Busy, C_Chair, Messages, Waits
    <2>6. Accounts'
      <3>1. ASSUME NEW d \in Clients, d # c PROVE Account(d)'
        <4>1. Account(d) /\ Leaves(d)' = Leaves(d) /\ Waits(d)' = Waits(d)
          BY <1>0, <2>1, <3>1 DEF Accounts, Leaves, Waits
        <4> QED
          BY <1>0, <2>1, <3>1, <4>1 DEF Account, Due
      <3>2. Account(c)'
        <4>1. Account(c) /\ Leaves(c) /\ ~ Leaves(c)' /\ ~ Waits(c)'
          BY <1>0, <2>1 DEF Accounts, Leaves, Waits, ClientsFollow
        <4>2. /\ served[c] \in Int /\ noOfShaves[c] \in Int /\ shaved[c] = 0 /\ Shaves[c] \in Int
              /\ served'[c] = served[c] /\ noOfShaves'[c] \in Int /\ shaved'[c] \in Int
          BY <1>0, <2>1 DEF ClientsFollow
        <4>3. noOfShaves'[c] = noOfShaves[c] - 1 + shaved'[c]
          BY <1>0, <2>1, <4>2
        <4> QED
          BY <4>1, <4>2, <4>3 DEF Account, Due
      <3> QED
        BY <3>1, <3>2 DEF Accounts
    <2> QED
      BY <1>0, <2>2, <2>3, <2>4, <2>5, <2>6 DEF ShopInv
  <1> QED
    BY <1>1, <1>2, <1>3, <1>4, <1>5, <1>6

(* A client is invited, and shaved in its handler.                            *)
LEMMA ClientIsInvited ==
    ASSUME IInv, ShopInv, TypeOK', Queued', "sem" \notin removed, NEW c \in Clients,
           S_Invited(c) \/ S_Sit(c) \/ S_ShaveWait(c) \/ S_Leave(c)
    PROVE  ShopInv'
  <1>0. /\ TypeOK /\ ClientsFollow /\ Queued /\ OneHolder /\ Counted /\ Asleep /\ OneBusy
        /\ NoCustomer /\ WokenUp /\ Invited /\ Messages /\ Accounts /\ TypeOK' /\ Queued'
        /\ Barber \in Processes /\ Barber \notin Clients /\ Clients \subseteq Processes
        /\ Nobody \notin Processes /\ Shaves \in [Clients -> Nat]
        /\ Seats \in Nat /\ "sem" \notin removed
    BY BarberAssumption DEF IInv, ShopInv, Processes
  <1> USE DEF TypeOK, PlacesOK, Goes, GoesOn, Takes, Gives, Else, shop, shaves
  <1>1. CASE S_Invited(c)
    <2>1. /\ pending[c] # Nobody /\ handler[c] = "none"
          /\ pending' = [pending EXCEPT ![c] = Nobody]
          /\ handler' = [handler EXCEPT ![c] = "S_sit"]
          /\ UNCHANGED <<main, gone, shop, customer, shaves>>
      BY <1>0, <1>1, HandledInPlace DEF S_Invited
    <2>2. OneHolder' /\ Counted' /\ Asleep'
      BY <1>0, <2>1 DEF OneHolder, Holds, Counted, Asleep
    <2>3. OneBusy' /\ NoCustomer' /\ WokenUp'
      BY <1>0, <2>1 DEF OneBusy, Busy, NoCustomer, Told, WokenUp
    <2>4. Invited' /\ Messages' /\ Accounts'
      BY <1>0, <2>1 DEF Invited, Told, Busy, InQueue, Messages, Waits, Accounts, Account,
            Due, Leaves
    <2> QED
      BY <1>0, <2>2, <2>3, <2>4 DEF ShopInv
  <1>2. CASE S_Sit(c)
    <2>1. /\ GoesOn(c, "S_sit", "S_shave_wait") /\ Gives("toBarber") /\ Else
          /\ UNCHANGED shaves
      BY <1>2, ClientGoes DEF S_Sit
    <2>2. OneHolder' /\ Counted' /\ Asleep'
      BY <1>0, <2>1 DEF OneHolder, Holds, Counted, Asleep
    <2>3. OneBusy' /\ NoCustomer' /\ WokenUp'
      BY <1>0, <2>1 DEF OneBusy, Busy, NoCustomer, Told, Asleep, ClientsFollow, C_Chair,
            WokenUp
    <2>4. Invited' /\ Messages'
      BY <1>0, <2>1 DEF Invited, Told, Busy, InQueue, Messages, Waits
    <2>5. Accounts'
      BY <1>0, <2>1 DEF Accounts, Account, Due, Waits, Leaves, OneBusy, ClientsFollow,
            Messages, Busy, C_Chair
    <2> QED
      BY <1>0, <2>2, <2>3, <2>4, <2>5 DEF ShopInv
  <1>3. CASE S_ShaveWait(c)
    <2>1. /\ GoesOn(c, "S_shave_wait", "S_leave") /\ Takes("toClient") /\ Else
          /\ UNCHANGED shaves
      BY <1>3, ClientGoes DEF S_ShaveWait
    <2>2. OneHolder' /\ Counted' /\ Asleep'
      BY <1>0, <2>1 DEF OneHolder, Holds, Counted, Asleep
    <2>3. OneBusy' /\ NoCustomer' /\ WokenUp'
      BY <1>0, <2>1 DEF OneBusy, Busy, NoCustomer, Told, WokenUp, ClientsFollow, C_Chair
    <2>4. Invited' /\ Messages' /\ Accounts'
      BY <1>0, <2>1 DEF Invited, Told, Busy, InQueue, Messages, Waits, Accounts, Account,
            Due, Leaves, WokenUp, ClientsFollow, OneBusy, C_Chair
    <2> QED
      BY <1>0, <2>2, <2>3, <2>4 DEF ShopInv
  <1>4. CASE S_Leave(c)
    <2>1. /\ GoesOn(c, "S_leave", "none") /\ Gives("toBarber") /\ Else
          /\ shaved' = [shaved EXCEPT ![c] = 1]
          /\ UNCHANGED <<noOfShaves, served>>
      BY <1>4, ClientGoes DEF S_Leave
    <2>2. OneHolder' /\ Counted' /\ Asleep'
      BY <1>0, <2>1 DEF OneHolder, Holds, Counted, Asleep
    <2>3. OneBusy' /\ NoCustomer' /\ WokenUp'
      BY <1>0, <2>1 DEF OneBusy, Busy, NoCustomer, Told, Asleep, ClientsFollow, C_Chair,
            WokenUp
    <2>4. Invited' /\ Messages'
      BY <1>0, <2>1 DEF Invited, Told, InQueue, ClientsFollow, Busy, C_Chair, Messages,
            Waits
    <2>5. Accounts'
      <3>1. ASSUME NEW d \in Clients, d # c PROVE Account(d)'
        <4>1. Account(d) /\ Leaves(d)' = Leaves(d) /\ Waits(d)' = Waits(d)
          BY <1>0, <2>1, <3>1 DEF Accounts, Leaves, Waits
        <4> QED
          BY <1>0, <2>1, <3>1, <4>1 DEF Account, Due
      <3>2. Account(c)'
        <4>1. Account(c) /\ Leaves(c) /\ ~ Leaves(c)' /\ ~ Waits(c)'
          BY <1>0, <2>1 DEF Accounts, Leaves, Waits, ClientsFollow
        <4>2. /\ served[c] \in Int /\ noOfShaves[c] \in Int /\ shaved[c] = 0 /\ Shaves[c] \in Int
              /\ served'[c] = served[c] /\ noOfShaves'[c] \in Int /\ shaved'[c] \in Int
          BY <1>0, <2>1 DEF ClientsFollow
        <4>3. noOfShaves'[c] = noOfShaves[c] - 1 + shaved'[c]
          BY <1>0, <2>1, <4>2
        <4> QED
          BY <4>1, <4>2, <4>3 DEF Account, Due
      <3> QED
        BY <3>1, <3>2 DEF Accounts
    <2> QED
      BY <1>0, <2>2, <2>3, <2>4, <2>5 DEF ShopInv
  <1> QED
    BY <1>1, <1>2, <1>3, <1>4

(* A process that is stopped is not busy any more.                           *)
LEMMA StopKeepsShop ==
    ASSUME IInv, ShopInv, NEW p \in Processes, Stops(p)
    PROVE  ShopInv'
  <1>0. /\ TypeOK /\ Queued /\ OneHolder /\ Counted /\ Asleep /\ OneBusy
        /\ NoCustomer /\ WokenUp /\ Invited /\ Messages /\ Accounts
    BY DEF IInv, ShopInv
  <1>1. /\ UNCHANGED <<shop, main, handler, customer, shaves>>
        /\ \A q \in Processes : pending'[q] = pending[q] \/ pending'[q] = Nobody
    BY <1>0, StopAlone
  <1>2. \A c \in Clients : c \in Processes /\ (Busy(c)' => Busy(c))
    BY <1>1 DEF Busy, Processes
  <1> USE DEF shop, shaves
  <1>3. OneHolder' /\ Counted'
    BY <1>0, <1>1 DEF OneHolder, Holds, Counted
  <1>4. Queued'
    BY <1>0, <1>1, <1>2, QueuedKept DEF Queued
  <1>5. Asleep'
    BY <1>0, <1>1 DEF Asleep, Processes
  <1>6. OneBusy'
    BY <1>0, <1>2 DEF OneBusy
  <1>7. NoCustomer'
    BY <1>0, <1>1, <1>2 DEF NoCustomer, Told
  <1>8. WokenUp'
    BY <1>0, <1>1, <1>2 DEF WokenUp, Told
  <1>9. Invited'
    BY <1>0, <1>1, <1>2 DEF Invited, Told, InQueue
  <1>10. Messages'
    BY <1>0, <1>1, <1>2 DEF Messages, Waits
  <1>11. Accounts'
    BY <1>0, <1>1 DEF Accounts, Account, Due, Waits, Leaves
  <1> QED
    BY <1>3, <1>4, <1>5, <1>6, <1>7, <1>8, <1>9, <1>10, <1>11 DEF ShopInv

-----------------------------------------------------------------------------
(* The invariant.                                                           *)

LEMMA InitIInv == Init => IInv
  <1> SUFFICES ASSUME Init PROVE IInv
    OBVIOUS
  <1>0. /\ Barber \in Processes /\ Barber \notin Clients /\ Clients \subseteq Processes
        /\ Nobody \notin Processes /\ Shaves \in [Clients -> Nat] /\ Seats \in Nat
    BY BarberAssumption DEF Processes
  <1>1. /\ \A p \in Processes : main[p] = IF p = Barber THEN "B_lock" ELSE "C_again"
        /\ \A p \in Processes : handler[p] = "none" /\ pending[p] = Nobody
        /\ sem["lock"] = 1 /\ sem["toBarber"] = 0 /\ sem["toClient"] = 0
        /\ main[Barber] = "B_lock" /\ \A c \in Clients : main[c] = "C_again"
    BY <1>0 DEF Init
  <1>2. PlacesOK
    <2>1. main \in [Processes -> B_Places \union C_Places]
      BY DEF Init, B_Places, C_Places
    <2>2. handler \in [Processes -> {"none"} \union H_Places \union S_Places]
      BY DEF Init
    <2> QED
      BY <1>0, <1>1, <2>1, <2>2 DEF Init, PlacesOK, B_Places, C_Places
  <1>3. TypeOK
    <2>1. pending \in [Processes -> Processes \union {Nobody}] /\ queue \in Seq(Clients)
      BY EmptySeq DEF Init
    <2>2. /\ shaved \in [Clients -> {0, 1}] /\ noOfShaves \in [Clients -> Int]
          /\ served \in [Clients -> Nat]
      BY <1>0 DEF Init
    <2>3. sem \in [{"lock", "toBarber", "toClient"} -> Nat]
      BY DEF Init
    <2> QED
      BY <1>0, <1>1, <1>2, <2>1, <2>2, <2>3 DEF Init, TypeOK
  <1>4. ClientsFollow
    BY <1>0, <1>1 DEF Init, ClientsFollow
  <1>5. \A c \in Clients : ~ Busy(c) /\ ~ Waits(c) /\ ~ Leaves(c)
    BY <1>0, <1>1 DEF Busy, Waits, Leaves, C_Chair
  <1>6. OneHolder /\ Queued /\ Counted
    <2>1. \A p \in Processes : ~ Holds(p)
      BY <1>1 DEF Holds, B_Locked, C_Locked
    <2>2. queue = <<>> /\ Len(queue) = 0 /\ waiting = 0
      BY EmptySeq DEF Init
    <2> QED
      BY <1>1, <2>1, <2>2 DEF OneHolder, Queued, InQueue, Counted
  <1>7. Asleep /\ OneBusy /\ NoCustomer
    BY <1>0, <1>1, <1>5 DEF Init, Asleep, OneBusy, NoCustomer, Told
  <1>8. WokenUp /\ Invited /\ Messages
    BY <1>0, <1>1, <1>5 DEF WokenUp, Invited, Messages
  <1>9. Accounts
    <2>1. ASSUME NEW c \in Clients PROVE Account(c)
      <3>1. served[c] = 0 /\ noOfShaves[c] = Shaves[c] /\ shaved[c] = 0 /\ Shaves[c] \in Int
        BY <1>0 DEF Init
      <3>2. ~ Due(c)
        BY <1>5 DEF Due
      <3> QED
        BY <3>1, <3>2 DEF Account
    <2> QED
      BY <2>1 DEF Accounts
  <1> QED
    BY <1>3, <1>4, <1>6, <1>7, <1>8, <1>9 DEF IInv, ShopInv

(* Every step keeps the shop in order, for as long as there are semaphores. *)
LEMMA StepShopInv ==
    ASSUME IInv, AnyStep, "sem" \notin removed'
    PROVE  ShopInv'
  <1>1. TypeOK /\ TypeOK'
    BY NextTypeOK DEF IInv
  <1>2. CASE AnyBarberStep
    <2>1. "sem" \notin removed
      BY <1>2, BarberGoes
      DEF AnyBarberStep, BarberStep, Else, B_Receive, B_Invite, B_NobodyThere, B_WakesUp,
          H_WokenUp, BarberStops, B_RemoveQueue, B_RemoveSem, shop
    <2>2. ShopInv
      BY <2>1 DEF IInv
    <2>3. Queued'
      BY <1>2, <2>2, BarberQueued
    <2>4. ~ B_RemoveSem
      BY DEF B_RemoveSem
    <2>5. CASE B_Lock \/ B_Receive \/ B_NobodyThere \/ B_UnlockAsleep \/ B_WakesUp
      BY <1>1, <2>1, <2>2, <2>3, <2>5, BarberLooks
    <2>6. CASE B_Invite \/ B_SitWait \/ B_Unlock \/ B_TellDone \/ B_LeaveWait
      BY <1>1, <2>1, <2>2, <2>3, <2>6, BarberInvites
    <2>7. CASE H_WokenUp \/ H_Confirm \/ H_SitWait \/ H_TellDone \/ H_LeaveWait
      BY <1>1, <2>1, <2>2, <2>3, <2>7, BarberIsWoken
    <2>8. CASE BarberStops \/ B_RemoveQueue
      BY <1>1, <2>1, <2>2, <2>3, <2>8, BarberCloses
    <2> QED
      BY <1>2, <2>4, <2>5, <2>6, <2>7, <2>8 DEF AnyBarberStep, BarberStep
  <1>3. ASSUME NEW c \in Clients, AnyClientStep(c) PROVE ShopInv'
    <2>1. UNCHANGED removed
      BY <1>3, ClientAlone, BarberAssumption DEF Processes
    <2>2. ShopInv /\ "sem" \notin removed
      BY <2>1 DEF IInv
    <2>3. Queued'
      BY <1>3, <2>2, ClientQueued
    <2>4. CASE C_WakeUp(c) \/ C_WakeWait(c) \/ C_UnlockChair(c) \/ C_InChair(c)
               \/ C_ShaveWait(c) \/ C_Leave(c)
      BY <1>1, <2>2, <2>3, <2>4, ClientWakesBarber
    <2>5. CASE S_Invited(c) \/ S_Sit(c) \/ S_ShaveWait(c) \/ S_Leave(c)
      BY <1>1, <2>2, <2>3, <2>5, ClientIsInvited
    <2>6. CASE \/ C_Again(c) \/ C_Lock(c) \/ C_FreeSeat(c)
               \/ (\E room \in Nat : SitDown(c, room)) \/ C_CantSend(c)
               \/ C_UnlockFailed(c) \/ C_UnlockQueued(c) \/ C_UnlockFull(c)
               \/ C_Shaved(c) \/ C_NoFreeSeats(c)
      BY <1>1, <2>2, <2>3, <2>6, ClientOutside
    <2> QED
      BY <1>3, <2>4, <2>5, <2>6 DEF AnyClientStep
  <1>4. ASSUME NEW p \in Processes, Stops(p) PROVE ShopInv'
    <2>1. ShopInv
      BY <1>1, <1>4, StopAlone DEF IInv, shop
    <2> QED
      BY <1>4, <2>1, StopKeepsShop
  <1> QED
    BY <1>2, <1>3, <1>4 DEF AnyStep

(* The invariant is inductive, in both shops.                               *)
LEMMA NextIInv == IInv /\ (AnyStep \/ UNCHANGED vars) => IInv'
  <1>1. ASSUME IInv, AnyStep PROVE IInv'
    BY <1>1, NextTypeOK, NextClientsFollow, StepShopInv DEF IInv
  <1>2. ASSUME IInv, UNCHANGED vars PROVE IInv'
    <2> USE DEF vars, shop, places, shaves
    <2>1. TypeOK' /\ ClientsFollow'
      BY <1>2 DEF IInv, TypeOK, PlacesOK, Closing, ClientsFollow
    <2>2. ASSUME "sem" \notin removed PROVE ShopInv'
      <3>1. ShopInv
        BY <1>2, <2>2 DEF IInv
      <3>2. OneHolder' /\ Queued' /\ Counted' /\ Asleep'
        BY <1>2, <3>1 DEF ShopInv, OneHolder, Holds, Queued, InQueue, Counted, Asleep
      <3>3. OneBusy' /\ NoCustomer' /\ Messages' /\ Accounts'
        BY <1>2, <3>1
        DEF ShopInv, OneBusy, Busy, NoCustomer, Told, Messages, Waits, Accounts, Account,
            Due, Leaves
      <3>4. WokenUp' /\ Invited'
        BY <1>2, <3>1 DEF ShopInv, WokenUp, Told, Busy, Invited, InQueue
      <3> QED
        BY <3>2, <3>3, <3>4 DEF ShopInv
    <2> QED
      BY <1>2, <2>1, <2>2 DEF IInv
  <1> QED
    BY <1>1, <1>2

(* The shop with System V objects keeps the invariant,                       *)
THEOREM Invariance == Spec => []IInv
  <1>1. IInv /\ [Next]_vars => IInv'
    BY NextIInv, SystemVSteps
  <1> QED
    BY <1>1, InitIInv, PTL DEF Spec

(* and so does the one with POSIX objects.                                   *)
THEOREM PosixInvariance == P_Spec => []IInv
  <1>1. IInv /\ [P_Next]_vars => IInv'
    BY NextIInv, PosixSteps
  <1>2. P_Init => IInv
    BY InitIInv DEF P_Init
  <1> QED
    BY <1>1, <1>2, PTL DEF P_Spec

-----------------------------------------------------------------------------
(* What the runs check, for every shop.                                     *)

(* A signal finds the barber asleep or the client in its busy wait: no wait *)
(* for a semaphore is ever interrupted, in neither shop.                    *)
THEOREM InterruptsNothing ==
    (Spec => []NoInterruptedWait) /\ (P_Spec => []NoInterruptedWait)
  <1>1. ASSUME IInv PROVE NoInterruptedWait
    <2>1. ASSUME NEW c \in Clients, pending[c] # Nobody
          PROVE  handler[c] = "none" /\ main[c] = "C_waiting"
      BY <1>1, <2>1 DEF IInv, ClientsFollow
    <2>2. ASSUME pending[Barber] # Nobody, ~ Closing
          PROVE  handler[Barber] = "none" /\ main[Barber] = "B_asleep"
      BY <1>1, <2>2 DEF IInv, TypeOK, ShopInv, Asleep, Closing
    <2> QED
      BY <2>1, <2>2 DEF NoInterruptedWait, Processes
  <1> QED
    BY <1>1, Invariance, PosixInvariance, PTL

(* No message is left for the next client or the next shave.                *)
THEOREM NothingIsLeftOver == (Spec => []NoStaleMessage) /\ (P_Spec => []NoStaleMessage)
  <1>1. ASSUME IInv PROVE NoStaleMessage
    <2>1. ASSUME handler[Barber] = "none",
                 main[Barber] \in {"B_lock", "B_receive", "B_asleep"}
          PROVE  sem["toBarber"] = 0 /\ sem["toClient"] = 0
      BY <1>1, <2>1 DEF IInv, TypeOK, Closing, ShopInv, NoCustomer, Told
    <2> QED
      BY <2>1 DEF NoStaleMessage
  <1> QED
    BY <1>1, Invariance, PosixInvariance, PTL

(* Whenever the lock is free the shared count of the waiting clients is the *)
(* length of the queue.                                                     *)
THEOREM CountIsRight ==
    (Spec => []WaitingIsQueueLength) /\ (P_Spec => []WaitingIsQueueLength)
  <1>1. ASSUME IInv PROVE WaitingIsQueueLength
    <2> SUFFICES ASSUME sem["lock"] = 1, "queue" \notin removed PROVE waiting = Len(queue)
      BY DEF WaitingIsQueueLength
    <2>1. OneHolder /\ Counted
      BY <1>1 DEF IInv, TypeOK, ShopInv
    <2>2. \A c \in Clients : main[c] # "C_sit"
      BY <2>1 DEF OneHolder, Holds, C_Locked, Processes
    <2> QED
      BY <2>1, <2>2 DEF Counted
  <1> QED
    BY <1>1, Invariance, PosixInvariance, PTL

(* No client counts off a shave that the barber has not done for it.        *)
THEOREM ShavesCounted == (Spec => []ShavesAreReal) /\ (P_Spec => []ShavesAreReal)
  <1>1. ASSUME IInv PROVE ShavesAreReal
    <2> SUFFICES ASSUME "sem" \notin removed, NEW c \in Clients
                 PROVE  Shaves[c] - noOfShaves[c] + shaved[c] <= served[c]
      BY DEF ShavesAreReal
    <2>1. Account(c)
      BY <1>1 DEF IInv, ShopInv, Accounts
    <2>2. /\ served[c] \in Int /\ noOfShaves[c] \in Int /\ shaved[c] \in Int
          /\ Shaves[c] \in Int
      BY <1>1, BarberAssumption DEF IInv, TypeOK
    <2> QED
      BY <2>1, <2>2 DEF Account
  <1> QED
    BY <1>1, Invariance, PosixInvariance, PTL

-----------------------------------------------------------------------------
(* Barber and clients implement the shop of BarberShop.                     *)

(* Its chair, and the shaves each client has had.                           *)
Chair == {c \in Clients : InTheChair(c)}
Cuts  == [c \in Clients |-> Shaves[c] - noOfShaves[c] + shaved[c]]

(* The shop is not reopened.                                                *)
LEMMA ClosedForGood == ASSUME IInv, AnyStep, Closing PROVE Closing'
  <1>0. TypeOK /\ main[Barber] \in {"closing", "closing_masked"} /\ Barber \in Processes
    BY DEF IInv, Closing, Processes
  <1>1. CASE AnyBarberStep
    <2>1. main'[Barber] = main[Barber]
      <3>1. ~ BarberStops
        BY DEF BarberStops
      <3>2. CASE H_WokenUp
        BY <1>0, <3>2, HandledInPlace DEF H_WokenUp
      <3>3. CASE B_RemoveQueue
        BY <1>0, <3>3 DEF B_RemoveQueue, Run, TypeOK, PlacesOK
      <3>4. CASE B_RemoveSem
        BY <3>4 DEF B_RemoveSem
      <3> QED
        BY <1>0, <1>1, <3>1, <3>2, <3>3, <3>4, BarberGoes
        DEF AnyBarberStep, BarberStep, Goes, GoesOn
    <2> QED
      BY <1>0, <2>1 DEF Closing
  <1>2. ASSUME NEW c \in Clients, AnyClientStep(c) PROVE Closing'
    BY <1>0, <1>2, ClientAlone, BarberAssumption DEF Closing
  <1>3. ASSUME NEW p \in Processes, Stops(p) PROVE Closing'
    BY <1>0, <1>3, StopAlone DEF Closing
  <1> QED
    BY <1>1, <1>2, <1>3 DEF AnyStep

(* A step that puts nobody into the chair, nor takes anybody out of it.     *)
LEMMA ChairKept ==
    ASSUME \A c \in Clients : InTheChair(c)' <=> InTheChair(c)
    PROVE  Chair' = Chair
  BY DEF Chair

(* The shaves that are done depend on two variables only.                   *)
LEMMA CutsKept ==
    ASSUME UNCHANGED <<shaved, noOfShaves>>
    PROVE  Cuts' = Cuts
  BY DEF Cuts

(* The barber between two customers: the chair is empty, unless a client    *)
(* is about to wake him up.                                                 *)
LEMMA ChairFree ==
    ASSUME IInv, ShopInv, handler[Barber] = "none",
           main[Barber] \in {"B_lock", "B_receive", "B_asleep"} \/ awake = 0
    PROVE  /\ \A c \in Clients : InTheChair(c) => awake = 0 /\ main[c] = "C_wake_wait"
           /\ awake = 0 => queue = <<>>
  <1>1. \A c \in Clients : InTheChair(c) => Busy(c)
    BY DEF InTheChair, Busy, C_Chair, ShopInv, Asleep
  <1> QED
    BY <1>1 DEF ShopInv, NoCustomer, Asleep

(* The barber takes a client from the seats; nothing else he does shows.    *)
LEMMA BarberImplements ==
    ASSUME IInv, ShopInv, TypeOK', AnyBarberStep, ~ Closing'
    PROVE  BS!Invite \/ UNCHANGED BS!bsVars
  <1>0. /\ TypeOK /\ ~ Closing /\ Barber \in Processes /\ ShopInv
        /\ Barber \notin Clients /\ Clients \subseteq Processes /\ Nobody \notin Processes
        /\ "sem" \notin removed
    <2>1. ~ Closing
      BY ClosedForGood DEF AnyStep
    <2> QED
      BY <2>1, BarberAssumption DEF IInv, TypeOK, Processes
  <1>1. Cuts' = Cuts
    <2>1. CASE Clients = {}
      BY <2>1 DEF Cuts
    <2>2. CASE Clients # {}
      BY <2>2, BarberAlone, CutsKept
    <2> QED
      BY <2>1, <2>2
  <1>2. \A c \in Clients : /\ main'[c] = main[c] /\ handler'[c] = handler[c]
                           /\ pending'[c] = pending[c] \/ (B_Invite /\ c = customer)
    BY BarberAlone
  <1>3. ~ BarberStops /\ ~ B_RemoveQueue /\ ~ B_RemoveSem
    <2>1. ~ BarberStops
      BY <1>0 DEF BarberStops, Closing, TypeOK, PlacesOK
    <2> QED
      BY <1>0, <2>1 DEF B_RemoveQueue, B_RemoveSem
  <1>4. CASE B_Receive
    <2>1. /\ Goes(Barber, "B_receive", "B_invite") /\ queue # <<>> /\ queue' = Tail(queue)
          /\ customer' = Head(queue) /\ ~ B_Invite
      BY <1>4, BarberGoes DEF B_Receive, Goes
    <2>2. \A c \in Clients : ~ InTheChair(c)
      BY <2>1, ChairFree DEF Goes
    <2>3. customer' \in Clients
      BY <1>0, <2>1, HeadTailProperties DEF TypeOK
    <2>4. main'[Barber] = "B_invite"
      BY <1>0, <2>1 DEF Goes, TypeOK, PlacesOK
    <2>5. \A c \in Clients : InTheChair(c)' <=> c = customer'
      BY <1>2, <2>1, <2>2, <2>4 DEF InTheChair
    <2>6. Chair = {} /\ Chair' = {Head(queue)}
      BY <2>1, <2>2, <2>3, <2>5 DEF Chair
    <2>7. BS!Invite
      BY <1>1, <2>1, <2>6 DEF BS!Invite, Chair, Cuts
    <2> QED
      BY <2>7
  <1>5. CASE ~ B_Receive
    <2>1. UNCHANGED queue
      BY <1>3, <1>5, BarberGoes
      DEF AnyBarberStep, BarberStep, Else, B_Invite, B_NobodyThere, B_WakesUp, H_WokenUp, shop
    <2>2. \A c \in Clients : InTheChair(c)' <=> InTheChair(c)
      <3>1. CASE B_Invite
        <4>1. Goes(Barber, "B_invite", "B_sit_wait") /\ UNCHANGED customer
          BY <3>1, BarberGoes DEF B_Invite
        <4>2. main[Barber] = "B_invite" /\ main'[Barber] = "B_sit_wait"
          BY <1>0, <4>1 DEF Goes, TypeOK, PlacesOK
        <4> QED
          BY <1>2, <4>1, <4>2 DEF InTheChair
      <3>2. CASE B_SitWait
        <4>1. /\ Goes(Barber, "B_sit_wait", "B_unlock") /\ sem["toBarber"] > 0
              /\ UNCHANGED customer /\ ~ B_Invite
          BY <1>0, <3>2, BarberGoes DEF Takes, Else, Goes
        <4>2. main[Barber] = "B_sit_wait" /\ main'[Barber] = "B_unlock"
          BY <1>0, <4>1 DEF Goes, TypeOK, PlacesOK
        <4>3. customer \in Clients /\ handler[customer] = "S_shave_wait"
          BY <1>0, <4>1, <4>2 DEF ShopInv, Invited, Told
        <4> QED
          BY <1>2, <4>1, <4>2, <4>3 DEF InTheChair
      <3>3. CASE ~ B_Invite /\ ~ B_SitWait
        <4>1. /\ main[Barber] \notin {"B_invite", "B_sit_wait"}
              /\ main'[Barber] \notin {"B_invite", "B_sit_wait"}
          <5>1. CASE H_WokenUp
            BY <1>0, <5>1, HandledInPlace DEF H_WokenUp
          <5>2. CASE H_Confirm \/ H_SitWait \/ H_TellDone \/ H_LeaveWait
            <6>1. main' = main /\ handler[Barber] \in H_Places
              BY <5>2, BarberGoes DEF GoesOn, H_Places
            <6>2. main[Barber] \in {"B_asleep", "closing"}
              BY <1>0, <6>1 DEF H_Places, ShopInv, Asleep
            <6> QED
              BY <6>1, <6>2
          <5>3. CASE \/ B_Lock \/ B_Unlock \/ B_TellDone \/ B_LeaveWait \/ B_NobodyThere
                     \/ B_UnlockAsleep \/ B_WakesUp
            <6>1. PICK from \in B_Places \ {"B_invite", "B_sit_wait"},
                       to \in B_Places \ {"B_invite", "B_sit_wait"} : Goes(Barber, from, to)
              BY <5>3, BarberGoes DEF B_Places, B_Locked
            <6> QED
              BY <1>0, <6>1 DEF Goes, TypeOK, PlacesOK
          <5> QED
            BY <1>3, <1>5, <3>3, <5>1, <5>2, <5>3 DEF AnyBarberStep, BarberStep
        <4> QED
          BY <1>2, <3>3, <4>1 DEF InTheChair
      <3> QED
        BY <3>1, <3>2, <3>3
    <2> QED
      BY <1>1, <2>1, <2>2, ChairKept DEF BS!bsVars, Chair, Cuts
  <1> QED
    BY <1>4, <1>5

(* A client that is not busy is in the chair only while it is being invited.*)
LEMMA ClientOutOfChair ==
    ASSUME IInv, ShopInv, NEW c \in Clients, ~ Busy(c)
    PROVE  InTheChair(c) => main[c] = "C_waiting" /\ shaved[c] = 0
  BY DEF ShopInv, Invited, InTheChair, Busy, C_Chair

(* Unless it wakes up the barber, a client moves nobody else.               *)
LEMMA OthersSitStill ==
    ASSUME IInv, NEW c \in Clients, AnyClientStep(c), ~ C_WakeUp(c)
    PROVE  /\ UNCHANGED customer /\ main'[Barber] = main[Barber]
           /\ \A d \in Clients : d # c => (InTheChair(d)' <=> InTheChair(d))
  <1>1. Barber \in Processes /\ Barber # c /\ Clients \subseteq Processes
    BY BarberAssumption DEF Processes
  <1>2. UNCHANGED customer /\ main'[Barber] = main[Barber]
    BY <1>1, ClientAlone
  <1>3. \A d \in Clients : d # c => /\ main'[d] = main[d] /\ handler'[d] = handler[d]
                                    /\ pending'[d] = pending[d]
    BY <1>1, ClientAlone
  <1> QED
    BY <1>2, <1>3 DEF InTheChair

(* A client comes for a shave when it sits down or wakes the barber.         *)
LEMMA ComesForShave ==
    ASSUME IInv, ShopInv, NEW c \in Clients, main[c] \in {"C_look", "C_sit"}
    PROVE  /\ Cuts[c] < Shaves[c] /\ ~ InTheChair(c)
           /\ \A i \in 1..Len(queue) : queue[i] # c
  <1>1. handler[c] = "none" /\ pending[c] = Nobody /\ shaved[c] # 1 /\ noOfShaves[c] >= 1
    BY DEF IInv, ClientsFollow
  <1>2. noOfShaves[c] \in Int /\ shaved[c] = 0 /\ Shaves[c] \in Int
    BY <1>1, BarberAssumption DEF IInv, TypeOK
  <1>3. Shaves[c] - noOfShaves[c] + shaved[c] < Shaves[c]
    BY <1>1, <1>2
  <1>4. ~ InTheChair(c)
    BY <1>1, ClientOutOfChair DEF Busy, C_Chair
  <1>5. \A i \in 1..Len(queue) : queue[i] # c
    BY DEF ShopInv, Queued, InQueue
  <1> QED
    BY <1>3, <1>4, <1>5 DEF Cuts

(* A client that sits down takes a seat,                                    *)
LEMMA ClientSitsDown ==
    ASSUME IInv, ShopInv, NEW c \in Clients, NEW room \in Nat, SitDown(c, room)
    PROVE  BS!TakeSeat(c)
  <1>0. TypeOK /\ AnyClientStep(c) /\ c \in Processes
    BY DEF IInv, AnyClientStep, Processes
  <1>1. /\ Goes(c, "C_sit", "C_unlock_queued") /\ queue' = Append(queue, c)
        /\ "queue" \notin removed /\ UNCHANGED <<pending, shaves>>
    BY ClientGoes DEF SitDown
  <1>2. main[c] = "C_sit" /\ main'[c] = "C_unlock_queued" /\ ~ C_WakeUp(c)
    BY <1>0, <1>1, ClientGoes DEF Goes, TypeOK, PlacesOK
  <1>3. Len(queue) < Seats
    <2>1. waiting = Len(queue) + 1
      BY <1>1, <1>2 DEF ShopInv, Counted
    <2>2. waiting <= Seats /\ Len(queue) \in Nat /\ Seats \in Nat
      BY <1>0, BarberAssumption, LenProperties DEF TypeOK
    <2> QED
      BY <2>1, <2>2
  <1>4. \A d \in Clients : InTheChair(d)' <=> InTheChair(d)
    <2>1. InTheChair(c)' <=> InTheChair(c)
      BY <1>0, <1>1, <1>2, OthersSitStill DEF Goes, InTheChair
    <2> QED
      BY <1>0, <1>2, <2>1, OthersSitStill
  <1>5. Chair' = Chair /\ Cuts' = Cuts
    BY <1>1, <1>4, ChairKept, CutsKept DEF shaves
  <1>6. Cuts[c] < Shaves[c] /\ c \notin Chair /\ \A i \in 1..Len(queue) : queue[i] # c
    BY <1>2, ComesForShave DEF Chair
  <1> QED
    BY <1>1, <1>3, <1>5, <1>6 DEF BS!TakeSeat, BS!Comes, Chair, Cuts

(* one that finds the barber asleep wakes him,                              *)
LEMMA ClientWakes ==
    ASSUME IInv, ShopInv, NEW c \in Clients, C_WakeUp(c)
    PROVE  BS!WakeBarber(c)
  <1>0. /\ TypeOK /\ Barber \in Processes /\ Barber \notin Clients /\ Clients \subseteq Processes
        /\ c \in Processes
    BY BarberAssumption DEF IInv, Processes
  <1>1. /\ Goes(c, "C_look", "C_wake_wait") /\ awake = 0
        /\ pending' \in {pending, [pending EXCEPT ![Barber] = c]}
        /\ UNCHANGED <<queue, customer, shaves>>
    BY ClientGoes DEF C_WakeUp, Kill, shop
  <1>2. /\ main[c] = "C_look" /\ main'[c] = "C_wake_wait"
        /\ \A d \in Processes : d # c => main'[d] = main[d]
    BY <1>0, <1>1 DEF Goes, TypeOK, PlacesOK
  <1>3. queue = <<>> /\ handler[Barber] = "none"
        /\ main[Barber] \in {"B_unlock_asleep", "B_asleep", "closing"}
    BY <1>1 DEF ShopInv, Asleep
  <1>4. \A d \in Clients : main[d] # "C_wake_wait"
    BY <1>0, <1>2 DEF ShopInv, OneHolder, Holds, C_Locked
  <1>5. \A d \in Clients : ~ Busy(d) /\ ~ InTheChair(d)
    BY <1>1, <1>3, <1>4 DEF ShopInv, NoCustomer, Busy, C_Chair, InTheChair
  <1>6. \A d \in Clients : d # c => ~ InTheChair(d)'
    <2>1. ASSUME NEW d \in Clients, d # c
          PROVE  main'[d] = main[d] /\ handler'[d] = handler[d] /\ pending'[d] = pending[d]
      BY <1>0, <1>1, <1>2, <2>1 DEF Goes, TypeOK
    <2>2. main'[Barber] = main[Barber]
      BY <1>0, <1>2
    <2> QED
      BY <1>1, <1>3, <1>5, <2>1, <2>2 DEF InTheChair
  <1>7. InTheChair(c)'
    BY <1>2 DEF InTheChair
  <1>8. Chair = {} /\ Chair' = {c}
    BY <1>5, <1>6, <1>7 DEF Chair
  <1>9. Cuts' = Cuts
    BY <1>1, CutsKept DEF shaves
  <1>10. Cuts[c] < Shaves[c] /\ c \notin Chair /\ \A i \in 1..Len(queue) : queue[i] # c
    BY <1>2, ComesForShave DEF Chair
  <1> QED
    BY <1>1, <1>3, <1>8, <1>9, <1>10 DEF BS!WakeBarber, BS!Comes, Chair, Cuts

(* and one that was shaved leaves the chair.                                *)
LEMMA ClientLeaves ==
    ASSUME IInv, ShopInv, NEW c \in Clients, C_Leave(c) \/ S_Leave(c)
    PROVE  BS!Leave(c)
  <1>0. /\ TypeOK /\ ClientsFollow /\ AnyClientStep(c) /\ c \in Processes
        /\ Shaves \in [Clients -> Nat]
    BY BarberAssumption DEF IInv, AnyClientStep, Processes
  <1>1. ~ C_WakeUp(c) /\ UNCHANGED <<queue, pending>> /\ Leaves(c)
        /\ handler'[c] = "none" /\ main'[c] \in {"C_again", "C_waiting"}
    <2>1. CASE C_Leave(c)
      BY <1>0, <2>1, ClientGoes DEF Goes, Else, Leaves, TypeOK, PlacesOK
    <2>2. CASE S_Leave(c)
      BY <1>0, <2>2, ClientGoes DEF GoesOn, Goes, Else, Leaves, TypeOK, PlacesOK, ClientsFollow
    <2> QED
      BY <2>1, <2>2
  <1>2. Busy(c) /\ pending[c] = Nobody
    BY <1>0, <1>1 DEF Busy, Leaves, C_Chair, ClientsFollow
  <1>3. main[Barber] \notin {"B_invite", "B_sit_wait"}
    BY <1>0, <1>1, <1>2 DEF ShopInv, Invited, Leaves, ClientsFollow
  <1>4. \A d \in Clients : InTheChair(d) <=> d = c
    BY <1>2, <1>3 DEF ShopInv, OneBusy, InTheChair, Busy, C_Chair
  <1>5. \A d \in Clients : ~ InTheChair(d)'
    <2>1. ~ InTheChair(c)'
      BY <1>0, <1>1, <1>2, <1>3, OthersSitStill DEF InTheChair
    <2> QED
      BY <1>0, <1>1, <1>4, <2>1, OthersSitStill
  <1>6. Chair = {c} /\ Chair' = {}
    BY <1>4, <1>5 DEF Chair
  <1>7. Cuts' = [Cuts EXCEPT ![c] = @ + 1]
    <2>1. ASSUME NEW d \in Clients
          PROVE  Shaves[d] - noOfShaves'[d] + shaved'[d] =
                 IF d = c THEN Shaves[d] - noOfShaves[d] + shaved[d] + 1
                 ELSE Shaves[d] - noOfShaves[d] + shaved[d]
      <3>1. Shaves[d] \in Int /\ noOfShaves[d] \in Int /\ shaved[d] \in {0, 1}
        BY <1>0 DEF TypeOK
      <3>2. CASE C_Leave(c)
        <4>1. noOfShaves'[d] = IF d = c THEN noOfShaves[d] - 1 ELSE noOfShaves[d]
          BY <1>0, <3>2 DEF C_Leave, TypeOK
        <4>2. shaved'[d] = shaved[d]
          BY <3>2 DEF C_Leave
        <4> QED
          BY <3>1, <4>1, <4>2
      <3>3. CASE S_Leave(c)
        <4>1. shaved[c] = 0
          BY <1>0, <3>3, <3>1, ClientGoes DEF GoesOn, ClientsFollow
        <4>2. shaved'[d] = IF d = c THEN 1 ELSE shaved[d]
          BY <1>0, <3>3 DEF S_Leave, TypeOK
        <4>3. noOfShaves'[d] = noOfShaves[d]
          BY <3>3 DEF S_Leave
        <4> QED
          BY <3>1, <4>1, <4>2, <4>3
      <3> QED
        BY <3>2, <3>3
    <2> QED
      BY <2>1 DEF Cuts
  <1> QED
    BY <1>1, <1>6, <1>7 DEF BS!Leave, Chair, Cuts

(* Nothing else that a client does shows.                                   *)
LEMMA ClientStutters ==
    ASSUME IInv, NEW c \in Clients, AnyClientStep(c),
           ~ \E room \in Nat : SitDown(c, room), ~ C_WakeUp(c), ~ C_Leave(c), ~ S_Leave(c)
    PROVE  UNCHANGED BS!bsVars
  <1>0. TypeOK /\ ClientsFollow /\ c \in Processes
    BY DEF IInv, Processes
  <1>1. UNCHANGED queue
    BY ClientGoes
    DEF AnyClientStep, Else, C_Again, C_FreeSeat, C_CantSend, C_Shaved, C_NoFreeSeats,
        S_Invited, shop
  <1>2. InTheChair(c)' <=> InTheChair(c)
    <2>1. UNCHANGED customer /\ main'[Barber] = main[Barber]
      BY OthersSitStill
    <2>2. CASE S_Invited(c)
      <3>1. pending[c] # Nobody /\ handler'[c] = "S_sit"
        BY <1>0, <2>2, HandledInPlace DEF S_Invited, TypeOK, PlacesOK
      <3> QED
        BY <3>1 DEF InTheChair
    <2>3. CASE S_Sit(c) \/ S_ShaveWait(c)
      <3>1. PICK from \in S_Places, to \in S_Places : GoesOn(c, from, to)
        BY <2>3, ClientGoes DEF S_Places
      <3>2. handler[c] # "none" /\ handler'[c] # "none"
        BY <1>0, <3>1 DEF GoesOn, S_Places, TypeOK, PlacesOK
      <3> QED
        BY <3>2 DEF InTheChair
    <2>4. CASE C_WakeWait(c) \/ C_UnlockChair(c) \/ C_InChair(c) \/ C_ShaveWait(c)
      <3>1. PICK from \in C_Chair, to \in C_Chair : Goes(c, from, to)
        BY <2>4, ClientGoes DEF C_Chair
      <3>2. main[c] \in C_Chair /\ main'[c] \in C_Chair
        BY <1>0, <3>1 DEF Goes, TypeOK, PlacesOK
      <3> QED
        BY <3>2 DEF InTheChair, C_Chair
    <2>5. CASE \/ C_Again(c) \/ C_Lock(c) \/ C_FreeSeat(c) \/ C_CantSend(c)
               \/ C_UnlockFailed(c) \/ C_UnlockQueued(c) \/ C_UnlockFull(c)
               \/ C_Shaved(c) \/ C_NoFreeSeats(c)
      <3>1. PICK from \in C_Places \ C_Chair, to \in C_Places \ C_Chair : Goes(c, from, to)
        BY <2>5, ClientGoes DEF C_Places, C_Locked, C_Chair
      <3>2. main[c] \notin C_Chair /\ main'[c] \notin C_Chair /\ UNCHANGED handler
        BY <1>0, <3>1 DEF Goes, TypeOK, PlacesOK
      <3>3. UNCHANGED pending
        BY <2>5, ClientGoes DEF Else, C_Again, C_FreeSeat, C_CantSend, C_Shaved, C_NoFreeSeats
      <3> QED
        BY <2>1, <3>2, <3>3 DEF InTheChair, C_Chair
    <2> QED
      BY <2>2, <2>3, <2>4, <2>5 DEF AnyClientStep
  <1>3. Cuts' = Cuts
    <2>1. CASE C_Shaved(c)
      <3>1. /\ shaved[c] # 0 /\ shaved' = [shaved EXCEPT ![c] = 0]
            /\ noOfShaves' = [noOfShaves EXCEPT ![c] = @ - 1]
        BY <2>1 DEF C_Shaved
      <3>2. ASSUME NEW d \in Clients
            PROVE  Shaves[d] - noOfShaves'[d] + shaved'[d] = Shaves[d] - noOfShaves[d] + shaved[d]
        <4>1. Shaves[d] \in Int /\ noOfShaves[d] \in Int /\ shaved[d] \in {0, 1}
          BY <1>0, BarberAssumption DEF TypeOK
        <4>2. CASE d = c
          <5>1. noOfShaves'[d] = noOfShaves[d] - 1 /\ shaved'[d] = 0 /\ shaved[d] = 1
            BY <1>0, <3>1, <4>1, <4>2 DEF TypeOK
          <5> QED
            BY <4>1, <5>1
        <4>3. CASE d # c
          BY <1>0, <3>1, <4>3 DEF TypeOK
        <4> QED
          BY <4>2, <4>3
      <3> QED
        BY <3>2 DEF Cuts
    <2>2. CASE ~ C_Shaved(c)
      <3>1. UNCHANGED <<shaved, noOfShaves>>
        BY <2>2
        DEF AnyClientStep, C_Again, C_Lock, C_FreeSeat, C_CantSend, C_UnlockFailed,
            C_UnlockQueued, C_UnlockFull, C_NoFreeSeats, C_WakeWait, C_UnlockChair,
            C_InChair, C_ShaveWait, S_Invited, S_Sit, S_ShaveWait, shaves
      <3> QED
        BY <3>1, CutsKept
    <2> QED
      BY <2>1, <2>2
  <1>4. Chair' = Chair
    BY <1>2, OthersSitStill, ChairKept
  <1> QED
    BY <1>1, <1>3, <1>4 DEF BS!bsVars, Chair, Cuts

(* A client that is stopped before it has come to the chair keeps it taken. *)
LEMMA StopStutters ==
    ASSUME IInv, ShopInv, ~ Closing, NEW p \in Processes, Stops(p)
    PROVE  UNCHANGED BS!bsVars
  <1>0. TypeOK /\ ClientsFollow /\ Barber \notin Clients
    BY BarberAssumption DEF IInv
  <1>1. /\ UNCHANGED <<shop, main, handler, customer, shaves>>
        /\ \A q \in Processes : pending'[q] = pending[q] \/ pending'[q] = Nobody
    BY <1>0, StopAlone
  <1>2. ASSUME NEW c \in Clients PROVE InTheChair(c)' <=> InTheChair(c)
    <2>1. pending'[c] = pending[c] \/ pending'[c] = Nobody
      BY <1>1 DEF Processes
    <2>2. CASE pending[c] = Nobody
      BY <1>1, <2>1, <2>2 DEF InTheChair
    <2>3. CASE pending[c] # Nobody
      <3>1. Busy(c) /\ handler[c] = "none" /\ main[c] = "C_waiting"
        BY <1>0, <2>3 DEF Busy, ClientsFollow
      <3>2. handler[Barber] = "none"
        BY <3>1 DEF ShopInv, WokenUp
      <3>3. awake # 0 /\ main[Barber] \notin {"B_lock", "B_receive", "B_asleep"}
        BY <3>1, <3>2 DEF ShopInv, NoCustomer
      <3>4. main[Barber] \in
              {"B_invite", "B_sit_wait", "B_unlock", "B_tell_done", "B_leave_wait"}
        BY <1>0, <3>3 DEF TypeOK, PlacesOK, B_Places, B_Locked, Closing, ShopInv, Asleep
      <3>5. main[Barber] \in {"B_invite", "B_sit_wait"} /\ customer = c
        BY <3>1, <3>4 DEF ShopInv, Invited
      <3> QED
        BY <1>1, <2>3, <3>5 DEF InTheChair
    <2> QED
      BY <2>2, <2>3
  <1>3. Chair' = Chair /\ Cuts' = Cuts
    BY <1>1, <1>2, ChairKept, CutsKept DEF shaves
  <1> QED
    BY <1>1, <1>3 DEF BS!bsVars, Chair, Cuts, shop

(* The shop opens as that of BarberShop does.                               *)
LEMMA InitImplements == Init => BS!BSInit
  <1> SUFFICES ASSUME Init PROVE BS!BSInit
    OBVIOUS
  <1>1. \A c \in Clients : main[c] = "C_again" /\ handler[c] = "none" /\ pending[c] = Nobody
    BY BarberAssumption DEF Init, Processes
  <1>2. main[Barber] = "B_lock"
    BY DEF Init, Processes
  <1>3. Chair = {}
    BY <1>1, <1>2 DEF Chair, InTheChair
  <1>4. Cuts = [c \in Clients |-> 0]
    BY BarberAssumption DEF Init, Cuts
  <1> QED
    BY <1>3, <1>4 DEF Init, BS!BSInit, Chair, Cuts

(* Every step is one of BarberShop, or none there, or closes the shop.      *)
LEMMA StepImplements ==
    IInv /\ (AnyStep \/ UNCHANGED vars) => [BS!BSNext \/ Closing']_(BS!bsVars)
  <1> SUFFICES ASSUME IInv, AnyStep \/ UNCHANGED vars, ~ Closing'
               PROVE  BS!BSNext \/ UNCHANGED BS!bsVars
    OBVIOUS
  <1>1. CASE UNCHANGED vars
    BY <1>1 DEF vars, shop, places, shaves, BS!bsVars, InTheChair
  <1>2. CASE AnyStep
    <2>1. TypeOK /\ TypeOK' /\ ~ Closing
      BY <1>2, NextTypeOK, ClosedForGood DEF IInv
    <2>2. ShopInv
      BY <2>1 DEF IInv, TypeOK
    <2>3. CASE AnyBarberStep
      BY <2>1, <2>2, <2>3, BarberImplements DEF BS!BSNext
    <2>4. ASSUME NEW c \in Clients, AnyClientStep(c)
          PROVE  BS!BSNext \/ UNCHANGED BS!bsVars
      <3>1. CASE \E room \in Nat : SitDown(c, room)
        BY <2>2, <3>1, ClientSitsDown DEF BS!BSNext
      <3>2. CASE C_WakeUp(c)
        BY <2>2, <3>2, ClientWakes DEF BS!BSNext
      <3>3. CASE C_Leave(c) \/ S_Leave(c)
        BY <2>2, <3>3, ClientLeaves DEF BS!BSNext
      <3> QED
        BY <2>4, <3>1, <3>2, <3>3, ClientStutters
    <2>5. ASSUME NEW p \in Processes, Stops(p) PROVE UNCHANGED BS!bsVars
      BY <2>1, <2>2, <2>5, StopStutters
    <2> QED
      BY <1>2, <2>3, <2>4, <2>5 DEF AnyStep
  <1> QED
    BY <1>1, <1>2

(* Both shops are the shop of BarberShop until they close: one client in    *)
(* the chair, and the clients that wait are taken in order, whoever is      *)
(* stopped at whatever moment.                                              *)
THEOREM Refinement ==
    (Spec => ImplementsBarberShop) /\ (P_Spec => ImplementsBarberShop)
  <1>1. IInv /\ [Next]_vars => [BS!BSNext \/ Closing']_(BS!bsVars)
    BY StepImplements, SystemVSteps
  <1>2. IInv /\ [P_Next]_vars => [BS!BSNext \/ Closing']_(BS!bsVars)
    BY StepImplements, PosixSteps
  <1>3. Spec => ImplementsBarberShop
    BY <1>1, InitImplements, Invariance, PTL DEF Spec, ImplementsBarberShop
  <1>4. P_Init => Init
    BY DEF P_Init
  <1>5. P_Spec => ImplementsBarberShop
    BY <1>2, <1>4, InitImplements, PosixInvariance, PTL DEF P_Spec, ImplementsBarberShop
  <1> QED
    BY <1>3, <1>5
================================================================================
