-------------------------------- MODULE Barber --------------------------------
(****************************************************************************)
(* cw07/zad1: the sleeping barber.  The barber and the clients are          *)
(* processes that share four integers (shmAddr: awake, seats, waiting, pid  *)
(* of the barber), a message queue with the pids of the waiting clients and *)
(* three semaphores: "lock" (0) is the lock of the integers and the queue,  *)
(* "toBarber" (1) carries the clients' messages to the barber, "toClient"   *)
(* (2) his to them.  A client who finds the barber asleep wakes him with    *)
(* SIGUSR2 and is shaved by his signal handler; a waiting client is invited *)
(* with SIGUSR1 and has himself shaved in his.  The result of semop is      *)
(* never looked at: a wait that a signal interrupts, or one on semaphores   *)
(* that the barber has removed, counts as done.                             *)
(*                                                                          *)
(* Barber and clients are processes of the same kind here: each is at a     *)
(* place of its main or, while it runs its signal handler (SIGUSR2 of the   *)
(* barber, SIGUSR1 of a client), at a place of that.  Places: B_ and H_ of  *)
(* the barber's main and handler, C_ and S_ of a client's.                  *)
(****************************************************************************)
EXTENDS Integers, Sequences, FiniteSets

CONSTANTS Clients,
          Barber,
          Nobody,
          Seats,       \* argv[1] of the barber
          Shaves,      \* argv[2] of the program that forked each client
          MaxQueued,   \* messages that the System V queue can hold
          MayStop      \* processes that may get SIGINT (or SIGTERM)

Processes == Clients \union {Barber}

ASSUME BarberAssumption ==
    /\ Barber \notin Clients /\ Nobody \notin Processes
    /\ Seats \in Nat \ {0} /\ Shaves \in [Clients -> Nat] /\ MaxQueued \in Nat \ {0}
    /\ MayStop \subseteq Processes

VARIABLES awake, waiting,  \* shmAddr[0], shmAddr[2]
          queue,           \* pids in the message queue
          sem,             \* values of the semaphores
          removed,         \* which of "queue" and "sem" the barber has removed
          main, handler,   \* place of each process in its main and its handler
          pending,         \* sender of the signal that is pending for a process
          gone,            \* processes that SIGINT has ended
          customer,        \* recMsg.pid, or info->si_pid in the handler
          shaved, noOfShaves,
          served           \* history variable: shaves the barber has done

shop   == <<awake, waiting, queue, sem, removed>>
places == <<main, handler, pending, gone, customer>>
shaves == <<shaved, noOfShaves, served>>
vars   == <<shop, places, shaves>>

Init ==
    /\ awake = 1 /\ waiting = 0 /\ queue = <<>>
    /\ sem = [s \in {"lock", "toBarber", "toClient"} |-> IF s = "lock" THEN 1 ELSE 0]
    /\ removed = {}
    /\ main = [p \in Processes |-> IF p = Barber THEN "B_lock" ELSE "C_again"]
    /\ handler = [p \in Processes |-> "none"]
    /\ pending = [p \in Processes |-> Nobody]
    /\ gone = {} /\ customer = Nobody
    /\ shaved = [c \in Clients |-> 0]
    /\ noOfShaves = Shaves
    /\ served = [c \in Clients |-> 0]

-----------------------------------------------------------------------------
(* Process p runs from one place to another, in its handler if that has     *)
(* begun.                                                                   *)
Run(p, from, to) ==
    /\ p \notin gone
    /\ \/ /\ handler[p] = "none" /\ main[p] = from
          /\ main' = [main EXCEPT ![p] = to] /\ UNCHANGED handler
       \/ /\ handler[p] # "none" /\ handler[p] = from
          /\ handler' = [handler EXCEPT ![p] = to] /\ UNCHANGED main
    /\ UNCHANGED gone

(* semop with sem_op = -1 and 1, which only fail once the semaphores are    *)
(* removed.  As far as the place goes these steps change nothing else.      *)
Wait(p, s, from, to) ==
    /\ Run(p, from, to)
    /\ IF "sem" \in removed THEN UNCHANGED sem
       ELSE sem[s] > 0 /\ sem' = [sem EXCEPT ![s] = @ - 1]
    /\ UNCHANGED <<awake, waiting, queue, removed, pending, customer>>

Post(p, s, from, to) ==
    /\ Run(p, from, to)
    /\ sem' = IF "sem" \in removed THEN sem ELSE [sem EXCEPT ![s] = @ + 1]
    /\ UNCHANGED <<awake, waiting, queue, removed, pending, customer>>

Ended(p) == p \in gone \/ main[p] \in {"finished", "failed"}

(* kill: lost on a process that has ended, merged with a pending signal.    *)
Kill(p, from) ==
    pending' = IF Ended(p) \/ pending[p] # Nobody THEN pending
               ELSE [pending EXCEPT ![p] = from]

(* Where a process goes on whose semop a signal handler has interrupted.    *)
AfterWait(place) ==
    {place} \union
    CASE place = "B_lock"       -> {"B_receive"}
      [] place = "B_sit_wait"   -> {"B_unlock"}
      [] place = "B_leave_wait" -> {"B_lock"}
      [] place = "C_lock"       -> {"C_look"}
      [] place = "C_wake_wait"  -> {"C_unlock_chair"}
      [] place = "C_shave_wait" -> {"C_leave"}
      [] OTHER                  -> {}

(* A signal is handled, unless its handler is running.                      *)
Handle(p, place) ==
    /\ p \notin gone /\ pending[p] # Nobody /\ handler[p] = "none"
    /\ main[p] # "closing_masked"
    /\ pending' = [pending EXCEPT ![p] = Nobody]
    /\ handler' = [handler EXCEPT ![p] = place]
    /\ \E next \in AfterWait(main[p]) : main' = [main EXCEPT ![p] = next]
    /\ UNCHANGED gone

-----------------------------------------------------------------------------
(* The barber's main.                                                       *)

(* Seeded fault: the barber does not lock the queue.                        *)
B_Lock_Not == Run(Barber, "B_lock", "B_receive") /\ UNCHANGED <<shop, pending, customer, shaves>>

B_Lock == Wait(Barber, "lock", "B_lock", "B_receive") /\ UNCHANGED shaves

(* Seeded fault: the customer is not counted off.                           *)
B_Receive_Uncounted ==
    /\ Run(Barber, "B_receive", "B_invite")
    /\ queue # <<>> /\ customer' = Head(queue) /\ queue' = Tail(queue)
    /\ UNCHANGED <<waiting, awake, sem, removed, pending, shaves>>

B_Receive ==
    /\ Run(Barber, "B_receive", "B_invite")
    /\ queue # <<>> /\ customer' = Head(queue) /\ queue' = Tail(queue)
    /\ waiting' = waiting - 1
    /\ UNCHANGED <<awake, sem, removed, pending, shaves>>

B_Invite ==
    /\ Run(Barber, "B_invite", "B_sit_wait")
    /\ Kill(customer, Barber)
    /\ UNCHANGED <<shop, customer, shaves>>

(* The lock is kept until the client sits.                                  *)
B_SitWait   == Wait(Barber, "toBarber", "B_sit_wait", "B_unlock") /\ UNCHANGED shaves
B_Unlock    == Post(Barber, "lock", "B_unlock", "B_tell_done") /\ UNCHANGED shaves
B_TellDone  == /\ Post(Barber, "toClient", "B_tell_done", "B_leave_wait")
               /\ served' = [served EXCEPT ![customer] = @ + 1]
               /\ UNCHANGED <<shaved, noOfShaves>>
B_LeaveWait == Wait(Barber, "toBarber", "B_leave_wait", "B_lock") /\ UNCHANGED shaves

(* Nobody is there: the barber goes to sleep.                               *)
B_NobodyThere ==
    /\ Run(Barber, "B_receive", "B_unlock_asleep")
    /\ queue = <<>> /\ awake' = 0
    /\ UNCHANGED <<waiting, queue, sem, removed, pending, customer, shaves>>

B_UnlockAsleep == Post(Barber, "lock", "B_unlock_asleep", "B_asleep") /\ UNCHANGED shaves

B_WakesUp ==
    /\ Run(Barber, "B_asleep", "B_lock")
    /\ awake # 0
    /\ UNCHANGED <<shop, pending, customer, shaves>>

(* catchSIGUSR2: the client that woke him up is shaved.                     *)
H_WokenUp ==
    /\ Handle(Barber, "H_confirm")
    /\ customer' = pending[Barber] /\ awake' = 1
    /\ UNCHANGED <<waiting, queue, sem, removed, shaves>>

H_Confirm  == Post(Barber, "toClient", "H_confirm", "H_sit_wait") /\ UNCHANGED shaves
H_SitWait  == Wait(Barber, "toBarber", "H_sit_wait", "H_tell_done") /\ UNCHANGED shaves
H_TellDone == /\ Post(Barber, "toClient", "H_tell_done", "H_leave_wait")
              /\ served' = [served EXCEPT ![customer] = @ + 1]
              /\ UNCHANGED <<shaved, noOfShaves>>

(* Seeded fault: the handler returns before the client has left.            *)
H_LeaveWait_Not ==
    Run(Barber, "H_leave_wait", "none") /\ UNCHANGED <<shop, pending, customer, shaves>>

H_LeaveWait == Wait(Barber, "toBarber", "H_leave_wait", "none") /\ UNCHANGED shaves

(* catchSIGINT and catchSIGTERM of the barber never return.  SIGUSR2 stays  *)
(* blocked when its handler is what they interrupt.                         *)
Closing == main[Barber] \in {"closing", "closing_masked"}

BarberStops ==
    /\ Barber \in MayStop /\ ~ Closing
    /\ main' = [main EXCEPT ![Barber] =
                   IF handler[Barber] = "none" THEN "closing" ELSE "closing_masked"]
    /\ handler' = [handler EXCEPT ![Barber] = "none"]
    /\ UNCHANGED <<gone, shop, pending, customer, shaves>>

(* closeRes, step by step                                                   *)
B_RemoveQueue ==
    /\ Closing /\ Run(Barber, main[Barber], main[Barber])
    /\ "queue" \notin removed
    /\ removed' = removed \union {"queue"} /\ queue' = <<>>
    /\ UNCHANGED <<awake, waiting, sem, pending, customer, shaves>>

B_RemoveSem ==
    /\ Closing /\ handler[Barber] = "none" /\ Barber \notin gone
    /\ "queue" \in removed
    /\ removed' = removed \union {"sem"} /\ sem' = [s \in DOMAIN sem |-> 0]
    /\ gone' = gone \union {Barber} /\ pending' = [pending EXCEPT ![Barber] = Nobody]
    /\ UNCHANGED <<awake, waiting, queue, main, handler, customer, shaves>>

-----------------------------------------------------------------------------
(* A client's main.                                                         *)

C_Again(c) ==
    /\ Run(c, "C_again", IF noOfShaves[c] > 0 THEN "C_lock" ELSE "finished")
    /\ UNCHANGED <<shop, pending, customer, shaves>>

C_Lock(c) == Wait(c, "lock", "C_lock", "C_look") /\ UNCHANGED shaves

(* The barber is awake and a seat is free.                                  *)
C_FreeSeat(c) ==
    /\ Run(c, "C_look", "C_sit")
    /\ awake # 0 /\ waiting < Seats /\ waiting' = waiting + 1
    /\ UNCHANGED <<awake, queue, sem, removed, pending, customer, shaves>>

(* The client waits for room in the message queue.                          *)
SitDown(c, room) ==
    /\ Run(c, "C_sit", "C_unlock_queued")
    /\ "queue" \notin removed /\ Len(queue) < room
    /\ queue' = Append(queue, c)
    /\ UNCHANGED <<awake, waiting, sem, removed, pending, customer, shaves>>

C_Sit(c) == SitDown(c, MaxQueued)

(* msgsnd fails on a removed queue: the client unlocks and gives up.        *)
C_CantSend(c) ==
    /\ Run(c, "C_sit", "C_unlock_failed")
    /\ "queue" \in removed
    /\ UNCHANGED <<shop, pending, customer, shaves>>

C_UnlockFailed(c) == Post(c, "lock", "C_unlock_failed", "failed") /\ UNCHANGED shaves
C_UnlockQueued(c) == Post(c, "lock", "C_unlock_queued", "C_waiting") /\ UNCHANGED shaves

(* The busy wait for the handler to have done its work.                     *)
C_Shaved(c) ==
    /\ Run(c, "C_waiting", "C_again")
    /\ shaved[c] # 0 /\ shaved' = [shaved EXCEPT ![c] = 0]
    /\ noOfShaves' = [noOfShaves EXCEPT ![c] = @ - 1]
    /\ UNCHANGED <<shop, pending, customer, served>>

C_NoFreeSeats(c) ==
    /\ Run(c, "C_look", "C_unlock_full")
    /\ awake # 0 /\ waiting >= Seats
    /\ UNCHANGED <<shop, pending, customer, shaves>>

C_UnlockFull(c) == Post(c, "lock", "C_unlock_full", "C_again") /\ UNCHANGED shaves

(* The barber is asleep: kill(shmAddr[3], SIGUSR2).                         *)
C_WakeUp(c) ==
    /\ Run(c, "C_look", "C_wake_wait")
    /\ awake = 0 /\ Kill(Barber, c)
    /\ UNCHANGED <<shop, customer, shaves>>

C_WakeWait(c)    == Wait(c, "toClient", "C_wake_wait", "C_unlock_chair") /\ UNCHANGED shaves
C_UnlockChair(c) == Post(c, "lock", "C_unlock_chair", "C_in_chair") /\ UNCHANGED shaves
C_InChair(c)     == Post(c, "toBarber", "C_in_chair", "C_shave_wait") /\ UNCHANGED shaves
C_ShaveWait(c)   == Wait(c, "toClient", "C_shave_wait", "C_leave") /\ UNCHANGED shaves
C_Leave(c)       == /\ Post(c, "toBarber", "C_leave", "C_again")
                    /\ noOfShaves' = [noOfShaves EXCEPT ![c] = @ - 1]
                    /\ UNCHANGED <<shaved, served>>

(* catchSIGUSR1: the client is invited and shaved.                          *)
S_Invited(c) == Handle(c, "S_sit") /\ UNCHANGED <<shop, customer, shaves>>
S_Sit(c)     == Post(c, "toBarber", "S_sit", "S_shave_wait") /\ UNCHANGED shaves

(* Seeded fault: the client leaves without waiting for the end of the shave.*)
S_ShaveWait_Not(c) ==
    Run(c, "S_shave_wait", "S_leave") /\ UNCHANGED <<shop, pending, customer, shaves>>

S_ShaveWait(c) == Wait(c, "toClient", "S_shave_wait", "S_leave") /\ UNCHANGED shaves
S_Leave(c)     == /\ Post(c, "toBarber", "S_leave", "none")
                  /\ shaved' = [shaved EXCEPT ![c] = 1]
                  /\ UNCHANGED <<noOfShaves, served>>

(* catchSIGINT of a client: it exits where it is, and no semaphore is given *)
(* back.                                                                    *)
Stops(p) ==
    /\ p \in MayStop /\ ~ Ended(p)
    /\ gone' = gone \union {p}
    /\ pending' = [pending EXCEPT ![p] = Nobody]
    /\ UNCHANGED <<shop, main, handler, customer, shaves>>

-----------------------------------------------------------------------------
BarberStep ==
    \/ B_Receive   \/ B_Invite      \/ B_SitWait      \/ B_Unlock    \/ B_TellDone
    \/ B_LeaveWait \/ B_NobodyThere \/ B_UnlockAsleep \/ B_WakesUp
    \/ H_WokenUp   \/ H_Confirm     \/ H_SitWait      \/ H_TellDone  \/ H_LeaveWait
    \/ B_RemoveQueue \/ B_RemoveSem

ClientStep(c) ==
    \/ C_Again(c)    \/ C_FreeSeat(c)    \/ C_Sit(c)        \/ C_CantSend(c)
    \/ C_UnlockFailed(c) \/ C_UnlockQueued(c) \/ C_Shaved(c) \/ C_NoFreeSeats(c)
    \/ C_UnlockFull(c) \/ C_WakeUp(c)    \/ C_WakeWait(c)   \/ C_UnlockChair(c)
    \/ C_InChair(c)  \/ C_ShaveWait(c)   \/ C_Leave(c)
    \/ S_Invited(c)  \/ S_Sit(c)         \/ S_ShaveWait(c)  \/ S_Leave(c)

Next ==
    \/ B_Lock \/ BarberStep \/ BarberStops
    \/ \E c \in Clients : C_Lock(c) \/ ClientStep(c) \/ Stops(c)

Spec == Init /\ [][Next]_vars

-----------------------------------------------------------------------------
(* Properties                                                               *)

(* From waking the barber, or being taken from the queue, to leaving.       *)
InTheChair(c) ==
    \/ handler[c] # "none" \/ pending[c] # Nobody
    \/ main[c] \in {"C_wake_wait", "C_unlock_chair", "C_in_chair", "C_shave_wait", "C_leave"}
    \/ main[Barber] \in {"B_invite", "B_sit_wait"} /\ customer = c

BS == INSTANCE BarberShop WITH seats <- queue,
         chair <- {c \in Clients : InTheChair(c)},
         cuts <- [c \in Clients |-> Shaves[c] - noOfShaves[c] + shaved[c]]

(* Barber and clients together are the shop of BarberShop: one client in    *)
(* the chair, and those that wait are taken in order, whichever client      *)
(* stops at whatever moment, until the barber closes the shop.              *)
ImplementsBarberShop == BS!BSInit /\ [][BS!BSNext \/ Closing']_(BS!bsVars)

(* The two counts of the waiting clients agree whenever the lock is free,   *)
(* also when processes are stopped anywhere in the shop.                    *)
WaitingIsQueueLength ==
    sem["lock"] = 1 /\ "queue" \notin removed => waiting = Len(queue)

(* No signal interrupts a wait for a semaphore, whose failure nobody would  *)
(* notice: when a signal is pending, its receiver is in its busy wait.      *)
NoInterruptedWait ==
    \A p \in Processes :
        pending[p] # Nobody /\ ~ Closing
            => handler[p] = "none" /\ main[p] \in {"B_asleep", "C_waiting"}

(* No message is left over on the two semaphores after a shave for the next *)
(* client or the next shave to take for its own.                            *)
NoStaleMessage ==
    /\ main[Barber] \in {"B_lock", "B_receive", "B_asleep"} /\ handler[Barber] = "none"
    /\ \A c \in Clients : ~ InTheChair(c)
    => sem["toBarber"] = 0 /\ sem["toClient"] = 0

(* A client counts a shave off only when the barber has done one for it     *)
(* (client.c:225, "waiting for him to finish"), as long as the semaphores   *)
(* exist; those of the POSIX shop outlive their names.                      *)
ShavesAreReal ==
    "sem" \notin removed =>
        \A c \in Clients : Shaves[c] - noOfShaves[c] + shaved[c] <= served[c]

(* If nobody is stopped, every client gets all its shaves.  And once the    *)
(* barber has removed everything, each client ends, but for the clients     *)
(* that sit in the queue he removed and those that find all seats taken.    *)
EveryoneLeaves ==
    /\ [](gone = {} /\ ~ Closing) => <>(\A c \in Clients : main[c] = "finished")
    /\ "sem" \in removed ~>
          \A c \in Clients :
              Ended(c) \/ main[c] = "C_waiting" \/ (awake # 0 /\ waiting >= Seats)
=============================================================================
