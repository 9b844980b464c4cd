------------------------------ MODULE BarberShop ------------------------------
(****************************************************************************)
(* What the barber and the clients of cw07 promise together: clients wait   *)
(* on a limited number of seats, the barber shaves one of them at a time in *)
(* the order in which they sat down, and a client who finds him asleep, and *)
(* so nobody waiting, takes the chair at once.                              *)
(****************************************************************************)
EXTENDS Naturals, Sequences

CONSTANTS Clients,
          Seats,     \* seats to wait on
          Shaves     \* shaves that each client comes for

VARIABLES seats,     \* clients waiting, in the order in which they sat down
          chair,     \* who is in the barber's chair: at most one client
          cuts       \* shaves each client has had

bsVars == <<seats, chair, cuts>>

BSInit == seats = <<>> /\ chair = {} /\ cuts = [c \in Clients |-> 0]

(* Client c comes in for one more shave.                                    *)
Comes(c) ==
    /\ cuts[c] < Shaves[c]
    /\ c \notin chair
    /\ \A i \in 1..Len(seats) : seats[i] # c

TakeSeat(c) ==
    /\ Comes(c)
    /\ Len(seats) < Seats
    /\ seats' = Append(seats, c)
    /\ UNCHANGED <<chair, cuts>>

WakeBarber(c) ==
    /\ Comes(c)
    /\ chair = {} /\ seats = <<>>
    /\ chair' = {c}
    /\ UNCHANGED <<seats, cuts>>

Invite ==
    /\ chair = {} /\ seats # <<>>
    /\ chair' = {Head(seats)}
    /\ seats' = Tail(seats)
    /\ UNCHANGED cuts

Leave(c) ==
    /\ c \in chair
    /\ chair' = {}
    /\ cuts' = [cuts EXCEPT ![c] = @ + 1]
    /\ UNCHANGED seats

BSNext ==
    \/ Invite
    \/ \E c \in Clients : TakeSeat(c) \/ WakeBarber(c) \/ Leave(c)

BSSpec == BSInit /\ [][BSNext]_bsVars
=============================================================================
