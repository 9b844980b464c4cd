--------------------------- MODULE SignalCounting ---------------------------
(****************************************************************************)
(* cw04/zad3: a parent sends L signals to its child, the child counts them  *)
(* and echoes each one, the parent counts the echoes; then the parent tells *)
(* the child to end and reports its counts when the child has ended.        *)
(*   type 1  all at once, SIGUSR1: a standard signal, merged while pending  *)
(*   type 2  the next signal is sent by the handler of the echo             *)
(*   type 3  all at once, SIGRTMIN: a real-time signal, queued              *)
(* The signal that ends the child and SIGCHLD have handlers of their own    *)
(* that exit, and can come while the counting handler is at work: what that *)
(* handler had still to do is then never done.                              *)
(****************************************************************************)
EXTENDS Naturals

CONSTANTS Types,               \* the types of run that are tried
          Ls,                  \* the numbers of signals that are tried
          Endless              \* bound of the exchange that never ends: see P_Resend

ASSUME SignalConstants == Types \subseteq 1..3 /\ Ls \subseteq Nat /\ Endless \in Nat

VARIABLES type, L,             \* the arguments
          at,                  \* where main of the parent is
          handler,             \* its counting handler: none, count, resend
          masked,              \* the echo is blocked while it reports
          parent,              \* running, reporting, reported, interrupted
          child,               \* the child's main or handler: pausing, count, echo
          child_ended,
          to_child, to_parent, \* signals pending
          end_to_child,        \* SIGUSR2 (SIGRTMAX) is pending
          sentToChild, recByChild, recByPar

counts == <<sentToChild, recByChild, recByPar>>
wires  == <<to_child, to_parent, end_to_child>>
here   == <<at, handler, masked, parent>>
there  == <<child, child_ended>>
args   == <<type, L>>
vars   == <<args, here, there, wires, counts>>

Init ==
    /\ type \in Types /\ L \in Ls
    /\ at = "send" /\ handler = "none" /\ masked = FALSE /\ parent = "running"
    /\ child = "pausing" /\ child_ended = FALSE
    /\ to_child = 0 /\ to_parent = 0 /\ end_to_child = FALSE
    /\ sentToChild = 0 /\ recByChild = 0 /\ recByPar = 0

-----------------------------------------------------------------------------
(* Seeded fault: every signal is merged with a pending one.                 *)
OneMore_Merged(n) == 1

(* kill: n signals are pending and one more is sent.                        *)
OneMore(n) == IF type = 3 THEN n + 1 ELSE 1

(* main of the parent runs when no handler does.                            *)
InMain(place) == parent = "running" /\ handler = "none" /\ at = place

(* Types 1 and 3: one turn of the loop that sends.                          *)
P_Send ==
    /\ InMain("send") /\ type # 2 /\ sentToChild < L
    /\ to_child' = OneMore(to_child)
    /\ sentToChild' = sentToChild + 1
    /\ UNCHANGED <<args, here, there, to_parent, end_to_child, recByChild, recByPar>>

(* Type 2: only the first signal is sent by main, and it is not counted     *)
(* before its echo.                                                         *)
P_SendFirst ==
    /\ InMain("send") /\ type = 2
    /\ to_child' = OneMore(to_child)
    /\ at' = "wait"
    /\ UNCHANGED <<args, handler, masked, parent, there, to_parent, end_to_child,
                   counts>>

(* Seeded fault: main of type 2 does not wait for the echoes.               *)
P_SendEnd_NoWait ==
    /\ InMain(IF type = 2 THEN "wait" ELSE "send")
    /\ type # 2 => sentToChild = L
    /\ end_to_child' = TRUE
    /\ at' = "pause"
    /\ UNCHANGED <<args, handler, masked, parent, there, to_child, to_parent, counts>>

P_SendEnd ==
    /\ InMain(IF type = 2 THEN "wait" ELSE "send")
    /\ sentToChild = L
    /\ end_to_child' = TRUE
    /\ at' = "pause"
    /\ UNCHANGED <<args, handler, masked, parent, there, to_child, to_parent, counts>>

(* An echo is delivered to the parent, also while catchSIGCHLD sleeps.      *)
P_Catch ==
    /\ parent \in {"running", "reporting"} /\ ~ masked
    /\ handler = "none" /\ to_parent > 0
    /\ to_parent' = to_parent - 1
    /\ handler' = "count"
    /\ UNCHANGED <<args, at, masked, parent, there, to_child, end_to_child, counts>>

(* catchParentUSR1, and the first line of catchParent2USR1.                 *)
P_Count ==
    /\ parent \in {"running", "reporting"} /\ ~ masked
    /\ handler = "count"
    /\ recByPar' = recByPar + 1
    /\ handler' = IF type = 2 THEN "resend" ELSE "none"
    /\ UNCHANGED <<args, at, masked, parent, there, wires, sentToChild, recByChild>>

(* The rest of catchParent2USR1.  With L = 0 the count is past L from the   *)
(* first echo on, and the exchange never stops: it is cut at Endless.       *)
P_Resend ==
    /\ parent \in {"running", "reporting"} /\ ~ masked
    /\ handler = "resend"
    /\ L = 0 => sentToChild < Endless
    /\ sentToChild' = sentToChild + 1
    /\ to_child' = IF sentToChild' # L THEN OneMore(to_child) ELSE to_child
    /\ handler' = "none"
    /\ UNCHANGED <<args, at, masked, parent, there, to_parent, end_to_child,
                   recByChild, recByPar>>

(* catchSIGCHLD.  It may interrupt the counting handler, whose signal then  *)
(* stays blocked; its own mask is uninitialised and may block it as well.   *)
P_CatchChild ==
    /\ parent = "running" /\ child_ended
    /\ parent' = "reporting"
    /\ masked' \in IF handler = "none" THEN BOOLEAN ELSE {TRUE}
    /\ UNCHANGED <<args, at, handler, there, wires, counts>>

(* Everything deliverable is delivered before it goes on to print and exit. *)
P_Report ==
    /\ parent = "reporting"
    /\ masked \/ (handler = "none" /\ to_parent = 0)
    /\ parent' = "reported"
    /\ UNCHANGED <<args, at, handler, masked, there, wires, counts>>

(* catchSIGINT: the end signal goes to the whole group, which ends the      *)
(* parent too, wherever it was.                                             *)
P_Interrupt ==
    /\ parent \in {"running", "reporting"}
    /\ parent' = "interrupted"
    /\ end_to_child' = TRUE
    /\ UNCHANGED <<args, at, handler, masked, there, to_child, to_parent, counts>>

-----------------------------------------------------------------------------
(* catchChildUSR1: entered, counting, echoing.                              *)

C_Catch ==
    /\ ~ child_ended /\ child = "pausing" /\ to_child > 0
    /\ to_child' = to_child - 1
    /\ child' = "count"
    /\ UNCHANGED <<args, here, child_ended, to_parent, end_to_child, counts>>

C_Count ==
    /\ ~ child_ended /\ child = "count"
    /\ recByChild' = recByChild + 1
    /\ child' = "echo"
    /\ UNCHANGED <<args, here, child_ended, wires, sentToChild, recByPar>>

(* Seeded fault: the handler does not echo.                                 *)
C_Echo_Silent ==
    /\ ~ child_ended /\ child = "echo"
    /\ child' = "pausing"
    /\ UNCHANGED <<args, here, child_ended, wires, counts>>

C_Echo ==
    /\ ~ child_ended /\ child = "echo"
    /\ to_parent' = OneMore(to_parent)
    /\ child' = "pausing"
    /\ UNCHANGED <<args, here, child_ended, to_child, end_to_child, counts>>

(* catchUSR2: nothing blocks it, so the child can be anywhere.              *)
C_End ==
    /\ ~ child_ended /\ end_to_child
    /\ child_ended' = TRUE
    /\ end_to_child' = FALSE
    /\ UNCHANGED <<args, here, child, to_child, to_parent, counts>>

Parent == P_Send \/ P_SendFirst \/ P_SendEnd \/ P_Catch \/ P_Count \/ P_Resend
          \/ P_CatchChild \/ P_Report
Child  == C_Catch \/ C_Count \/ C_Echo \/ C_End
Next   == Parent \/ Child \/ P_Interrupt
Spec   == Init /\ [][Next]_vars

(* Both processes are scheduled, and a signal that stays pending is         *)
(* delivered.  Nobody has to press Ctrl-C.                                  *)
FairSpec == Spec /\ WF_vars(Parent) /\ WF_vars(Child) /\ WF_vars(C_End)

-----------------------------------------------------------------------------
(* Properties                                                               *)

One(P) == IF P THEN 1 ELSE 0

SignalsTypeOK ==
    /\ type \in Types /\ L \in Ls
    /\ at \in {"send", "wait", "pause"}
    /\ handler \in {"none", "count", "resend"}
    /\ parent \in {"running", "reporting", "reported", "interrupted"}
    /\ child \in {"pausing", "count", "echo"}
    /\ masked \in BOOLEAN /\ child_ended \in BOOLEAN /\ end_to_child \in BOOLEAN
    /\ to_child \in Nat /\ to_parent \in Nat
    /\ sentToChild \in Nat /\ recByChild \in Nat /\ recByPar \in Nat

Arrived == recByChild + One(child = "count")
Echoed  == recByChild - One(child = "echo")
Heard   == recByPar + One(handler = "count")

(* Sent all at once, signals are never invented by a merge or an interrupted *)
(* handler, and real-time signals are never lost either: each one sent is    *)
(* pending, counted or in the hands of a handler, and so is each echo.       *)
SignalsAccounted ==
    type # 2 =>
        /\ to_child + Arrived <= sentToChild
        /\ to_parent + Heard <= Echoed
        /\ type = 3 => to_child + Arrived = sentToChild /\ to_parent + Heard = Echoed

(* Type 2 is as exact as type 3, although its signals could be merged: there *)
(* is one signal under way until the L-th echo is counted, so that the end   *)
(* meets both processes idle and the report has L three times.               *)
PingPongReportsAll ==
    type = 2 /\ L > 0 /\ parent = "reported" =>
        sentToChild = L /\ recByChild = L /\ recByPar = L

(* Both processes end, whatever a merge, an interruption of a handler or a   *)
(* Ctrl-C takes away: no one waits for a signal that was lost.  (Type 2 with *)
(* L = 0 never ends when its first echo comes before main looks.)            *)
BothEnd ==
    (type = 2 => L > 0) => <>(child_ended /\ parent \in {"reported", "interrupted"})
=============================================================================
