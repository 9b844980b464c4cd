------------------------------ MODULE WorkPermits ------------------------------
(****************************************************************************)
(* cw04/zad2: a parent and N children.  A child asks the parent for work    *)
(* with SIGUSR1 and pauses; from the K-th request on the parent allows them *)
(* with SIGUSR2, the first K in bulk; the work is a real-time signal of a   *)
(* number drawn at random; then the child exits, and when the parent has    *)
(* counted N real-time signals it ends everybody.                           *)
(*                                                                          *)
(* Standard signals are merged while one is pending.  So that none is lost  *)
(* whoever is about to signal takes a semaphore, "flag", and the one who    *)
(* has handled the signal gives it back.                                    *)
(*                                                                          *)
(* The parent's handlers interrupt its main and each other; a handler does  *)
(* not interrupt itself (sa_mask is taken to be empty).                     *)
(****************************************************************************)
EXTENDS Integers, Sequences, FiniteSets

CONSTANTS Children,
          Ks,          \* values of argv[2]
          RealTime     \* the numbers from SIGRTMIN to SIGRTMAX - 1

ASSUME WorkPermitsAssumption ==
    /\ IsFiniteSet(Children) /\ Ks \subseteq Nat
    /\ RealTime # {} /\ {"USR1", "CHLD"} \cap RealTime = {}

N == Cardinality(Children)

VARIABLES flag,        \* the shared semaphore
          K,           \* argv[2]
          n, k,        \* real-time signals and requests counted
          childBuf,    \* who asked before the K-th request
          parent,      \* the place of the parent's main
          frames,      \* the parent's running handlers, the innermost last
          pending,     \* signals pending for the parent
          child,       \* the place of each child's main
          handler,     \* the place of each child in catchUSR2
          allowed,     \* children for which SIGUSR2 is pending
          drawn        \* history variable: numbers drawn, by child

counters   == <<K, n, k, childBuf>>
parentVars == <<counters, parent, frames>>
childVars  == <<child, handler, drawn>>
vars == <<flag, parentVars, pending, allowed, childVars>>

(* After the loop of forks, in which the parent holds the flag and nothing  *)
(* but the children's sleep happens.                                        *)
Init ==
    /\ K \in Ks /\ flag = 0 /\ n = 0 /\ k = 0 /\ childBuf = <<>>
    /\ parent = "post" /\ frames = <<>> /\ pending = {}
    /\ child = [c \in Children |-> "sleep"]
    /\ handler = [c \in Children |-> "none"]
    /\ allowed = {} /\ drawn = <<>>

-----------------------------------------------------------------------------
SemWait == flag > 0 /\ flag' = flag - 1
SemPost == flag' = flag + 1

(* Seeded fault: real-time signals are merged as well.                      *)
Signal_Merges(number, c) ==
    pending' = IF \E s \in pending : s.number = number THEN pending
               ELSE pending \union {[number |-> number, from |-> c]}

(* A signal from child c to the parent.                                     *)
Signal(number, c) ==
    pending' = IF number \notin RealTime /\ \E s \in pending : s.number = number THEN pending
               ELSE pending \union {[number |-> number, from |-> c]}

-----------------------------------------------------------------------------
(* The parent's main.                                                       *)

P_Goto(from, to) ==
    /\ parent = from /\ frames = <<>> /\ parent' = to
    /\ UNCHANGED <<counters, frames, pending, allowed, childVars>>

P_Post    == P_Goto("post", "check") /\ SemPost
P_Check   == P_Goto("check", IF n # N THEN "tested" ELSE "kill") /\ UNCHANGED flag
P_Pause   == P_Goto("tested", "pause") /\ UNCHANGED flag
P_KillAll == P_Goto("kill", "ended") /\ UNCHANGED flag

-----------------------------------------------------------------------------
(* The parent's handlers.                                                   *)

Top == frames[Len(frames)]
Return == frames' = SubSeq(frames, 1, Len(frames) - 1)

(* A signal interrupts whatever the parent does.  Pause returns after it,   *)
(* but only a pause that has begun: a signal handled between the test of n  *)
(* and the pause ends neither.                                              *)
P_Interrupted ==
    \E s \in pending :
        /\ parent # "ended"
        /\ \A i \in 1..Len(frames) : frames[i].signal.number # s.number
        /\ pending' = pending \ {s}
        /\ frames' = Append(frames, [signal |-> s, place |-> "begin", allow |-> <<>>, read |-> 0])
        /\ parent' = IF parent = "pause" /\ frames = <<>> THEN "check" ELSE parent
        /\ UNCHANGED <<flag, counters, allowed, childVars>>

InHandler(number, place) ==
    /\ parent # "ended" /\ frames # <<>>
    /\ Top.signal.number = number /\ Top.place = place

(* catchUSR1: who asks is remembered; who may work now?                     *)
U_Count ==
    LET c == Top.signal.from
        asked == IF k < K THEN Append(childBuf, c) ELSE childBuf IN
    /\ InHandler("USR1", "begin")
    /\ k' = k + 1 /\ childBuf' = asked
    /\ frames' = [frames EXCEPT ![Len(frames)].place = "allow",
                                ![Len(frames)].allow = CASE k + 1 > K -> <<c>>
                                                         [] k + 1 = K -> asked
                                                         [] OTHER -> <<>>]
    /\ UNCHANGED <<flag, K, n, parent, pending, allowed, childVars>>

U_Allow ==
    /\ InHandler("USR1", "allow") /\ Top.allow # <<>>
    /\ allowed' = allowed \union {Head(Top.allow)}
    /\ frames' = [frames EXCEPT ![Len(frames)].allow = Tail(@)]
    /\ UNCHANGED <<flag, counters, parent, pending, childVars>>

U_Post ==
    /\ InHandler("USR1", "allow") /\ Top.allow = <<>>
    /\ SemPost /\ Return
    /\ UNCHANGED <<counters, parent, pending, allowed, childVars>>

(* catchSIGRT: n++ is a load and a store.                                   *)
R_Load ==
    \E number \in RealTime :
        /\ InHandler(number, "begin")
        /\ frames' = [frames EXCEPT ![Len(frames)].place = "store", ![Len(frames)].read = n]
        /\ UNCHANGED <<flag, counters, parent, pending, allowed, childVars>>

R_Store ==
    \E number \in RealTime :
        /\ InHandler(number, "store")
        /\ n' = Top.read + 1 /\ Return
        /\ UNCHANGED <<flag, K, k, childBuf, parent, pending, allowed, childVars>>

(* Seeded fault: the flag of a child that has exited is not given back.     *)
X_Post_Not ==
    /\ InHandler("CHLD", "begin") /\ Return
    /\ UNCHANGED <<flag, counters, parent, pending, allowed, childVars>>

(* catchSIGCHLD.                                                            *)
X_Post ==
    /\ InHandler("CHLD", "begin")
    /\ SemPost /\ Return
    /\ UNCHANGED <<counters, parent, pending, allowed, childVars>>

-----------------------------------------------------------------------------
(* A child's main.                                                          *)

C_Goto(c, from, to) ==
    /\ parent # "ended" /\ handler[c] = "none"
    /\ child[c] = from /\ child' = [child EXCEPT ![c] = to]
    /\ UNCHANGED <<parentVars, allowed, handler, drawn>>

C_WaitToAsk(c) == C_Goto(c, "sleep", "ask") /\ SemWait /\ UNCHANGED pending

(* Seeded fault: the child gives the flag back itself, as it once did.      *)
C_Ask_Posts(c) == C_Goto(c, "ask", "asked") /\ Signal("USR1", c) /\ SemPost

C_Ask(c)         == C_Goto(c, "ask", "asked") /\ Signal("USR1", c) /\ UNCHANGED flag
C_Pause(c)       == C_Goto(c, "asked", "pause") /\ UNCHANGED <<flag, pending>>
C_WaitToLeave(c) == C_Goto(c, "leave", "exit") /\ SemWait /\ UNCHANGED pending
C_Exit(c)        == C_Goto(c, "exit", "exited") /\ Signal("CHLD", c) /\ UNCHANGED flag

(* catchUSR2, from pause, which then returns, or too early, before pause.   *)
H_Goto(c, from, to) ==
    /\ parent # "ended"
    /\ handler[c] = from /\ handler' = [handler EXCEPT ![c] = to]
    /\ UNCHANGED parentVars

H_Allowed(c) ==
    /\ H_Goto(c, "none", "wait")
    /\ c \in allowed /\ allowed' = allowed \ {c}
    /\ child' = [child EXCEPT ![c] = IF @ = "pause" THEN "leave" ELSE @]
    /\ UNCHANGED <<flag, pending, drawn>>

H_Wait(c) == H_Goto(c, "wait", "work") /\ SemWait /\ UNCHANGED <<pending, allowed, child, drawn>>

H_Work(c) ==
    /\ H_Goto(c, "work", "post")
    /\ \E number \in RealTime :
          /\ Signal(number, c)
          /\ drawn' = [d \in DOMAIN drawn \union {c} |-> IF d = c THEN number ELSE drawn[d]]
    /\ UNCHANGED <<flag, allowed, child>>

H_Post(c) == H_Goto(c, "post", "none") /\ SemPost /\ UNCHANGED <<pending, allowed, child, drawn>>

-----------------------------------------------------------------------------
ParentStep ==
    \/ P_Post  \/ P_Check \/ P_Pause   \/ P_KillAll \/ P_Interrupted
    \/ U_Count \/ U_Allow \/ U_Post    \/ R_Load \/ R_Store \/ X_Post

ChildStep(c) ==
    \/ C_WaitToAsk(c) \/ C_Ask(c)  \/ C_Pause(c) \/ C_WaitToLeave(c) \/ C_Exit(c)
    \/ H_Allowed(c)   \/ H_Wait(c) \/ H_Work(c)  \/ H_Post(c)

Next == ParentStep \/ \E c \in Children : ChildStep(c)

Spec == Init /\ [][Next]_vars

(* The processes run.  Each takes the flag a few times only, so that weak   *)
(* fairness is enough for everyone to get it.                               *)
FairSpec ==
    /\ Spec
    /\ WF_vars(ParentStep)
    /\ \A c \in Children : WF_vars(ChildStep(c))

-----------------------------------------------------------------------------
(* Properties                                                               *)

Guarded == {"USR1", "CHLD"}
Signals == [number : RealTime \union Guarded, from : Children]
Frames  == [signal : Signals, place : {"begin", "allow", "store"},
            allow : Seq(Children), read : Nat]

(* The state is of the expected shape.                                      *)
TypeOK ==
    /\ flag \in Nat /\ K \in Nat /\ n \in Nat /\ k \in Nat
    /\ childBuf \in Seq(Children) /\ frames \in Seq(Frames)
    /\ parent \in {"post", "check", "tested", "pause", "kill", "ended"}
    /\ pending \subseteq Signals /\ IsFiniteSet(pending)
    /\ child \in [Children ->
          {"sleep", "ask", "asked", "pause", "leave", "exit", "exited"}]
    /\ handler \in [Children -> {"none", "wait", "work", "post"}]
    /\ allowed \subseteq Children /\ DOMAIN drawn \subseteq Children
    /\ drawn \in [DOMAIN drawn -> RealTime]

(* Where the flag can be: with a child that took it in its main or in its   *)
(* handler, in a signal on its way to the parent, in a handler of it.       *)
Signallers == {c \in Children : child[c] \in {"ask", "exit"}}
Workers    == {c \in Children : handler[c] \in {"work", "post"}}

Pending(numbers) == {s \in pending : s.number \in numbers}
Running(numbers) == {i \in 1..Len(frames) : frames[i].signal.number \in numbers}

(* The flag goes from the parent to a child, with a signal back to the      *)
(* parent, and from there to the next ("moved to handler in parent",        *)
(* zad2.c:155): it is always in exactly one place, which also means that no *)
(* request and no exit of a child was merged with another's.                *)
FlagIsPassedOn ==
    flag + (IF parent = "post" THEN 1 ELSE 0)
         + Cardinality(Signallers) + Cardinality(Workers)
         + Cardinality(Pending(Guarded)) + Cardinality(Running(Guarded)) = 1

Worked == DOMAIN drawn
OneNumber == \A c, d \in Worked : drawn[c] = drawn[d]

(* The work of all children is counted as long as they draw the same        *)
(* number; signals of two numbers interrupt each other in the middle of n++.*)
WorkIsCounted ==
    OneNumber =>
        n + Cardinality(Pending(RealTime)) + Cardinality(Running(RealTime))
        = Cardinality(Worked)

(* Why it is: the inductive invariant of WorkIsCounted.                     *)

(* No handler interrupts itself.                                            *)
OneFrameEach ==
    \A i, j \in 1..Len(frames) :
        frames[i].signal.number = frames[j].signal.number => i = j

(* A real-time signal is the work of the child it comes from.               *)
IsWork(s) == s.number \in RealTime => s.from \in Worked /\ s.number = drawn[s.from]

SignalsAreWork ==
    (\A s \in pending : IsWork(s)) /\ (\A i \in 1..Len(frames) : IsWork(frames[i].signal))

(* What catchSIGRT has read is still n, unless another one interrupted it.  *)
ReadIsCurrent ==
    \A i \in 1..Len(frames) : frames[i].place = "store" =>
        frames[i].signal.number \in RealTime /\ (OneNumber => frames[i].read = n)

(* The way of a permission, and the children whose permission is there.     *)
Stages == {"unasked", "sent", "caught", "buffered", "granted", "allowed", "handled", "used"}

At(stage) == {c \in Children :
    \/ stage = "unasked"  /\ child[c] \in {"sleep", "ask"}
    \/ stage = "sent"     /\ [number |-> "USR1", from |-> c] \in pending
    \/ stage = "caught"   /\ \E i \in 1..Len(frames) :
                                /\ frames[i].signal = [number |-> "USR1", from |-> c]
                                /\ frames[i].place = "begin"
    \/ stage = "buffered" /\ k < K /\ \E j \in 1..Len(childBuf) : childBuf[j] = c
    \/ stage = "granted"  /\ \E i \in 1..Len(frames) :
                                \E j \in 1..Len(frames[i].allow) : frames[i].allow[j] = c
    \/ stage = "allowed"  /\ c \in allowed
    \/ stage = "handled"  /\ handler[c] \in {"wait", "work"}
    \/ stage = "used"     /\ c \in Worked}

(* A permission is in one place at most, and there once.                    *)
OnePermission == \A p, q \in Stages : p # q => At(p) \cap At(q) = {}

Once(s) == \A i, j \in 1..Len(s) : s[i] = s[j] => i = j

NoRepeats ==
    /\ k < K => Once(childBuf)
    /\ \A i \in 1..Len(frames) :
          Once(frames[i].allow) /\ (frames[i].allow # <<>> => frames[i].signal.number = "USR1")

IInv ==
    /\ TypeOK /\ OneFrameEach /\ SignalsAreWork /\ ReadIsCurrent
    /\ OnePermission /\ NoRepeats /\ WorkIsCounted

(* If there are enough children to reach K, every child gets its permission *)
(* and does its work, also one that is allowed before it pauses.  Then the  *)
(* parent ends it all, or it pauses for ever, and that for one of two       *)
(* reasons: the last signals were handled between its look at n and its     *)
(* pause, or numbers differed and some work was not counted.                *)
EveryoneWorksThenEnds ==
    K <= N => /\ <>(Worked = Children)
              /\ \/ <>(parent = "ended")
                 \/ <>[](parent = "pause" /\ (n = N \/ ~ OneNumber))
=============================================================================
