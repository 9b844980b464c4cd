------------------------------ MODULE Pipeline ------------------------------
(****************************************************************************)
(* cw05/zad1 (and its copy cw06/zad1/zad1.c): runs the lines of a script,   *)
(* each one a pipeline of programs, one after the other.  The descriptor    *)
(* tables are modelled with their numbers, because the runner keeps its     *)
(* pipes in an array of two that starts with values nobody wrote; the       *)
(* position in the script is shared with every child, which moves it when   *)
(* it calls exit.                                                           *)
(****************************************************************************)
EXTENDS Integers, Sequences, FiniteSets, SequencesExt, FiniteSetsExt

CONSTANTS Scripts,             \* scripts: sequences of lines, a line is a
                               \* sequence of the programs below
          Items,               \* what a program "list" writes
          Cap,                 \* what a pipe holds
          Chunk,               \* lines that one read of the script brings
          Garbage,             \* values that pipes[1] may have on entry
          MaxLines             \* bound on the lines that are run

Programs == {"list", "copy", "head", "false", "missing"}

ASSUME PipelineConstants ==
    /\ Scripts \subseteq Seq(Seq(Programs))
    /\ Items \in Nat /\ Cap \in Nat \ {0} /\ Chunk \in Nat \ {0}
    /\ Garbage \subseteq Int /\ MaxLines \in Nat

FDs    == 0..11
Closed == <<"closed", 0>>
Tty    == <<"tty", 0>>
RdEnd(p) == <<"read", p>>
WrEnd(p) == <<"write", p>>

VARIABLES script,
          offset,              \* position in the script, shared by all
          buffered,            \* numbers of the lines read ahead by the runner
          phase, line, j, pipes, \* the runner: place, arguments, loop, array
          fd,                  \* its descriptors
          kids,                \* all the children, in the order of their start
          content,             \* what is in each pipe
          ran,                 \* history variable: the lines run
          rewound              \* history variable: a child moved the position

place == <<phase, line, j>>
text  == <<script, offset, buffered, ran, rewound>>
L_vars == <<text, place, pipes, fd, kids, content>>

(* The script is descriptor 3.                                              *)
Opened == [f \in FDs |-> IF f \in 0..2 THEN Tty
                         ELSE IF f = 3 THEN <<"script", 0>> ELSE Closed]

L_Init ==
    /\ script \in Scripts /\ offset = 0 /\ buffered = <<>>
    /\ phase = "getline" /\ line = <<>> /\ j = 0
    /\ \E g \in Garbage : pipes = [n \in 0..1 |-> <<g, g>>]
    /\ fd = Opened
    /\ kids = <<>> /\ content = <<>> /\ ran = <<>> /\ rewound = FALSE

-----------------------------------------------------------------------------
(* System calls on a table of descriptors.                                  *)
Close(t, f)    == [x \in FDs |-> IF x = f THEN Closed ELSE t[x]]
CloseBoth(t, p) == Close(Close(t, p[1]), p[2])
Dup2(t, old, new) == [t EXCEPT ![new] = t[old]]
Free(t)        == {f \in FDs : t[f] = Closed}
PipeFds(t)     == LET r == Min(Free(t)) IN <<r, Min(Free(t) \ {r})>>
AllClosed      == [f \in FDs |-> Closed]

(* Who holds an end of a pipe, the runner or a child.                       *)
Holds(t, end)  == \E f \in FDs : t[f] = end
IsOpen(end)    == Holds(fd, end) \/ \E k \in DOMAIN kids : Holds(kids[k].fd, end)

(* getline: from the buffer, or from the file when that is empty.           *)
ReadAhead ==
    IF buffered # <<>> THEN buffered
    ELSE [n \in 1..Min({Chunk, Len(script) - offset}) |-> offset + n]

(* A line of the script is parsed: nothing, one program, or a pipeline.     *)
R_GetLine ==
    /\ phase = "getline" /\ Len(ran) < MaxLines
    /\ ReadAhead # <<>>
    /\ LET n == Head(ReadAhead) IN
        /\ line' = script[n]
        /\ ran' = Append(ran, n)
        /\ phase' = CASE Len(script[n]) = 0 -> "getline"
                   [] Len(script[n]) = 1 -> "vfork"
                   [] OTHER              -> "build"
    /\ buffered' = Tail(ReadAhead)
    /\ offset' = IF buffered = <<>> THEN offset + Len(ReadAhead) ELSE offset
    /\ j' = 0
    /\ UNCHANGED <<script, rewound, pipes, fd, kids, content>>

R_Eof ==
    /\ phase = "getline" /\ ReadAhead = <<>>
    /\ phase' = "done" /\ fd' = AllClosed
    /\ UNCHANGED <<text, line, j, pipes, kids, content>>

(* A child as fork leaves it: with the runner's descriptors and array; own  *)
(* is history, the number of the pipe made for it, 0 without one.           *)
Kid(n, t, ps) ==
    [line |-> Last(ran), n |-> n, of |-> Len(line), at |-> "forked", fd |-> t,
     pipes |-> ps, left |-> Len(buffered), program |-> line[n + 1],
     todo |-> IF line[n + 1] = "list" THEN Items ELSE 0, got |-> 0,
     printed |-> 0, status |-> 0,
     own |-> IF Len(line) = 1 THEN 0 ELSE Len(content) + 1]

R_Vfork ==
    /\ phase = "vfork"
    /\ kids' = Append(kids, Kid(0, fd, pipes))
    /\ phase' = "wait"
    /\ UNCHANGED <<text, line, j, pipes, fd, content>>

(* One turn of the loop: the pipe before the last one is closed, a new one  *)
(* takes its place in the array, and the next program is forked.            *)
R_Build ==
    /\ phase = "build" /\ j < Len(line)
    /\ LET t == IF j > 0 THEN CloseBoth(fd, pipes[j % 2]) ELSE fd
           p == PipeFds(t)
       IN  /\ fd' = [t EXCEPT ![p[1]] = RdEnd(Len(content) + 1),
                              ![p[2]] = WrEnd(Len(content) + 1)]
           /\ pipes' = [pipes EXCEPT ![j % 2] = p]
    /\ content' = Append(content, 0)
    /\ kids' = Append(kids, Kid(j, fd', pipes'))
    /\ j' = j + 1
    /\ UNCHANGED <<text, phase, line>>

R_Built ==
    /\ phase = "build" /\ j = Len(line)
    /\ fd' = CloseBoth(CloseBoth(fd, pipes[j % 2]), pipes[(j + 1) % 2])
    /\ phase' = "wait"
    /\ UNCHANGED <<text, line, j, pipes, kids, content>>

(* Seeded fault: the status of the last program is not looked at.           *)
R_Waited_GoesOn ==
    /\ phase = "wait" /\ Last(kids).at = "ended"
    /\ phase' = "getline" /\ UNCHANGED fd
    /\ UNCHANGED <<text, line, j, pipes, kids, content>>

(* The runner waits for the last program only, and stops if it failed.      *)
R_Waited ==
    /\ phase = "wait" /\ Last(kids).at = "ended"
    /\ IF Last(kids).status = 0 THEN phase' = "getline" /\ UNCHANGED fd
                                ELSE phase' = "done" /\ fd' = AllClosed
    /\ UNCHANGED <<text, line, j, pipes, kids, content>>

-----------------------------------------------------------------------------
(* The children                                                             *)

Kill(kid, status) == [kid EXCEPT !.at = "ended", !.status = status, !.fd = AllClosed]

(* Seeded fault: a child keeps the end of the pipe it reads from that the   *)
(* program before it writes to.                                             *)
Wired_KeepsWriteEnd(kid) ==
    LET t == IF kid.n = 0 THEN kid.fd
             ELSE Dup2(kid.fd, kid.pipes[(kid.n + 1) % 2][1], 0)
    IN  IF kid.n = kid.of - 1 THEN t
        ELSE Dup2(Close(t, kid.pipes[kid.n % 2][1]), kid.pipes[kid.n % 2][2], 1)

(* Seeded fault: the last program but one is taken for the last.            *)
Wired_OffByOne(kid) ==
    LET t == IF kid.n = 0 THEN kid.fd
             ELSE Dup2(Close(kid.fd, kid.pipes[(kid.n + 1) % 2][2]),
                       kid.pipes[(kid.n + 1) % 2][1], 0)
    IN  IF kid.n >= kid.of - 2 THEN t
        ELSE Dup2(Close(t, kid.pipes[kid.n % 2][1]), kid.pipes[kid.n % 2][2], 1)

(* Descriptors 0 and 1 of a child that is about to exec: the pipe of the    *)
(* program before it and its own.                                           *)
Wired(kid) ==
    LET t == IF kid.n = 0 THEN kid.fd
             ELSE Dup2(Close(kid.fd, kid.pipes[(kid.n + 1) % 2][2]),
                       kid.pipes[(kid.n + 1) % 2][1], 0)
    IN  IF kid.n = kid.of - 1 THEN t
        ELSE Dup2(Close(t, kid.pipes[kid.n % 2][1]), kid.pipes[kid.n % 2][2], 1)

(* dup2 needs an open descriptor.                                           *)
InUse(t, f) == f \in FDs /\ t[f] # Closed
CanWire(kid) ==
    /\ kid.n > 0 => InUse(kid.fd, kid.pipes[(kid.n + 1) % 2][1])
    /\ kid.n < kid.of - 1 => InUse(kid.fd, kid.pipes[kid.n % 2][2])

(* exit in a child: stdio moves the position of the script back by what the *)
(* child thinks is still to be read, if there is so much before it.         *)
Rewind(kid) ==
    /\ offset' = IF kid.left <= offset THEN offset - kid.left ELSE offset
    /\ rewound' = (rewound \/ kid.left > 0)
    /\ UNCHANGED <<script, buffered, ran>>

K_Exec(k) ==
    /\ kids[k].at = "forked" /\ kids[k].program # "missing" /\ CanWire(kids[k])
    /\ kids' = [kids EXCEPT ![k].at = "runs", ![k].fd = Wired(kids[k])]
    /\ UNCHANGED <<text, place, pipes, fd, content>>

(* exec fails, or dup2 did.                                                 *)
K_NoExec(k) ==
    /\ kids[k].at = "forked"
    /\ kids[k].program = "missing" \/ ~ CanWire(kids[k])
    /\ kids' = [kids EXCEPT ![k] = Kill(kids[k], 1)]
    /\ Rewind(kids[k])
    /\ UNCHANGED <<place, pipes, fd, content>>

(* The programs: "list" writes Items lines, "copy" passes on all it reads   *)
(* and "head" the first, "false" fails.                                     *)
K_Writing(kid) == kid.at = "runs" /\ kid.todo > 0
K_Reading(kid) == /\ kid.at = "runs" /\ kid.todo = 0
                  /\ kid.program = "copy" \/ (kid.program = "head" /\ kid.got = 0)

K_Print(k) ==
    /\ K_Writing(kids[k]) /\ kids[k].fd[1] = Tty
    /\ kids' = [kids EXCEPT ![k].todo = @ - 1, ![k].printed = @ + 1]
    /\ UNCHANGED <<text, place, pipes, fd, content>>

K_Write(k) ==
    /\ K_Writing(kids[k])
    /\ \E p \in DOMAIN content :
        /\ kids[k].fd[1] = WrEnd(p) /\ IsOpen(RdEnd(p))
        /\ content[p] < Cap
        /\ content' = [content EXCEPT ![p] = @ + 1]
    /\ kids' = [kids EXCEPT ![k].todo = @ - 1]
    /\ UNCHANGED <<text, place, pipes, fd>>

(* SIGPIPE: nobody can read any more.                                       *)
K_BrokenPipe(k) ==
    /\ K_Writing(kids[k])
    /\ \E p \in DOMAIN content : kids[k].fd[1] = WrEnd(p) /\ ~ IsOpen(RdEnd(p))
    /\ kids' = [kids EXCEPT ![k] = Kill(kids[k], 13)]
    /\ UNCHANGED <<text, place, pipes, fd, content>>

K_Read(k) ==
    /\ K_Reading(kids[k])
    /\ \E p \in DOMAIN content :
        /\ kids[k].fd[0] = RdEnd(p) /\ content[p] > 0
        /\ content' = [content EXCEPT ![p] = @ - 1]
    /\ kids' = [kids EXCEPT ![k].todo = 1, ![k].got = @ + 1]
    /\ UNCHANGED <<text, place, pipes, fd>>

(* A program ends when it has nothing left to do: at the end of its input   *)
(* (a terminal is at its end at once), or with an error without an input.   *)
K_End(k) ==
    /\ kids[k].at = "runs" /\ kids[k].todo = 0
    /\ K_Reading(kids[k]) =>
          \A p \in DOMAIN content :
              kids[k].fd[0] = RdEnd(p) => content[p] = 0 /\ ~ IsOpen(WrEnd(p))
    /\ kids' = [kids EXCEPT ![k] = Kill(kids[k],
                   IF \/ kids[k].program = "false"
                      \/ K_Reading(kids[k]) /\ kids[k].fd[0] = Closed THEN 1 ELSE 0)]
    /\ UNCHANGED <<text, place, pipes, fd, content>>

Runner  == R_GetLine \/ R_Eof \/ R_Vfork \/ R_Build \/ R_Built \/ R_Waited
K_Step(k) == \/ K_Exec(k) \/ K_NoExec(k) \/ K_Print(k) \/ K_Write(k)
             \/ K_BrokenPipe(k) \/ K_Read(k) \/ K_End(k)
L_Next  == Runner \/ \E k \in DOMAIN kids : K_Step(k)
L_Spec  == L_Init /\ [][L_Next]_L_vars

(* The longest run of a script: its children have numbers up to here.       *)
KidNumbers == 1..(MaxLines * 4)

(* The runner and every program are scheduled.                              *)
L_FairSpec ==
    /\ L_Spec /\ WF_L_vars(Runner)
    /\ \A k \in KidNumbers : WF_L_vars(k \in DOMAIN kids /\ K_Step(k))

-----------------------------------------------------------------------------
(* Properties                                                               *)

(* A line of one program that writes and others that pass on what they read *)
(* prints everything when it ends: every pipe connects the right programs   *)
(* and nobody takes an end for a stream too early.                          *)
StreamArrives ==
    \A k \in DOMAIN kids :
        /\ kids[k].at = "ended" /\ kids[k].n = kids[k].of - 1
        /\ script[kids[k].line][1] = "list"
        /\ \A m \in 2..kids[k].of : script[kids[k].line][m] = "copy"
        => kids[k].printed = Items

(* As long as no child has moved the position of the script, every line is  *)
(* run once and in order, and the last program of each line but the last    *)
(* succeeded.                                                               *)
LinesOnce ==
    ~ rewound =>
        /\ ran = [n \in 1..Len(ran) |-> n]
        /\ \A k \in DOMAIN kids :
              kids[k].n = kids[k].of - 1 /\ kids[k].at = "ended" /\ kids[k].status # 0
              => kids[k].line = Len(ran)

(* Then the runner ends, and so does every program it has started, also the *)
(* ones it never waits for.                                                 *)
NobodyLeftBehind ==
    <>(rewound \/ (phase = "done" /\ \A k \in DOMAIN kids : kids[k].at = "ended"))
=============================================================================
