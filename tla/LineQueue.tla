------------------------------ MODULE LineQueue ------------------------------
(****************************************************************************)
(* What both producer/consumer programs of cw09 promise to their user: the  *)
(* lines 1..NLines of the file go, in the order of the file, through a      *)
(* first-in first-out queue of at most Capacity lines; each one is looked   *)
(* at exactly once, and the ones that match are counted.  Threads, locks,   *)
(* condition variables, semaphores and the ring of cells are the business   *)
(* of the modules that implement this one.                                  *)
(****************************************************************************)
EXTENDS Naturals, Sequences

CONSTANTS Capacity,   \* cells of the buffer
          NLines,     \* lines of the file
          Matching    \* the lines the search is for, a subset of 1..NLines

VARIABLES read,       \* how many lines have been read from the file
          queue,      \* lines read and not yet looked at, oldest first
          consumed,   \* lines looked at, in that order
          found       \* how many of them matched

lqVars == <<read, queue, consumed, found>>

LQInit == read = 0 /\ queue = <<>> /\ consumed = <<>> /\ found = 0

(* A producer reads the next line of the file into a free cell.             *)
Put ==
    /\ read < NLines
    /\ Len(queue) < Capacity
    /\ read' = read + 1
    /\ queue' = Append(queue, read + 1)
    /\ UNCHANGED <<consumed, found>>

(* A consumer looks at the oldest line and frees its cell.                  *)
Get ==
    /\ queue # <<>>
    /\ consumed' = Append(consumed, Head(queue))
    /\ queue' = Tail(queue)
    /\ found' = IF Head(queue) \in Matching THEN found + 1 ELSE found
    /\ UNCHANGED read

LQNext == Put \/ Get

LQSpec == LQInit /\ [][LQNext]_lqVars
=============================================================================
