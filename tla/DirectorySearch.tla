--------------------------- MODULE DirectorySearch ---------------------------
(****************************************************************************)
(* cw02/zad2a, cw02/zad2b and cw03/zad1: list the files below a directory   *)
(* that were modified before, after or on a day.  The first calls itself    *)
(* for a directory, the second uses nftw, and the third forks a process     *)
(* that calls itself, and waits for it.                                     *)
(*                                                                          *)
(* What printf writes stays in a buffer until that is full or the process   *)
(* ends; a forked process starts with a copy of it.  An entry of the list   *)
(* is taken as a whole, and a terminal as a buffer for one entry.           *)
(****************************************************************************)
EXTENDS Integers, Sequences, FiniteSets, SequencesExt

CONSTANTS Trees,               \* trees of directories: from the names of those
                               \* that can be opened to their entries
          Root,
          Day,                 \* the day on the command line
          BufferSizes          \* entries that the buffer can hold

(* A day is a year, a month and a day of the month.                         *)
Days == Int \X Int \X Int

DirEntries ==
    [type : {"file", "link", "other", "dir"}, day : Days, to : STRING]

ASSUME SearchConstants ==
    /\ \A tree \in Trees :
          Root \in DOMAIN tree /\ tree \in [DOMAIN tree -> Seq(DirEntries)]
    /\ Day \in Days /\ BufferSizes \subseteq Nat \ {0}

VARIABLES D_version,           \* call, nftw or fork
          D_op, D_tree,        \* the other arguments
          D_room,              \* entries that its buffer holds
          D_stack,             \* calls, or processes, that are not finished
          D_out                \* what was printed

D_args == <<D_version, D_op, D_tree, D_room>>
D_vars == <<D_args, D_stack, D_out>>

D_Init ==
    /\ D_version \in {"call", "nftw", "fork"} /\ D_op \in {"<", ">", "="}
    /\ D_tree \in Trees /\ D_room \in BufferSizes
    /\ D_stack = << [dir |-> Root, next |-> 1, buffer |-> <<>>] >>
    /\ D_out = <<>>

-----------------------------------------------------------------------------
cmpTM(first, second) ==
    LET differ == {k \in 1..3 : first[k] # second[k]}
        k      == CHOOSE x \in differ : \A y \in differ : x <= y
    IN  IF differ = {} THEN 0 ELSE IF first[k] < second[k] THEN -1 ELSE 1

(* searchOlder of the forking version lists symbolic links, too, and nftw   *)
(* calls everything a file that is not a directory or a link.               *)
Listed(type) ==
    \/ type = "file"
    \/ type = "link" /\ D_version = "fork" /\ D_op = "<"
    \/ type = "other" /\ D_version = "nftw"

Asked(day) ==
    CASE D_op = "<" -> cmpTM(day, Day) = -1
      [] D_op = ">" -> cmpTM(day, Day) = 1
      [] D_op = "=" -> cmpTM(day, Day) = 0

Frame   == Last(D_stack)
Entries == IF Frame.dir \in DOMAIN D_tree THEN D_tree[Frame.dir] ELSE <<>>
Entry   == Entries[Frame.next]
Advanced == [Frame EXCEPT !.next = @ + 1]

More(type) ==
    /\ D_stack # <<>> /\ Frame.next <= Len(Entries)
    /\ (Entry.type = "dir") = (type = "dir")

(* printf; the buffer is written when it is full.                           *)
D_Print ==
    /\ More("file") /\ Listed(Entry.type) /\ Asked(Entry.day)
    /\ LET text == Append(Frame.buffer, <<Frame.dir, Frame.next>>)
           now  == Len(text) >= D_room
       IN  /\ D_out' = IF now THEN D_out \o text ELSE D_out
           /\ D_stack' = Append(Front(D_stack),
                                [Advanced EXCEPT !.buffer = IF now THEN <<>> ELSE text])
    /\ UNCHANGED D_args

D_Skip ==
    /\ More("file") /\ ~ (Listed(Entry.type) /\ Asked(Entry.day))
    /\ D_stack' = Append(Front(D_stack), Advanced)
    /\ UNCHANGED <<D_args, D_out>>

(* A directory: a call, or a child with a copy of the buffer.               *)
D_Enter ==
    /\ More("dir")
    /\ D_stack' = Append(Append(Front(D_stack), Advanced),
                         [dir |-> Entry.to, next |-> 1, buffer |-> Frame.buffer])
    /\ UNCHANGED <<D_args, D_out>>

AtEnd == D_stack # <<>> /\ Frame.next > Len(Entries)

(* A call returns: its caller goes on with the buffer they share.           *)
D_Return ==
    /\ AtEnd /\ Len(D_stack) > 1 /\ D_version # "fork"
    /\ D_stack' = Append(Front(Front(D_stack)),
                         [Last(Front(D_stack)) EXCEPT !.buffer = Frame.buffer])
    /\ UNCHANGED <<D_args, D_out>>

(* Seeded fault: a child ends without writing its buffer.                   *)
D_Exit_Drops ==
    /\ AtEnd /\ (Len(D_stack) = 1 \/ D_version = "fork")
    /\ D_stack' = Front(D_stack)
    /\ D_out' = IF Len(D_stack) > 1 THEN D_out ELSE D_out \o Frame.buffer
    /\ UNCHANGED D_args

(* Seeded fault: a child does not return, but goes on with its parent's     *)
(* directory.                                                               *)
D_Exit_GoesOn ==
    /\ AtEnd /\ (Len(D_stack) = 1 \/ D_version = "fork")
    /\ IF Len(D_stack) > 1 /\ Frame.dir # Last(Front(D_stack)).dir
       THEN /\ D_stack' = [D_stack EXCEPT ![Len(D_stack)] =
                              [Last(Front(D_stack)) EXCEPT !.buffer = Frame.buffer]]
            /\ UNCHANGED D_out
       ELSE D_stack' = Front(D_stack) /\ D_out' = D_out \o Frame.buffer
    /\ UNCHANGED D_args

(* A process returns through all its calls to main and ends, and its buffer *)
(* is written; its parent has waited for it.                                *)
D_Exit ==
    /\ AtEnd /\ (Len(D_stack) = 1 \/ D_version = "fork")
    /\ D_stack' = Front(D_stack)
    /\ D_out' = D_out \o Frame.buffer
    /\ UNCHANGED D_args

D_Next == D_Print \/ D_Skip \/ D_Enter \/ D_Return \/ D_Exit

D_Spec == D_Init /\ [][D_Next]_D_vars

-----------------------------------------------------------------------------
(* Properties                                                               *)

(* The directories in those of S.                                           *)
SubDirs(tree, S) ==
    UNION { {tree[d][n].to : n \in {m \in DOMAIN tree[d] : tree[d][m].type = "dir"}}
            : d \in S \intersect DOMAIN tree }

(* What can be reached from d: the least set of directories that has d and  *)
(* the directories in its own.                                              *)
Below(tree, d) ==
    LET all == {d} \union SubDirs(tree, DOMAIN tree)
    IN  {x \in all : \A S \in SUBSET all : d \in S /\ SubDirs(tree, S) \subseteq S => x \in S}

Earlier(a, b) ==
    \/ a[1] < b[1]
    \/ a[1] = b[1] /\ a[2] < b[2]
    \/ a[1] = b[1] /\ a[2] = b[2] /\ a[3] < b[3]

OnAskedSide(day) ==
    \/ D_op = "<" /\ Earlier(day, Day)
    \/ D_op = ">" /\ Earlier(Day, day)
    \/ D_op = "=" /\ day = Day

(* The entries of those, and the files among them that are asked for.       *)
Reached  ==
    UNION { {d} \X DOMAIN D_tree[d] : d \in Below(D_tree, Root) \intersect DOMAIN D_tree }
Matching == { e \in Reached : LET entry == D_tree[e[1]][e[2]]
                              IN  Listed(entry.type) /\ OnAskedSide(entry.day) }

(* When the search ends every matching file that can be reached was listed, *)
(* and nothing else.                                                        *)
EveryMatchListed == D_stack = <<>> => ToSet(D_out) = Matching

(* Directories that are entered while entry n of d can be in a buffer.      *)
EnteredAfter(d, n) ==
    UNION { Below(D_tree, D_tree[d][m].to) :
              m \in {k \in DOMAIN D_tree[d] : k > n /\ D_tree[d][k].type = "dir"} }

(* It was listed once, except that the forking version lists it again for   *)
(* each process started later in its directory, if its buffer was not       *)
(* written by then.                                                         *)
ListedAgain ==
    D_stack = <<>> =>
        \A e \in Matching :
            LET times == Len(SelectSeq(D_out, LAMBDA x : x = e))
                most  == IF D_version = "fork" THEN 1 + Cardinality(EnteredAfter(e[1], e[2]))
                                               ELSE 1
            IN  IF D_room = 1 THEN times = 1
                ELSE IF D_room > Cardinality(Matching) THEN times = most
                ELSE times \in 1..most
=============================================================================
