------------------------------ MODULE ImageFilter ------------------------------
(****************************************************************************)
(* cw08/zad1: a filter of size FilterSize x FilterSize is applied to an     *)
(* image by ThreadNo threads, each of which computes a band of rows.  main  *)
(* creates the threads, joins them and writes the result.  It keeps the     *)
(* handle of thread t in entry 2 * t of an array of ThreadNo entries, and   *)
(* joins the entries 0 .. ThreadNo - 1.                                     *)
(****************************************************************************)
EXTENDS Integers, Sequences, FiniteSetsExt

CONSTANTS Height, Width, FilterSize, ThreadNo,
          Image,       \* img_in_array
          Weights      \* filter_array

Rows    == 0..(Height - 1)
Columns == 0..(Width - 1)
Threads == 0..(ThreadNo - 1)
Window  == 0..(FilterSize - 1)

ASSUME ImageFilterAssumption ==
    /\ Height \in Nat \ {0} /\ Width \in Nat \ {0}
    /\ FilterSize \in Nat \ {0} /\ ThreadNo \in Nat \ {0}
    /\ Image \in [Rows \X Columns -> Int]
    /\ Weights \in [Window \X Window -> Int]

VARIABLES main_pc,
          i,            \* main's loop variable
          ar,           \* band of each thread: first row, row after the last
          x,            \* next row of each thread
          thread_pc,
          thread_ar,    \* the threads main has the handles of, -1: none
          img_out,      \* img_out_array, a row at a time, <<>>: not computed
          file,         \* rows written to img_out
          times         \* history variable: how often a row was computed

threads == <<ar, x, thread_pc>>
vars == <<main_pc, i, threads, thread_ar, img_out, file, times>>

Init ==
    /\ main_pc = "create" /\ i = 0
    /\ ar = [t \in Threads |-> <<0, 0>>] /\ x = [t \in Threads |-> 0]
    /\ thread_pc = [t \in Threads |-> "none"]
    /\ thread_ar = [e \in Threads |-> -1]
    /\ img_out = [r \in Rows |-> <<>>]
    /\ file = <<>>
    /\ times = [r \in Rows |-> 0]

-----------------------------------------------------------------------------
(* index_i and index_j: the window is cut off at the edges of the image.    *)
(* (FilterSize + 1) \div 2 is ceil(c / 2.0).                                *)
Index(at, k, size) ==
    LET n == at - (FilterSize + 1) \div 2 + k IN
    IF n > 0 THEN IF n < size - 1 THEN n ELSE size - 1 ELSE 0

(* The sum over the window of pixels times weights.                         *)
Weighted(pixels) ==
    MapThenSumSet(LAMBDA w : pixels[w] * Weights[w], Window \X Window)

Pixel(r, c) ==
    Weighted([w \in Window \X Window |->
                 Image[<<Index(r, w[1], Height), Index(c, w[2], Width)>>]])

Row(r) == [c \in Columns |-> Pixel(r, c)]

(* Seeded fault: the rows that are left over belong to no thread.           *)
Band_NoRest(n) ==
    << ((Height \div ThreadNo) * n) \div 2, (Height \div ThreadNo) * (n \div 2 + 1) >>

(* The band main computes when its loop variable is n.                      *)
Band(n) ==
    << ((Height \div ThreadNo) * n) \div 2,
       IF n = ThreadNo * 2 - 2 THEN Height ELSE (Height \div ThreadNo) * (n \div 2 + 1) >>

-----------------------------------------------------------------------------
(* main                                                                     *)

M_Create ==
    /\ main_pc = "create" /\ i < ThreadNo * 2
    /\ LET t == i \div 2 IN
          /\ ar' = [ar EXCEPT ![t] = Band(i)]
          /\ x' = [x EXCEPT ![t] = Band(i)[1]]
          /\ thread_pc' = [thread_pc EXCEPT ![t] = "running"]
          /\ thread_ar' = IF i < ThreadNo THEN [thread_ar EXCEPT ![i] = t] ELSE thread_ar
    /\ i' = i + 2
    /\ UNCHANGED <<main_pc, img_out, file, times>>

(* The handle is stored behind the array, and anything may follow.          *)
M_CreatePastArray ==
    /\ main_pc = "create" /\ i < ThreadNo * 2 /\ i >= ThreadNo
    /\ main_pc' = "undefined"
    /\ UNCHANGED <<i, threads, thread_ar, img_out, file, times>>

M_Created ==
    /\ main_pc = "create" /\ i >= ThreadNo * 2
    /\ main_pc' = "join" /\ i' = 0
    /\ UNCHANGED <<threads, thread_ar, img_out, file, times>>

(* Seeded fault: the thread is not waited for.                              *)
M_Join_Not ==
    /\ main_pc = "join" /\ i < ThreadNo /\ thread_ar[i] # -1
    /\ i' = i + 1
    /\ UNCHANGED <<main_pc, threads, thread_ar, img_out, file, times>>

M_Join ==
    /\ main_pc = "join" /\ i < ThreadNo /\ thread_ar[i] # -1
    /\ thread_pc[thread_ar[i]] = "done"
    /\ i' = i + 1
    /\ UNCHANGED <<main_pc, threads, thread_ar, img_out, file, times>>

(* pthread_join of an entry never written: it fails or the program does.    *)
M_JoinNothing ==
    /\ main_pc = "join" /\ i < ThreadNo /\ thread_ar[i] = -1
    /\ \/ i' = i + 1 /\ UNCHANGED main_pc
       \/ main_pc' = "undefined" /\ UNCHANGED i
    /\ UNCHANGED <<threads, thread_ar, img_out, file, times>>

M_Joined ==
    /\ main_pc = "join" /\ i = ThreadNo
    /\ main_pc' = "write" /\ i' = 0
    /\ UNCHANGED <<threads, thread_ar, img_out, file, times>>

M_Write ==
    /\ main_pc = "write" /\ i < Height
    /\ file' = Append(file, img_out[i]) /\ i' = i + 1
    /\ UNCHANGED <<main_pc, threads, thread_ar, img_out, times>>

(* The return from main ends the threads that are left.                     *)
M_Done ==
    /\ main_pc = "write" /\ i = Height
    /\ main_pc' = "done"
    /\ UNCHANGED <<i, threads, thread_ar, img_out, file, times>>

-----------------------------------------------------------------------------
(* start_routine                                                            *)

ProcessRuns == main_pc \notin {"done", "undefined"}

T_Row(t) ==
    /\ ProcessRuns
    /\ thread_pc[t] = "running" /\ x[t] < ar[t][2]
    /\ img_out' = [img_out EXCEPT ![x[t]] = Row(x[t])]
    /\ times' = [times EXCEPT ![x[t]] = @ + 1]
    /\ x' = [x EXCEPT ![t] = @ + 1]
    /\ UNCHANGED <<main_pc, i, ar, thread_pc, thread_ar, file>>

T_Return(t) ==
    /\ ProcessRuns
    /\ thread_pc[t] = "running" /\ x[t] >= ar[t][2]
    /\ thread_pc' = [thread_pc EXCEPT ![t] = "done"]
    /\ UNCHANGED <<main_pc, i, ar, x, thread_ar, img_out, file, times>>

Main ==
    \/ M_Create \/ M_CreatePastArray \/ M_Created
    \/ M_Join   \/ M_JoinNothing     \/ M_Joined
    \/ M_Write  \/ M_Done

Thread(t) == T_Row(t) \/ T_Return(t)

Next == Main \/ \E t \in Threads : Thread(t)

Spec == Init /\ [][Next]_vars

(* main and all threads run.                                                *)
FairSpec ==
    /\ Spec
    /\ WF_vars(Main)
    /\ \A t \in Threads : WF_vars(Thread(t))

-----------------------------------------------------------------------------
(* Properties                                                               *)

(* The state is of the expected shape; a band lies in the image.            *)
TypeOK ==
    /\ main_pc \in {"create", "join", "write", "done", "undefined"}
    /\ i \in Nat
    /\ ar \in [Threads -> (0..Height) \X (0..Height)]
    /\ x \in [Threads -> 0..Height]
    /\ thread_pc \in [Threads -> {"none", "running", "done"}]
    /\ thread_ar \in [Threads -> Threads \union {-1}]
    /\ DOMAIN img_out = Rows
    /\ times \in [Rows -> Nat]

(* No two threads ever compute the same row, and when all threads are done  *)
(* no row is left out, whether or not ThreadNo divides Height.              *)
EachRowOnce ==
    \A r \in Rows :
        /\ times[r] <= 1
        /\ (\A t \in Threads : thread_pc[t] = "done") => times[r] = 1

(* Why: threads are created one by one, each with its own band, and a row   *)
(* has been computed if it is in a band and its thread is past it.          *)
BandInv ==
    /\ main_pc = "create" =>
          /\ i = 2 * (i \div 2)
          /\ \A t \in Threads : thread_pc[t] = "none" <=> i <= 2 * t
    /\ \A t \in Threads : thread_pc[t] # "none" =>
          /\ ar[t] = Band(2 * t)
          /\ ar[t][1] <= x[t] /\ x[t] <= ar[t][2]
          /\ thread_pc[t] = "done" => x[t] = ar[t][2]
    /\ \A r \in Rows :
          times[r] = IF \E t \in Threads : /\ thread_pc[t] # "none"
                                           /\ ar[t][1] <= r /\ r < x[t]
                     THEN 1 ELSE 0

(* Reference: the value of a pixel, where a place outside of the image      *)
(* counts as the nearest one inside.                                        *)
Distance(m, n) == IF m < n THEN n - m ELSE m - n
Nearest(n, size) == CHOOSE m \in 0..(size - 1) :
                        \A l \in 0..(size - 1) : Distance(m, n) <= Distance(l, n)
ExpectedPixel(r, c) ==
    LET back == (FilterSize + 1) \div 2 IN
    Weighted([w \in Window \X Window |->
                 Image[<<Nearest(r - back + w[1], Height), Nearest(c - back + w[2], Width)>>]])
Expected(r) == [c \in Columns |-> ExpectedPixel(r, c)]

InBand(r, t) == Band(2 * t)[1] <= r /\ r < Band(2 * t)[2]

(* Whatever the threads do meanwhile, the file has the expected rows of all *)
(* threads main holds a handle of.                                          *)
JoinedRowsInFile ==
    main_pc = "done" =>
        \A e \in Threads : thread_ar[e] # -1 =>
            \A r \in Rows : InBand(r, thread_ar[e]) => file[r + 1] = Expected(r)

(* Why: the rows a thread is past have their values (RowsComputed); the     *)
(* threads behind main's handles are done when main has gone past their     *)
(* entries (Waited); main copies the rows in their order (Written).         *)
RowValues == {<<>>} \union {Row(r) : r \in Rows}

RowsComputed ==
    /\ img_out \in [Rows -> RowValues]
    /\ \A t \in Threads, r \in Rows :
          thread_pc[t] # "none" /\ ar[t][1] <= r /\ r < x[t] => img_out[r] = Row(r)

Waited ==
    /\ main_pc = "join" => i <= ThreadNo
    /\ \A e \in Threads :
          /\ thread_ar[e] # -1
          /\ (main_pc = "join" /\ e < i) \/ main_pc \in {"write", "done"}
          => thread_pc[thread_ar[e]] = "done"

Written ==
    /\ file \in Seq(RowValues)
    /\ main_pc \in {"create", "join"} => file = <<>>
    /\ main_pc \in {"write", "done"} =>
          /\ i <= Height /\ Len(file) = i
          /\ \A e \in Threads : thread_ar[e] # -1 =>
                \A r \in Rows : InBand(r, thread_ar[e]) /\ r < i => file[r + 1] = Row(r)
    /\ main_pc = "done" => i = Height

(* The whole result is written (zad1.c:204, "result into img_out file").    *)
ResultInFile == main_pc = "done" => \A r \in Rows : file[r + 1] = Expected(r)
=============================================================================
