----------------------------- MODULE RecordSort -----------------------------
(****************************************************************************)
(* cw02/zad1: sorts the records of a file in place, or copies them to a new *)
(* file, either with read, write and lseek ("sys") or with the same calls   *)
(* of stdio ("lib").  The file is a sequence of bytes with a position that  *)
(* every call moves; a record is SoR bytes and is sorted by the first one.  *)
(* There is no second copy of the file: two records change places by two    *)
(* writes.  R_file is the file as the program reads it; with "lib" part of  *)
(* it can still be in the buffer of stdio.                                  *)
(****************************************************************************)
EXTENDS Integers, Sequences, SequencesExt

CONSTANTS SoR,                 \* size of a record
          RecordFiles          \* the files that are tried

ASSUME RecordConstants ==
    /\ SoR \in Nat \ {0}
    /\ \A f \in RecordFiles : f \in Seq(Nat) /\ Len(f) % SoR = 0

VARIABLES R_io,                \* sys or lib
          R_file, R_original,  \* the file now, and as it was
          R_to,                \* the copy
          R_pos,               \* position in the file
          R_at,                \* place in the program
          R_i, R_j, R_a, R_b, R_A, R_B

R_locals == <<R_i, R_j, R_a, R_b, R_A, R_B>>
R_vars   == <<R_io, R_file, R_original, R_to, R_pos, R_at, R_locals>>

(* Bytes are numbered from 0.                                               *)
R_Bytes(f, from, n) == SubSeq(f, from + 1, from + n)
R_Record(f, r)      == R_Bytes(f, r * SoR, SoR)
R_NoR               == Len(R_original) \div SoR
R_Put(f, from, s)   ==
    [k \in 1..Len(f) |-> IF k - 1 \in from..(from + Len(s) - 1) THEN s[k - from] ELSE f[k]]

R_Init ==
    /\ R_io \in {"sys", "lib"}
    /\ R_original \in RecordFiles /\ R_file = R_original /\ R_to = <<>>
    /\ R_at \in {"for", "copy"} /\ R_pos = 0
    /\ R_i = IF R_at = "copy" THEN 0 ELSE SoR
    /\ R_j = 0 /\ R_a = 0 /\ R_b = 0 /\ R_A = <<>> /\ R_B = <<>>

-----------------------------------------------------------------------------
(* The next turn of the outer loop: the record at i and the one before it.  *)
R_For ==
    /\ R_at = "for" /\ R_i < R_NoR * SoR
    /\ R_j' = R_i
    /\ R_a' = R_file[R_i + 1] /\ R_b' = R_file[R_i - SoR + 1]
    /\ R_pos' = R_i - SoR
    /\ R_at' = "while"
    /\ UNCHANGED <<R_io, R_file, R_original, R_to, R_i, R_A, R_B>>

R_ForDone ==
    /\ R_at = "for" /\ R_i >= R_NoR * SoR
    /\ R_at' = "end"
    /\ UNCHANGED <<R_io, R_file, R_original, R_to, R_pos, R_locals>>

(* Seeded fault: equal records change places, too.                          *)
R_Wrong_Unstable == R_a <= R_b

(* The record at j and the one before it are in the wrong order.            *)
R_Wrong == R_a < R_b

(* Both are read at the position, and the first one is overwritten.         *)
R_WriteA ==
    /\ R_Wrong
    /\ R_B' = R_Bytes(R_file, R_pos, SoR)
    /\ R_A' = R_Bytes(R_file, R_pos + SoR, SoR)
    /\ R_file' = R_Put(R_file, R_j - SoR, R_A')
    /\ R_pos' = R_j
    /\ UNCHANGED <<R_io, R_original, R_to, R_i, R_j, R_a, R_b>>

(* Seeded fault: the position is not moved back after the look at the first *)
(* byte.                                                                    *)
R_WriteB_LeavesPos ==
    /\ R_at = "write" /\ R_at' = "while"
    /\ R_file' = R_Put(R_file, R_pos, R_B)
    /\ R_j' = R_j - SoR
    /\ R_b' = R_file'[R_j' - SoR + 1] /\ R_pos' = R_j' - SoR + 1
    /\ UNCHANGED <<R_io, R_original, R_to, R_i, R_a, R_A, R_B>>

(* The second write, and the look at the record before.                     *)
R_WriteB ==
    /\ R_at = "write" /\ R_at' = "while"
    /\ R_file' = R_Put(R_file, R_pos, R_B)
    /\ R_j' = R_j - SoR
    /\ R_b' = R_file'[R_j' - SoR + 1] /\ R_pos' = R_j' - SoR
    /\ UNCHANGED <<R_io, R_original, R_to, R_i, R_a, R_A, R_B>>

R_While == R_at = "while" /\ R_j >= 2 * SoR /\ R_WriteA /\ R_at' = "write"

R_WhileDone ==
    /\ R_at = "while" /\ ~ (R_Wrong /\ R_j >= 2 * SoR)
    /\ R_at' = "if"
    /\ UNCHANGED <<R_io, R_file, R_original, R_to, R_pos, R_locals>>

(* The first record of the file is reached by the "if" after the loop.      *)
R_If == R_at = "if" /\ R_WriteA /\ R_at' = "write last"

R_WriteLastB ==
    /\ R_at = "write last" /\ R_at' = "for"
    /\ R_file' = R_Put(R_file, R_pos, R_B)
    /\ R_pos' = R_pos + SoR
    /\ R_i' = R_i + SoR
    /\ UNCHANGED <<R_io, R_original, R_to, R_j, R_a, R_b, R_A, R_B>>

R_IfDone ==
    /\ R_at = "if" /\ ~ R_Wrong
    /\ R_at' = "for"
    /\ R_i' = R_i + SoR
    /\ UNCHANGED <<R_io, R_file, R_original, R_to, R_pos, R_j, R_a, R_b, R_A, R_B>>

(* One turn of the loop that copies.                                        *)
R_Copy ==
    /\ R_at = "copy" /\ R_i < R_NoR
    /\ R_A' = R_Bytes(R_file, R_pos, SoR)
    /\ R_to' = R_to \o R_A'
    /\ R_pos' = R_pos + SoR
    /\ R_i' = R_i + 1
    /\ UNCHANGED <<R_io, R_file, R_original, R_at, R_j, R_a, R_b, R_B>>

R_Sort == \/ R_For \/ R_ForDone    \/ R_While \/ R_WriteB \/ R_WhileDone
          \/ R_If  \/ R_WriteLastB \/ R_IfDone
R_Next == R_Sort \/ R_Copy
R_Spec == R_Init /\ [][R_Next]_R_vars

-----------------------------------------------------------------------------
(* Properties                                                               *)

R_Records(f) == [r \in 1..(Len(f) \div SoR) |-> R_Record(f, r - 1)]

(* f has the records of g, each as often: record r is the one at p[r].      *)
R_Rearranged(f, g, p) ==
    /\ Len(f) = Len(g)
    /\ \A r, s \in DOMAIN p : p[r] = p[s] => r = s
    /\ \A r \in DOMAIN p : R_Records(f)[r] = R_Records(g)[p[r]]
R_Orders == [1..R_NoR -> 1..R_NoR]

(* Wherever the program is, the file (and the part already copied) has the  *)
(* records it had, each as often as before, except between the two writes   *)
(* of an exchange: there one record is in the file twice and the other one  *)
(* only in memory.  With "sys" this is what is left of a program stopped    *)
(* there.                                                                   *)
RecordsSurviveStop ==
    /\ R_at \notin {"write", "write last"} =>
          \E p \in R_Orders : R_Rearranged(R_file, R_original, p)
    /\ R_at \in {"write", "write last"} =>
          \E p \in R_Orders : R_Rearranged(R_Put(R_file, R_pos, R_B), R_original, p)
    /\ R_at = "copy" => R_to = R_Bytes(R_original, 0, R_i * SoR)

(* Record r comes before record s: by its first byte or, when they have the *)
(* same, because it was before it in the original.                          *)
R_Before(f, p, r, s) ==
    LET F == R_Records(f)
    IN  \/ F[r][1] < F[s][1]
        \/ F[r][1] = F[s][1] /\ p[r] < p[s]

(* At the end the records are in the order of their first bytes, and those  *)
(* with the same first byte are in the order they were in.                  *)
SortedStably ==
    R_at = "end" =>
        \E p \in R_Orders : /\ R_Rearranged(R_file, R_original, p)
                            /\ \A r, s \in 1..R_NoR : r < s => R_Before(R_file, p, r, s)
=============================================================================
