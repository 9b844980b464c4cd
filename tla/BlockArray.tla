----------------------------- MODULE BlockArray -----------------------------
(****************************************************************************)
(* cw01/zad1/library.c: an array of blocks, each one a string, in two forms *)
(* that a program picks from.  The dynamic array is a table of pointers to  *)
(* blocks on the heap, of a length its user keeps; the static one is a piece *)
(* of memory cut into NoBlocks blocks of SoBlocks characters.  Both find    *)
(* the block whose sum of characters is nearest to that of a given one.     *)
(*                                                                          *)
(* Operations are called as cw01's test programs call them: with a length   *)
(* that is kept up to date, blocks that were filled, and for                *)
(* insertBlockDynamic an index and a string that fit (it only prints a      *)
(* message otherwise, and writes all the same).                             *)
(****************************************************************************)
EXTENDS Integers, Sequences, SequencesExt, FiniteSetsExt

CONSTANTS Letters,             \* characters, as numbers
          SoBlocks, NoBlocks,  \* of the static array
          bl,                  \* size of a dynamic block
          MaxBlocks            \* bound on the length of the dynamic array

ASSUME BlockConstants ==
    /\ Letters \subseteq Nat \ {0} /\ Letters # {}
    /\ {SoBlocks, NoBlocks, bl, MaxBlocks} \subseteq Nat \ {0}

Strings(n) == UNION {[1..k -> Letters] : k \in 0..n}

VARIABLES A_kind,              \* which of the two arrays the program uses
          A_ar, A_heap,        \* pointers; what is allocated, by address
          A_static,            \* memory of the static array
          A_list,              \* history variable: the strings put in, in order
          A_spilled            \* history variable: static blocks that were given
                               \* a string with no room for its terminator

A_dynamic == <<A_ar, A_heap>>
A_vars    == <<A_kind, A_dynamic, A_static, A_list, A_spilled>>

(* A block of n characters that holds s.                                    *)
Filled(s, n) == [k \in 1..n |-> IF k <= Len(s) THEN s[k] ELSE 0]

(* The string in memory from place i on, up to its terminator.              *)
StringAt(memory, i) ==
    LET ends == {k \in i..Len(memory) : memory[k] = 0}
    IN  SubSeq(memory, i, IF ends = {} THEN Len(memory) ELSE Min(ends) - 1)

al == Len(A_ar)
Block(n)       == StringAt(A_heap[A_ar[n + 1]], 1)
StaticBlock(n) == StringAt(A_static, n * SoBlocks + 1)

(* The first address malloc has free.                                       *)
NewAddress(heap) == Min((1..(Cardinality(DOMAIN heap) + 1)) \ DOMAIN heap)

A_Init ==
    /\ A_kind \in {"dynamic", "static"}
    /\ A_ar = IF A_kind = "dynamic" THEN <<1>> ELSE <<>>
    /\ A_heap = [x \in ToSet(A_ar) |-> Filled(<<>>, bl)]
    /\ A_static = [k \in 1..(NoBlocks * SoBlocks) |-> 0]
    /\ A_list = [k \in 1..(IF A_kind = "dynamic" THEN 1 ELSE NoBlocks) |-> <<>>]
    /\ A_spilled = {}

-----------------------------------------------------------------------------
(* The dynamic array: the loops move a pointer by changing neighbours, and  *)
(* at[pos] is the table when the pointer has come to place pos.             *)

Exchange(ar, p) == [ar EXCEPT ![p] = ar[p + 1], ![p + 1] = ar[p]]

(* The last pointer is moved down to index n.                               *)
MovedDown(ar, n) ==
    LET at[pos \in (n + 1)..Len(ar)] ==
            IF pos = Len(ar) THEN ar ELSE Exchange(at[pos + 1], pos)
    IN  at[n + 1]

(* The pointer at index n is moved up to the end.                           *)
MovedUp(ar, n) ==
    LET at[pos \in (n + 1)..Len(ar)] ==
            IF pos = n + 1 THEN ar ELSE Exchange(at[pos - 1], pos - 1)
    IN  at[Len(ar)]

addBlockDynamic(n, s) ==
    /\ A_kind = "dynamic" /\ n < al
    /\ LET x == NewAddress(A_heap) IN
        /\ A_heap' = [y \in DOMAIN A_heap \union {x} |->
                         IF y = x THEN Filled(s, bl) ELSE A_heap[y]]
        /\ A_ar' = MovedDown(Append(A_ar, x), n)
    /\ A_list' = InsertAt(A_list, n + 1, s)
    /\ UNCHANGED <<A_kind, A_static, A_spilled>>

insertBlockDynamic(n, s) ==
    /\ A_kind = "dynamic" /\ n < al
    /\ A_heap' = [A_heap EXCEPT ![A_ar[n + 1]] = Filled(s, bl)]
    /\ A_list' = [A_list EXCEPT ![n + 1] = s]
    /\ UNCHANGED <<A_kind, A_ar, A_static, A_spilled>>

(* Seeded fault: the block at index n is freed, not the one moved there.    *)
deleteBlockDynamic_FreesN(n) ==
    /\ A_kind = "dynamic" /\ n < al
    /\ LET ar == MovedUp(A_ar, n) IN
        /\ A_heap' = [y \in DOMAIN A_heap \ {ar[n + 1]} |-> A_heap[y]]
        /\ A_ar' = Front(ar)
    /\ A_list' = RemoveAt(A_list, n + 1)
    /\ UNCHANGED <<A_kind, A_static, A_spilled>>

deleteBlockDynamic(n) ==
    /\ A_kind = "dynamic" /\ n < al
    /\ LET ar == MovedUp(A_ar, n) IN
        /\ A_heap' = [y \in DOMAIN A_heap \ {Last(ar)} |-> A_heap[y]]
        /\ A_ar' = Front(ar)
    /\ A_list' = RemoveAt(A_list, n + 1)
    /\ UNCHANGED <<A_kind, A_static, A_spilled>>

(* All blocks are freed, and a new array has one block that is filled.      *)
recreateArrayDynamic ==
    /\ A_kind = "dynamic"
    /\ LET heap == [y \in DOMAIN A_heap \ ToSet(A_ar) |-> A_heap[y]]
           x    == NewAddress(heap)
       IN  /\ A_heap' = [y \in DOMAIN heap \union {x} |->
                            IF y = x THEN Filled(<<>>, bl) ELSE heap[y]]
           /\ A_ar' = <<x>>
    /\ A_list' = << <<>> >>
    /\ UNCHANGED <<A_kind, A_static, A_spilled>>

-----------------------------------------------------------------------------
(* The static array.                                                        *)

(* strcpy: the terminator of a string as long as the block is written over  *)
(* the first character of the next one (or behind the array).               *)
insertBlockStatic(n, s) ==
    /\ A_kind = "static"
    /\ A_static' = [k \in DOMAIN A_static |->
                       IF (k - 1) \div SoBlocks = n
                       THEN Filled(s, SoBlocks)[((k - 1) % SoBlocks) + 1]
                       ELSE IF Len(s) = SoBlocks /\ k = (n + 1) * SoBlocks + 1 THEN 0
                       ELSE A_static[k]]
    /\ A_list' = [A_list EXCEPT ![n + 1] = s]
    /\ A_spilled' = IF Len(s) = SoBlocks THEN A_spilled \union {n, n + 1} ELSE A_spilled
    /\ UNCHANGED <<A_kind, A_dynamic>>

deleteBlockStatic(n) ==
    /\ A_kind = "static"
    /\ A_static' = [k \in DOMAIN A_static |->
                       IF (k - 1) \div SoBlocks = n THEN 0 ELSE A_static[k]]
    /\ A_list' = [A_list EXCEPT ![n + 1] = <<>>]
    /\ UNCHANGED <<A_kind, A_dynamic, A_spilled>>

(* deleteArrayStatic; createArrayStatic fills all blocks with one letter.   *)
deleteArrayStatic ==
    /\ A_kind = "static"
    /\ A_static' = [k \in DOMAIN A_static |-> 0]
    /\ A_list' = [k \in DOMAIN A_list |-> <<>>]
    /\ A_spilled' = {}
    /\ UNCHANGED <<A_kind, A_dynamic>>

createArrayStatic ==
    LET full == [k \in 1..(SoBlocks - 1) |-> Min(Letters)] IN
    /\ A_kind = "static"
    /\ A_static' = [k \in DOMAIN A_static |->
                       IF k % SoBlocks = 0 THEN 0 ELSE Min(Letters)]
    /\ A_list' = [k \in DOMAIN A_list |-> full]
    /\ A_spilled' = {}
    /\ UNCHANGED <<A_kind, A_dynamic>>

A_Next ==
    \/ \E n \in 0..(MaxBlocks - 1) :
          \/ deleteBlockDynamic(n)
          \/ \E s \in Strings(bl - 1) : insertBlockDynamic(n, s)
          \/ al < MaxBlocks /\ \E s \in Strings(bl - 1) : addBlockDynamic(n, s)
    \/ \E n \in 0..(NoBlocks - 1) :
          \/ deleteBlockStatic(n)
          \/ \E s \in Strings(SoBlocks) : insertBlockStatic(n, s)
    \/ recreateArrayDynamic \/ deleteArrayStatic \/ createArrayStatic

A_Spec == A_Init /\ [][A_Next]_A_vars

-----------------------------------------------------------------------------
(* The searches                                                             *)

(* The numbers of the characters of s, added up.                            *)
Sum(s) ==
    LET upTo[k \in 0..Len(s)] == IF k = 0 THEN 0 ELSE upTo[k - 1] + s[k]
    IN  upTo[Len(s)]

Abs(x) == IF x < 0 THEN -x ELSE x

(* The loop of a search for index n, over the sums of the blocks: a block   *)
(* is taken if it is nearer than the one before.  The difference that is    *)
(* kept may have its sign.                                                  *)
Search(sums, n, sum, signed) ==
    LET found[i \in 0..Len(sums)] ==
            IF i = 0 THEN [pos |-> 0, sumdiff |-> sum]
            ELSE LET d == sums[i] - sum IN
                 IF Abs(d) < found[i - 1].sumdiff /\ i - 1 # n
                 THEN [pos |-> i - 1, sumdiff |-> IF signed THEN d ELSE Abs(d)]
                 ELSE found[i - 1]
    IN  found[Len(sums)].pos

BlockSums == [k \in 1..al |-> Sum(Block(k - 1))]

(* Seeded fault: a block is compared with itself.                           *)
nearestDynamicSum_Itself(n) == Search(BlockSums, -1, Sum(Block(n)), FALSE)

nearestDynamicSum(n) == Search(BlockSums, n, Sum(Block(n)), FALSE)

(* The whole block is summed for the others.                                *)
nearestStaticSum(n) ==
    LET whole(i) == SubSeq(A_static, i * SoBlocks + 1, (i + 1) * SoBlocks)
    IN  Search([k \in 1..NoBlocks |-> Sum(whole(k - 1))], n, Sum(StaticBlock(n)), TRUE)

-----------------------------------------------------------------------------
(* Properties                                                               *)

(* After any sequence of operations the array holds the strings put into it, *)
(* in their order, and the heap exactly its blocks: nothing leaks and nothing *)
(* that was freed is still pointed to.  A static block may differ if it or   *)
(* the one before it was given a string of SoBlocks characters.              *)
ArrayIsList ==
    /\ A_kind = "dynamic" =>
          /\ DOMAIN A_heap = ToSet(A_ar) /\ IsInjective(A_ar)
          /\ [k \in 1..al |-> Block(k - 1)] = A_list
    /\ A_kind = "static" =>
          \A n \in (0..(NoBlocks - 1)) \ A_spilled : StaticBlock(n) = A_list[n + 1]

Others(n) == (0..(Len(A_list) - 1)) \ {n}
Distance(i, n) == Abs(Sum(A_list[i + 1]) - Sum(A_list[n + 1]))

(* The first of the nearest in S.                                           *)
FirstNearest(S, n) ==
    CHOOSE i \in S : \A k \in S : \/ Distance(i, n) < Distance(k, n)
                                  \/ Distance(i, n) = Distance(k, n) /\ i <= k

(* Both searches start as if they had found a block at the distance of the  *)
(* block's own sum, so that a nearest one is promised if one is nearer.     *)
HasNear(n) == \E i \in Others(n) : Distance(i, n) < Sum(A_list[n + 1])

(* The search in a dynamic array finds the first of the nearest of all      *)
(* other blocks, after any sequence of operations.                          *)
NearestIsNearest ==
    A_kind = "dynamic" =>
        \A n \in 0..(Len(A_list) - 1) :
            HasNear(n) => nearestDynamicSum(n) = FirstNearest(Others(n), n)

(* So should the search in a static array, as its name and the programs say *)
(* ("You have chosen to search for nearest", cw01/zad3b/test.c:149).  It    *)
(* does not: the difference it keeps has its sign (library.c:183), and no   *)
(* block is nearer than a negative one.                                     *)
StaticFindsNearest ==
    A_kind = "static" /\ A_spilled = {} =>
        \A n \in 0..(NoBlocks - 1) :
            HasNear(n) => nearestStaticSum(n) = FirstNearest(Others(n), n)
=============================================================================
