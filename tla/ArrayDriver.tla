----------------------------- MODULE ArrayDriver -----------------------------
(****************************************************************************)
(* cw01/zad2, zad3a and zad3b: programs that create an array of the library *)
(* of BlockArray, carry out two operations of their arguments (add, add and *)
(* remove, remove, search), and delete the array.  They measure the time,   *)
(* and therefore repeat some operations; zad3a and zad3b load the library   *)
(* at run time.                                                             *)
(*                                                                          *)
(* The length of a dynamic array is the program's to keep: the library is   *)
(* told it with every call.                                                 *)
(****************************************************************************)
EXTENDS BlockArray

CONSTANTS T_Ops,           \* operations that are tried: [kind, n]
          T_Lengths,       \* lengths of a dynamic array that are tried
          rep

ASSUME DriverConstants ==
    /\ T_Ops \subseteq [kind : {"a", "ar", "r", "s", "?"}, n : Nat]
    /\ T_Lengths \subseteq Nat \ {0} /\ rep \in Nat \ {0}

VARIABLES T_version,       \* "zad2", "zad3a" or "zad3b"
          T_ops,           \* the two operations
          T_at, T_op, T_k, \* place, number of the operation, rounds done
          T_al,            \* the program's variable al
          T_first          \* the length asked for

T_args == <<T_version, T_ops, T_first>>
T_own  == <<T_args, T_at, T_op, T_k, T_al>>
T_vars == <<A_vars, T_own>>

T_Init ==
    /\ A_kind \in {"dynamic", "static"} /\ T_version \in {"zad2", "zad3a", "zad3b"}
    /\ T_ops \in [1..2 -> T_Ops]
    /\ T_first \in IF A_kind = "dynamic" THEN T_Lengths ELSE {0}
    /\ T_al = T_first
    /\ T_at = "create" /\ T_op = 1 /\ T_k = 0
    /\ A_ar = <<>> /\ A_heap = <<>> /\ A_spilled = {}
    /\ A_static = [k \in 1..(NoBlocks * SoBlocks) |-> 0]
    /\ A_list = [k \in 1..(IF A_kind = "dynamic" THEN 0 ELSE NoBlocks) |-> <<>>]

Op    == T_ops[T_op]
Moves(from, to) == T_at = from /\ T_at' = to /\ UNCHANGED T_args

(* How often the body of the loops is run: those of a static array and the  *)
(* removal in zad2 are repeated.                                            *)
Rounds == IF A_kind = "static" \/ (T_version = "zad2" /\ Op.kind = "r")
          THEN rep * Op.n ELSE Op.n

-----------------------------------------------------------------------------
(* The array is created and filled.                                         *)
CreateDynamic ==
    /\ A_kind = "dynamic" /\ Moves("create", "operate")
    /\ LET full == [k \in 1..(bl - 1) |-> Min(Letters)] IN
        /\ A_ar' = [k \in 1..T_al |-> k]
        /\ A_heap' = [k \in 1..T_al |-> Filled(full, bl)]
        /\ A_list' = [k \in 1..T_al |-> full]
    /\ UNCHANGED <<A_kind, A_static, A_spilled, T_op, T_k, T_al>>

CreateStatic ==
    /\ T_version # "zad3a" /\ Moves("create", "operate")
    /\ createArrayStatic
    /\ UNCHANGED <<T_op, T_k, T_al>>

(* zad3a fills it as if a block began every NoBlocks characters, over what  *)
(* createArrayStatic wrote.  Once it leaves the array it may die.           *)
CreateStatic3a ==
    LET offset(k) == (k - 1) - NoBlocks * Min({(k - 1) \div NoBlocks, NoBlocks - 1})
        ends(k)   == IF offset(k) < SoBlocks THEN offset(k) = SoBlocks - 1 ELSE k % SoBlocks = 0
    IN  /\ A_kind = "static" /\ T_version = "zad3a"
        /\ \/ Moves("create", "operate")
           \/ Moves("create", "killed") /\ (NoBlocks - 1) * NoBlocks >= NoBlocks * SoBlocks
        /\ A_static' = [k \in DOMAIN A_static |-> IF ends(k) THEN 0 ELSE Min(Letters)]
        /\ A_list' = [k \in DOMAIN A_list |-> [c \in 1..(SoBlocks - 1) |-> Min(Letters)]]
        /\ A_spilled' = 0..NoBlocks
        /\ UNCHANGED <<A_kind, A_dynamic, T_op, T_k, T_al>>

-----------------------------------------------------------------------------
(* A round of an operation on a dynamic array; its index is the remainder   *)
(* of a division by the length.                                             *)
Word  == <<Max(Letters)>>
Pos   == (T_k % Op.n) % T_al
Round == T_k < Rounds /\ T_k' = T_k + 1 /\ UNCHANGED T_op

AddDynamic ==
    /\ Op.kind \in {"a", "ar"} /\ Round /\ T_al > 0
    /\ Moves("operate", IF Op.kind = "ar" THEN "added" ELSE "operate")
    /\ addBlockDynamic(Pos, Word)
    /\ T_al' = T_al + 1

(* The second half of a round that adds and removes.                        *)
RemoveAdded ==
    /\ Moves("added", "operate")
    /\ deleteBlockDynamic(((T_k - 1) % Op.n) % T_al)
    /\ T_al' = T_al - 1
    /\ UNCHANGED <<T_op, T_k>>

(* Seeded fault: the length is not brought up to date.                      *)
RemoveDynamic_Keeps ==
    /\ Op.kind = "r" /\ Round /\ T_al > 0
    /\ Moves("operate", "operate")
    /\ deleteBlockDynamic(Pos)
    /\ UNCHANGED T_al

RemoveDynamic ==
    /\ Op.kind = "r" /\ Round /\ T_al > 0
    /\ Moves("operate", "operate")
    /\ deleteBlockDynamic(Pos)
    /\ T_al' = T_al - 1

(* j % al when all blocks are gone.                                         *)
DivideByZero ==
    /\ A_kind = "dynamic" /\ Op.kind \in {"a", "ar", "r"} /\ Round /\ T_al = 0
    /\ Moves("operate", "killed")
    /\ UNCHANGED <<A_vars, T_al>>

(* The rounds on a static array all use the same block: the index is made   *)
(* of the variable that counts arguments.                                   *)
OnStatic ==
    /\ Round /\ Moves("operate", IF Op.kind = "ar" THEN "added" ELSE "operate")
    /\ \/ Op.kind \in {"a", "ar"} /\ insertBlockStatic((2 * T_op) % NoBlocks, Word)
       \/ Op.kind = "r" /\ deleteBlockStatic((2 * T_op) % NoBlocks)
    /\ UNCHANGED T_al

RemoveAddedStatic ==
    /\ Moves("added", "operate")
    /\ deleteBlockStatic((2 * T_op) % NoBlocks)
    /\ UNCHANGED <<T_op, T_k, T_al>>

(* The search, whose result nobody uses; what is no operation; the end of   *)
(* the rounds.                                                              *)
NextOp ==
    /\ Op.kind \in {"s", "?"} \/ T_k = Rounds
    /\ Moves("operate", IF T_op = 2 THEN "delete" ELSE "operate")
    /\ T_op' = (T_op % 2) + 1 /\ T_k' = 0
    /\ UNCHANGED <<A_vars, T_al>>

DeleteDynamic ==
    /\ A_kind = "dynamic" /\ Moves("delete", "done")
    /\ A_heap' = [y \in DOMAIN A_heap \ {A_ar[k] : k \in 1..T_al} |-> A_heap[y]]
    /\ A_ar' = <<>> /\ A_list' = <<>>
    /\ UNCHANGED <<A_kind, A_static, A_spilled, T_op, T_k, T_al>>

DeleteStatic ==
    /\ Moves("delete", "done") /\ deleteArrayStatic
    /\ UNCHANGED <<T_op, T_k, T_al>>

T_Next ==
    \/ CreateDynamic \/ AddDynamic \/ RemoveAdded \/ RemoveDynamic \/ DivideByZero
    \/ CreateStatic  \/ CreateStatic3a \/ OnStatic \/ RemoveAddedStatic
    \/ NextOp        \/ DeleteDynamic \/ DeleteStatic

T_Spec == T_Init /\ [][T_Next]_T_vars

-----------------------------------------------------------------------------
(* Property                                                                 *)

Removed(n) == LET o == T_ops[n] IN
    IF o.kind # "r" THEN 0 ELSE IF T_version = "zad2" THEN rep * o.n ELSE o.n
Added(n)   == IF T_ops[n].kind = "a" THEN T_ops[n].n ELSE 0

(* The length the program keeps is the array's after any operations, so     *)
(* that in the end nothing stays allocated.  It dies only of a removal of   *)
(* all the blocks it asked for and added since, or of more; or, in zad3a,   *)
(* of the static array.                                                     *)
LengthIsKept ==
    /\ A_kind = "dynamic" /\ T_at \in {"operate", "added", "delete"} => T_al = Len(A_ar)
    /\ A_kind = "dynamic" /\ T_at = "done" => DOMAIN A_heap = {}
    /\ T_at = "killed" => \/ A_kind = "static" /\ T_version = "zad3a"
                          \/ Removed(1) >= T_first
                          \/ Removed(2) >= T_first + Added(1) - Removed(1)
=============================================================================
