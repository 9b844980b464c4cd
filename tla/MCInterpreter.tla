---------------------------- MODULE MCInterpreter ----------------------------
(* The script of cw03/zad2 for TLC.                                         *)
EXTENDS Interpreter

(* proba.txt: ls -al, ls, mkdir ala, adddf (no program), ls.                *)
MCProba ==
    LET ok == [kind |-> "ok", cpu |-> 1, memory |-> 1]
    IN  { << ok, ok, ok, [kind |-> "missing", cpu |-> 0, memory |-> 0], ok >> }
=============================================================================
