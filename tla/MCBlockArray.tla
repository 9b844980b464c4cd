---------------------------- MODULE MCBlockArray ----------------------------
(* A small instance of BlockArray for TLC.                                  *)
EXTENDS BlockArray
=============================================================================
