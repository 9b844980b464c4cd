----------------------------- MODULE MCWorkPermits -----------------------------
(* Small instances of WorkPermits for TLC.                                  *)
EXTENDS WorkPermits

CONSTANTS a, b, rt1, rt2
=============================================================================
