------------------------- MODULE MCProducerConsumer -------------------------
(* Small instances of ProducerConsumer for TLC.                             *)
EXTENDS ProducerConsumer

CONSTANTS p1, p2, p3, c1, c2, c3

(* strlen of the lines of the file, shorter, as long as and longer than L.  *)
MCLineLength3 == <<2, 1, 3>>
MCLineLength4 == <<2, 1, 3, 1>>
=============================================================================
