------------------------ MODULE MCSemProducerConsumer ------------------------
(* Small instances of SemProducerConsumer for TLC.                          *)
EXTENDS SemProducerConsumer

CONSTANTS p1, p2, c1, c2

MCLineLength2 == <<1, 3>>

=============================================================================
