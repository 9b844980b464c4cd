---------------------------- MODULE MCImageFilter ----------------------------
(* Small instances of ImageFilter for TLC: an image whose pixels all differ *)
(* and a filter without symmetry.                                           *)
EXTENDS ImageFilter

MCImage   == [p \in Rows \X Columns |-> 5 * p[1] * p[1] + 3 * p[2] + 1]
MCWeights == [w \in Window \X Window |-> 10 * w[1] + w[2] + 1]
=============================================================================
