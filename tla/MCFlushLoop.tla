----------------------------- MODULE MCFlushLoop -----------------------------
(* Instances of FlushLoop for TLC: two distinguishable rows, a buffer of   *)
(* two by default and up to four rows alive, so that a transaction can     *)
(* outgrow the buffer; a configuration that says 0 for both settings.      *)
EXTENDS FlushLoop

CONSTANTS r1, r2
==============================================================================
