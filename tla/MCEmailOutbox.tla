----------------------------- MODULE MCEmailOutbox -----------------------------
(* Instances of EmailOutbox for TLC.                                          *)
EXTENDS EmailOutbox

CONSTANTS w1, w2, i1, i2
================================================================================
