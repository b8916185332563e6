------------------------------ MODULE RatJobMC ------------------------------
(* RatJob with a few files and run numbers.                                *)
EXTENDS RatJob

CONSTANTS f1, f2, r1, r2
=============================================================================
