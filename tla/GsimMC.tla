------------------------------- MODULE GsimMC -------------------------------
(***************************************************************************)
(* Small instances of the simulation.                                      *)
(***************************************************************************)
EXTENDS Gsim, TLC

PmtSymmetry == Permutations(Pmts)
=============================================================================
