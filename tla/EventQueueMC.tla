---------------------------- MODULE EventQueueMC ----------------------------
(* EventQueue with two generators and one or two deferred tracks.          *)
EXTENDS EventQueue, TLC

CONSTANTS g1, g2, t1, t2

\* A new generator's time is whatever was in memory.
SomeGarbage == {0 - 5, 2}
=============================================================================
