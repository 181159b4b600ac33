------------------------------- MODULE MCFiles -------------------------------
(* Constants for TLC.                                                          *)
EXTENDS Files, TLC

CONSTANTS shell, child, n1, n2, init, log, long, dev, gone, null

\* Nothing tells one place on the heap, or one task, from another.
Symmetry == Permutations(Nodes) \cup Permutations(Tasks)
==============================================================================
