--------------------------- MODULE MCNodeConnect ---------------------------
(* NodeConnect on small instances.                                         *)
EXTENDS NodeConnect, TLC

\* Jobs and objects are interchangeable.
Symmetry == Permutations(Threads) \cup Permutations(Objects)
=============================================================================
