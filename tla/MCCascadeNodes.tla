--------------------------- MODULE MCCascadeNodes ---------------------------
(***************************************************************************)
(* CascadeNodes for TLC: two nodes, which are alike until somebody gives   *)
(* them roles.                                                             *)
(***************************************************************************)
EXTENDS CascadeNodes, TLC

Symmetry == Permutations(NodeIds)
=============================================================================
