---------------------------- MODULE MCUserAccess ----------------------------
(* Small instances of UserAccess. *)
EXTENDS UserAccess, TLC
=============================================================================
