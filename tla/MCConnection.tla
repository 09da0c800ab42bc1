---------------------------- MODULE MCConnection ----------------------------
(***************************************************************************)
(* Instances of Connection for TLC.  Callers are interchangeable.          *)
(***************************************************************************)
EXTENDS Connection, TLC

CallerSymmetry == Permutations(Tasks)
=============================================================================
