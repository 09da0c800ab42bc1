---------------------------- MODULE MCLinkTimers ----------------------------
(***************************************************************************)
(* Instances of LinkTimers for TLC.  Callers are interchangeable.          *)
(***************************************************************************)
EXTENDS LinkTimers, TLC

CONSTANTS t1, t2

CallerSymmetry == Permutations(Tasks)
=============================================================================
