----------------------------- MODULE MCFrameLog -----------------------------
(***************************************************************************)
(* Two captures that share a file and one of its own, for TLC.             *)
(***************************************************************************)
EXTENDS FrameLog

CONSTANTS c1, c2, c3

MCPathOf == [c \in Captures |-> IF c = c3 THEN "own" ELSE "shared"]
=============================================================================
