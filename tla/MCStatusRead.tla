---------------------------- MODULE MCStatusRead ----------------------------
(***************************************************************************)
(* An instance of StatusRead for TLC: three requests, replies of up to     *)
(* three packets, a queue that can overflow.                               *)
(***************************************************************************)
EXTENDS StatusRead
=============================================================================
