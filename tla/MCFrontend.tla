----------------------------- MODULE MCFrontend -----------------------------
(***************************************************************************)
(* Instances of Frontend for TLC.  Its state space is finite: nothing is   *)
(* counted, and the kinds of calls that fail may fail any number of times. *)
(***************************************************************************)
EXTENDS Frontend
=============================================================================
