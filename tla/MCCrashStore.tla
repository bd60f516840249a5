---------------------------- MODULE MCCrashStore ----------------------------
(***************************************************************************)
(* Instances of CrashStore for TLC.                                        *)
(***************************************************************************)
EXTENDS CrashStore
=============================================================================
