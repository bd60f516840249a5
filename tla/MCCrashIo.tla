------------------------------ MODULE MCCrashIo -----------------------------
(***************************************************************************)
(* The instance of CrashIo that TLC checks: SRBs of two requests, one      *)
(* of which needs the only bounce buffer, beside those of one request that *)
(* SYNCHRONIZE_CACHE makes.                                                *)
(***************************************************************************)
EXTENDS CrashIo

MCShapes == {<<FALSE, FALSE>>, <<TRUE, FALSE>>}
=============================================================================
