------------------------------ MODULE MCSrbPath ------------------------------
(***************************************************************************)
(* Instances of SrbPath for TLC.  The read/write SRB w is cut into two     *)
(* requests, so that a response can be an SRB's first or its last, and a   *)
(* ring of three entries holds w (the test for free slots is strict) but   *)
(* not w and another SRB together: SRBs are put back.  With two CPUs the   *)
(* ring has four entries, so that both can have an SRB on it at once.      *)
(***************************************************************************)
EXTENDS SrbPath

CONSTANT w

MCNumRequests == [s \in Data |-> IF s = w THEN 2 ELSE 1]

\* The CPUs are interchangeable: no action, no initial state and no invariant
\* names one.
CpuSymmetry == Permutations(Cpus)
=============================================================================
