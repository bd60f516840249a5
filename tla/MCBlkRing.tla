------------------------------ MODULE MCBlkRing ------------------------------
(***************************************************************************)
(* Instances of BlkRing for TLC: a ring of three slots, indices that wrap  *)
(* after two laps, and as many ids as there are slots, one more than can   *)
(* be outstanding.  The code's rings are powers of two only for the mask.  *)
(***************************************************************************)
EXTENDS BlkRing

\* Ids that are free are interchangeable: the lowest are allocated first, and an
\* SRB's are put on the ring in their order.
LowestFirst ==
  /\ \A id \in inUse' \ inUse : \A x \in Ids \ inUse' : id < x
  /\ \A i, j \in inUse' \ inUse : i < j => slots'[Slot(reqProdPvt)] = i
=============================================================================
