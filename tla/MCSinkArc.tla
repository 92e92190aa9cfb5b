------------------------------ MODULE MCSinkArc ------------------------------
(***************************************************************************)
(* Instances of SinkArc for TLC.  The model is finite without bounds: the  *)
(* sets of calls, messages and events choose how much of it is reached.    *)
(***************************************************************************)
EXTENDS SinkArc, TLC

ApiSymmetry == Permutations(ApiThreads)
==============================================================================
