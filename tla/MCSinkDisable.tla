---------------------------- MODULE MCSinkDisable ----------------------------
(***************************************************************************)
(* Instances of SinkDisable for TLC.                                       *)
(***************************************************************************)
EXTENDS SinkDisable
==============================================================================
