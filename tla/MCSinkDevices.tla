---------------------------- MODULE MCSinkDevices -----------------------------
(***************************************************************************)
(* Instances of SinkDevices for TLC.                                       *)
(***************************************************************************)
EXTENDS SinkDevices
==============================================================================
