--------------------------- MODULE MCSinkPresence ----------------------------
(***************************************************************************)
(* Instances of SinkPresence for TLC.                                      *)
(***************************************************************************)
EXTENDS SinkPresence
==============================================================================
