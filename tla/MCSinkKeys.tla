----------------------------- MODULE MCSinkKeys ------------------------------
(***************************************************************************)
(* Instances of SinkKeys for TLC.  MaxKeys is the only bound.  Two keys are *)
(* enough for a key that arrives while the status of the one before it is  *)
(* being found out, and for a push between the sender's look at the queue  *)
(* and its sleep.                                                          *)
(***************************************************************************)
EXTENDS SinkKeys
==============================================================================
