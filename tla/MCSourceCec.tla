----------------------------- MODULE MCSourceCec ------------------------------
(* An instance of SourceCec for TLC: one API thread, as the plugin is used.  *)
EXTENDS SourceCec
MCDevices == {4}
===============================================================================
