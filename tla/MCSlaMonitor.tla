---------------------------- MODULE MCSlaMonitor ----------------------------
(* SlaMonitor for TLC.                                                       *)
EXTENDS SlaMonitor
=============================================================================
