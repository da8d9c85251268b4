---------------------------- MODULE MCSseBroker -----------------------------
(* SseBroker for TLC.                                                        *)
EXTENDS SseBroker
=============================================================================
