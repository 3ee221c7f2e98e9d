---------------------------- MODULE MCAlertChannel ----------------------------
(* Instances of AlertChannel for TLC: two occurrences, small buffers and pages. *)
EXTENDS AlertChannel
==============================================================================
