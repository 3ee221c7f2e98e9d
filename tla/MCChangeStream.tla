---------------------------- MODULE MCChangeStream ----------------------------
(* An instance of ChangeStream for TLC: one scope of objects. *)
EXTENDS ChangeStream
==============================================================================
