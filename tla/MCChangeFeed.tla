----------------------------- MODULE MCChangeFeed -----------------------------
(* Instances of ChangeFeed for TLC. *)
EXTENDS ChangeFeed
==============================================================================
