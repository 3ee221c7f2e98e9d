----------------------------- MODULE MCFifoSlots -----------------------------
(* An instance of FifoSlots for TLC: two captures of two pool threads, two slots.  Its  *)
(* threads are not declared symmetric, which liveness checking would not allow.         *)
EXTENDS FifoSlots
==============================================================================
