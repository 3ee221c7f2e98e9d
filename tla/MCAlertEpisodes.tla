--------------------------- MODULE MCAlertEpisodes ---------------------------
(* AlertEpisodes with values for its constants. *)
EXTENDS AlertEpisodes

CONSTANTS w1, w2, n1, n2
==============================================================================
