------------------------- MODULE MCDiagnosisRevisions -------------------------
(* An instance of DiagnosisRevisions for TLC: the evidence of a requirement is complete  *)
(* at the time 1, its deadline is due at 2, and its horizon ends at 3.                    *)
EXTENDS DiagnosisRevisions
MCNotBefore == [k \in Keys |-> 1]
==============================================================================
