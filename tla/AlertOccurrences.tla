--------------------------- MODULE AlertOccurrences ---------------------------
(***************************************************************************)
(* What ingestion promises about the occurrences of one fingerprint,       *)
(* however many handlers work on them: an occurrence is stored once, in its *)
(* own incident or, when episodes are on, in an earlier one; it ends once;  *)
(* nothing reopens it or moves it to another incident.                      *)
(***************************************************************************)
EXTENDS Naturals

CONSTANTS Starts, Quiet

VARIABLE occ    \* start -> the occurrence's incident and whether it fires

Absent == [incident |-> 0, state |-> "ABSENT"]

Stored(s) == occ[s] # Absent
Founded(i) == Stored(i) /\ occ[i].incident = i

Init == occ = [s \in Starts |-> Absent]

\* A delivery opens an incident, whether the alert fires still or has ended already.
Open(s, state) ==
    /\ ~Stored(s)
    /\ occ' = [occ EXCEPT ![s] = [incident |-> s, state |-> state]]

\* A firing occurrence continues the episode i of an earlier one.
Continue(s, i) ==
    /\ Quiet > 0
    /\ ~Stored(s) /\ Founded(i) /\ i < s
    /\ occ' = [occ EXCEPT ![s] = [incident |-> i, state |-> "FIRING"]]

End(s) ==
    /\ Stored(s) /\ occ[s].state = "FIRING"
    /\ occ' = [occ EXCEPT ![s] = [incident |-> occ[s].incident, state |-> "RESOLVED"]]

Next ==
    \E s \in Starts :
        \/ \E state \in {"FIRING", "RESOLVED"} : Open(s, state)
        \/ \E i \in Starts : Continue(s, i)
        \/ End(s)

Spec == Init /\ [][Next]_occ
==============================================================================
