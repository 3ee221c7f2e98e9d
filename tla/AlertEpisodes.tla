---------------------------- MODULE AlertEpisodes ----------------------------
(***************************************************************************)
(* Incident ingestion (packages/incident/ingestion.py, IncidentManager):   *)
(* alert deliveries of ONE fingerprint become occurrences, identified by    *)
(* their start, attached to incident episodes.  Rows of different           *)
(* fingerprints never meet in the code, so one fingerprint is enough.       *)
(*                                                                          *)
(* A worker is one request handler with its own database session.  A step   *)
(* is what it does between two points where another transaction may be      *)
(* seen: the reads a decision is based on, or one commit (READ COMMITTED;   *)
(* a column is written only where it differs from the loaded value).  An    *)
(* incident is named by the start of the occurrence that created it.        *)
(***************************************************************************)
EXTENDS Naturals, Sequences, FiniteSets

CONSTANTS
    Starts, Ends,   \* the instants at which an occurrence may begin, and end
    Notes,          \* labels and annotations, as far as they can differ
    Quiet,          \* the quiet interval Q (SRE_ALERT_QUIET_SECONDS); 0 turns episodes off
    Workers,        \* concurrent request handlers (one: the connector's stream consumer)
    NoRow,          \* no such occurrence is stored
    NoDelivery,     \* a free handler's delivery
    MaxDeliveries,  \* bound: deliveries explored
    MaxFailures     \* bound: requests that die between two steps

NoTime == 0                 \* ends_at is None
NoIncident == "no incident"

ASSUME ConstantsAssumption ==
    /\ Starts \subseteq Nat \ {NoTime}
    /\ Ends \subseteq Nat
    /\ Quiet \in Nat /\ MaxDeliveries \in Nat /\ MaxFailures \in Nat

AlertStatus == {"FIRING", "RESOLVED"}
IncidentStatus == {"OPEN", "RESOLVED"}
Triggers == {"INITIAL", "ALERT_REFIRED", "RESOLVED"}
EventTypes == {"INCIDENT_CREATED", "ALERT_REFIRED", "ALERT_RESOLVED", "ALERT_UPDATED"}
Steps == {"idle", "continue", "load", "attach", "refired", "lookup", "create",
          "update", "replace", "end", "commit end", "done"}

\* Mutant of Deliveries: the sentinel endsAt of a firing alert is kept.
DeliveriesKeepingEnd == [start : Starts, status : AlertStatus, end : Ends, note : Notes]

\* What normalize_alert hands over: a firing alert carries no end.
Deliveries ==
    [start : Starts, status : {"FIRING"}, end : {NoTime}, note : Notes]
        \cup {d \in [start : Starts, status : {"RESOLVED"}, end : Ends, note : Notes] :
                  d.end # NoTime => d.end > d.start}

Rows == [incident : Starts, status : AlertStatus, end : Nat, note : Notes]
Events == [type : EventTypes, start : Starts]
Requests ==
    [pc : Steps,
     job : Deliveries \cup {NoDelivery},      \* the delivery the request handles
     base : Starts \cup {NoTime},             \* the earlier occurrence, then the one being ended
     seen : IncidentStatus \cup {NoIncident}, \* the incident's status as loaded
     last : BOOLEAN,                          \* "still_firing is None" as read
     todo : SUBSET Starts,                    \* occurrences it still has to end
     outcome : SUBSET (Starts \X Triggers)]   \* what IngestOutcome reports
Idle == [pc |-> "idle", job |-> NoDelivery, base |-> NoTime, seen |-> NoIncident,
         last |-> FALSE, todo |-> {}, outcome |-> {}]

ASSUME NullAssumption == NoRow \notin Rows /\ NoDelivery \notin Deliveries

VARIABLES
    row,          \* the alerts table: start -> occurrence
    inc,          \* the incidents table: founding start -> status
    timeline,     \* incident_events: founding start -> events in sequence order
    started,      \* diagnoses started: founding start -> trigger -> how many
    req,          \* worker -> its request
    sent, failed  \* how much of the bounds is used

db == <<row, inc, timeline>>
vars == <<row, inc, timeline, started, req, sent, failed>>

------------------------------------------------------------------------------
(* Reads of the tables. *)

Stored(s) == row[s] # NoRow
Firing(s) == Stored(s) /\ row[s].status = "FIRING"

\* Mutants of NoOtherFires: the query is dropped; the occurrence being ended counts.
ResolveAlways(s) == s = s
NoneFires(s) == \A t \in Starts : ~(Firing(t) /\ row[t].incident = row[s].incident)

\* "still_firing is None": the incident of s has no other firing occurrence.
NoOtherFires(s) == \A t \in Starts \ {s} : ~(Firing(t) /\ row[t].incident = row[s].incident)

\* t is the latest occurrence before s, and s, not known yet, continues its episode: t
\* still fires, or ended less than Quiet before s began.
Continues(s, t) ==
    /\ ~Stored(s) /\ Stored(t) /\ t < s
    /\ \A u \in Starts : (u < s /\ Stored(u)) => u <= t
    /\ row[t].status = "FIRING" \/ (row[t].end # NoTime /\ s < row[t].end + Quiet)

\* A delivery of a known occurrence that changes nothing: its end arrives again, it is
\* reported firing after its end, or firing as it is known.
EndedAgain(d) == row[d.start].status = "RESOLVED" /\ d.status = "RESOLVED"
LateFiring(d) == row[d.start].status = "RESOLVED" /\ d.status = "FIRING"
Unchanged(d) == Firing(d.start) /\ d.status = "FIRING" /\ row[d.start].note = d.note

\* Mutants of NothingNew: a guard is missing.
NothingNewButEnd(d) == LateFiring(d) \/ Unchanged(d)
NothingNewButLate(d) == EndedAgain(d) \/ Unchanged(d)

NothingNew(d) == EndedAgain(d) \/ LateFiring(d) \/ Unchanged(d)

\* The earlier occurrences that a firing one replaces.
Replaced(s) == {t \in Starts : t < s /\ Firing(t)}

\* An UPDATE of occurrence s that is flushed and not committed holds the row's lock.
RowLockedByOther(w, s) ==
    \E v \in Workers \ {w} : req[v].pc = "commit end" /\ req[v].base = s

(* Parts of steps. *)

Goes(w, r) == req' = [req EXCEPT ![w] = r]
OnlyReads == UNCHANGED <<db, started, sent, failed>>
Record(i, type, s) ==
    timeline' = [timeline EXCEPT ![i] = Append(@, [type |-> type, start |-> s])]
NewRow(i, d) == [incident |-> i, status |-> d.status, end |-> d.end, note |-> d.note]

\* Mutant of AfterStored: the earlier occurrences are left firing.
NothingReplaced(d) == IF d.status = "FIRING" THEN "done" ELSE "done"

\* Once its occurrence is in place, a firing delivery goes on to end the ones it replaces.
AfterStored(d) == IF d.status = "FIRING" THEN "replace" ELSE "done"

------------------------------------------------------------------------------
Init ==
    /\ row = [s \in Starts |-> NoRow]
    /\ inc = [i \in Starts |-> NoIncident]
    /\ timeline = [i \in Starts |-> <<>>]
    /\ started = [i \in Starts |-> [k \in Triggers |-> 0]]
    /\ req = [w \in Workers |-> Idle]
    /\ sent = 0 /\ failed = 0

\* A delivery reaches a free handler: late, repeated and reordered ones included.
Deliver(w, d) ==
    /\ req[w].pc = "idle" /\ sent < MaxDeliveries
    /\ sent' = sent + 1
    /\ Goes(w, [Idle EXCEPT
                  !.pc = IF Quiet > 0 /\ d.status = "FIRING" THEN "continue" ELSE "lookup",
                  !.job = d])
    /\ UNCHANGED <<db, started, failed>>

(* _continue_episode: find the episode, load its incident, attach, record. *)

FindEpisode(w) ==
    LET s == req[w].job.start IN
    /\ req[w].pc = "continue"
    /\ \/ \E t \in Starts :
             Continues(s, t) /\ Goes(w, [req[w] EXCEPT !.pc = "load", !.base = t])
       \/ (\A t \in Starts : ~Continues(s, t)) /\ Goes(w, [req[w] EXCEPT !.pc = "lookup"])
    /\ OnlyReads

LoadEpisode(w) ==
    /\ req[w].pc = "load"
    /\ Goes(w, [req[w] EXCEPT !.pc = "attach", !.seen = inc[row[req[w].base].incident]])
    /\ OnlyReads

\* The status column is written only if the loaded incident was not OPEN already.
Attach(w) ==
    LET d == req[w].job
        i == row[req[w].base].incident IN
    /\ req[w].pc = "attach" /\ ~Stored(d.start)
    /\ row' = [row EXCEPT ![d.start] = NewRow(i, d)]
    /\ inc' = IF req[w].seen # "OPEN" THEN [inc EXCEPT ![i] = "OPEN"] ELSE inc
    /\ Goes(w, [req[w] EXCEPT !.pc = "refired", !.base = i,
                              !.outcome = {<<i, "ALERT_REFIRED">>}])
    /\ UNCHANGED <<timeline, started, sent, failed>>

\* A commit of its own, after the one that attached the occurrence.
RecordRefired(w) ==
    /\ req[w].pc = "refired"
    /\ Record(req[w].base, "ALERT_REFIRED", req[w].job.start)
    /\ Goes(w, [req[w] EXCEPT !.pc = "replace"])
    /\ UNCHANGED <<row, inc, started, sent, failed>>

(* _ingest: a new occurrence opens an incident, a known one is updated or ended. *)

Lookup(w) ==
    LET d == req[w].job IN
    /\ req[w].pc = "lookup"
    /\ \/ ~Stored(d.start) /\ Goes(w, [req[w] EXCEPT !.pc = "create"])
       \/ /\ Stored(d.start) /\ NothingNew(d)
          /\ Goes(w, [req[w] EXCEPT !.pc = AfterStored(d)])
       \/ /\ Stored(d.start) /\ ~NothingNew(d) /\ d.status = "FIRING"
          /\ Goes(w, [req[w] EXCEPT !.pc = "update"])
       \/ /\ Stored(d.start) /\ ~NothingNew(d) /\ d.status = "RESOLVED"
          /\ Goes(w, [req[w] EXCEPT !.pc = "end", !.base = NoTime, !.todo = {d.start}])
    /\ OnlyReads

\* Incident, its creation event and the occurrence are one transaction.
Create(w) ==
    LET d == req[w].job
        s == d.start IN
    /\ req[w].pc = "create" /\ ~Stored(s)
    /\ row' = [row EXCEPT ![s] = NewRow(s, d)]
    /\ inc' = [inc EXCEPT ![s] = "OPEN"]
    /\ Record(s, "INCIDENT_CREATED", s)
    /\ Goes(w, [req[w] EXCEPT !.pc = AfterStored(d), !.outcome = {<<s, "INITIAL">>}])
    /\ UNCHANGED <<started, sent, failed>>

\* Mutants of Conflict: the incident is not in the transaction that rolls back; the loser
\* of the race reports a created incident too.
ConflictKeepsIncident(w) ==
    /\ req[w].pc = "create" /\ Stored(req[w].job.start)
    /\ inc' = [inc EXCEPT ![req[w].job.start] = "OPEN"]
    /\ Goes(w, [req[w] EXCEPT !.pc = "lookup"])
    /\ UNCHANGED <<row, timeline, started, sent, failed>>
ConflictReported(w) ==
    /\ req[w].pc = "create" /\ Stored(req[w].job.start)
    /\ Goes(w, [req[w] EXCEPT !.pc = "lookup",
                  !.outcome = {<<row[req[w].job.start].incident, "INITIAL">>}])
    /\ OnlyReads

\* IntegrityError, attaching or creating: another delivery stored the occurrence first, the
\* transaction rolls back and the ordinary path reads the winner.
Conflict(w) ==
    /\ req[w].pc \in {"attach", "create"} /\ Stored(req[w].job.start)
    /\ Goes(w, [req[w] EXCEPT !.pc = "lookup"])
    /\ OnlyReads

\* Mutant of Update: the loaded status is written back with the labels.
UpdateWritesStatus(w) ==
    LET d == req[w].job IN
    /\ req[w].pc = "update" /\ ~RowLockedByOther(w, d.start)
    /\ row' = [row EXCEPT ![d.start].note = d.note, ![d.start].status = d.status]
    /\ Record(row[d.start].incident, "ALERT_UPDATED", d.start)
    /\ Goes(w, [req[w] EXCEPT !.pc = AfterStored(d)])
    /\ UNCHANGED <<inc, started, sent, failed>>

\* New labels or annotations of a firing occurrence; its status column is not written.
Update(w) ==
    LET d == req[w].job IN
    /\ req[w].pc = "update" /\ ~RowLockedByOther(w, d.start)
    /\ row' = [row EXCEPT ![d.start].note = d.note]
    /\ Record(row[d.start].incident, "ALERT_UPDATED", d.start)
    /\ Goes(w, [req[w] EXCEPT !.pc = AfterStored(d)])
    /\ UNCHANGED <<inc, started, sent, failed>>

(* _end_replaced, then the end of one occurrence, its own or a replaced one: the row *)
(* is flushed, the incident read; then row, incident and event commit together.      *)

Replace(w) ==
    LET todo == Replaced(req[w].job.start) IN
    /\ req[w].pc = "replace"
    /\ Goes(w, [req[w] EXCEPT !.pc = IF todo = {} THEN "done" ELSE "end", !.base = NoTime, !.todo = todo])
    /\ OnlyReads

\* session.get for the incident of t: the one loaded for the occurrence ended before, if that
\* is of the same incident, as it was loaded then; else as it is stored.
LoadedFor(w, t) ==
    LET before == req[w].base IN
    IF before # NoTime /\ row[before].incident = row[t].incident
    THEN req[w].seen ELSE inc[row[t].incident]

FlushEnd(w) ==
    /\ req[w].pc = "end"
    /\ \E t \in req[w].todo :
          /\ ~RowLockedByOther(w, t)
          /\ Goes(w, [req[w] EXCEPT !.pc = "commit end", !.base = t,
                                    !.seen = LoadedFor(w, t), !.last = NoOtherFires(t)])
    /\ OnlyReads

\* A replaced occurrence ends when its successor began; a missing end is not written.
Ended(d, r) ==
    IF d.status = "FIRING"
    THEN [r EXCEPT !.status = "RESOLVED", !.end = d.start]
    ELSE [r EXCEPT !.status = "RESOLVED", !.note = d.note,
                   !.end = IF d.end = NoTime THEN @ ELSE d.end]

CommitEnd(w) ==
    LET t == req[w].base
        i == row[t].incident
        resolves == req[w].last /\ req[w].seen # "RESOLVED"
        left == req[w].todo \ {t} IN
    /\ req[w].pc = "commit end"
    /\ row' = [row EXCEPT ![t] = Ended(req[w].job, @)]
    /\ inc' = IF resolves THEN [inc EXCEPT ![i] = "RESOLVED"] ELSE inc
    /\ Record(i, "ALERT_RESOLVED", t)
    /\ Goes(w, [req[w] EXCEPT
                  !.pc = IF left = {} THEN "done" ELSE "end", !.todo = left,
                  !.seen = IF resolves THEN "RESOLVED" ELSE @,
                  !.outcome = IF resolves THEN @ \cup {<<i, "RESOLVED">>} ELSE @])
    /\ UNCHANGED <<started, sent, failed>>

\* The handler's last step: each change of an incident starts a diagnosis.
Respond(w) ==
    /\ req[w].pc = "done"
    /\ started' = [i \in Starts |-> [k \in Triggers |->
                      started[i][k] + (IF <<i, k>> \in req[w].outcome THEN 1 ELSE 0)]]
    /\ Goes(w, Idle)
    /\ UNCHANGED <<db, sent, failed>>

\* The request dies (process crash, lost database, event sequence conflict): what is not
\* committed rolls back, and what it would have reported is gone.
Fail(w) ==
    /\ req[w].pc # "idle" /\ failed < MaxFailures
    /\ failed' = failed + 1
    /\ Goes(w, Idle)
    /\ UNCHANGED <<db, started, sent>>

Handle(w) ==
    \/ FindEpisode(w) \/ LoadEpisode(w) \/ Attach(w) \/ RecordRefired(w)
    \/ Lookup(w) \/ Create(w) \/ Conflict(w) \/ Update(w)
    \/ Replace(w) \/ FlushEnd(w) \/ CommitEnd(w) \/ Respond(w)

Next == \E w \in Workers : (\E d \in Deliveries : Deliver(w, d)) \/ Handle(w) \/ Fail(w)

Spec == Init /\ [][Next]_vars

------------------------------------------------------------------------------
(* Properties. *)

\* Types; a firing occurrence has no end.
TypeOK ==
    /\ row \in [Starts -> Rows \cup {NoRow}]
    /\ \A s \in Starts : Firing(s) => row[s].end = NoTime
    /\ inc \in [Starts -> IncidentStatus \cup {NoIncident}]
    /\ timeline \in [Starts -> Seq(Events)]
    /\ started \in [Starts -> [Triggers -> Nat]]
    /\ req \in [Workers -> Requests]
    /\ sent \in Nat /\ failed \in Nat

Members(i) == {s \in Starts : Stored(s) /\ row[s].incident = i}
EndedMembers(i) == {s \in Members(i) : ~Firing(s)}
Recorded(i, type, s) == {n \in DOMAIN timeline[i] : timeline[i][n] = [type |-> type, start |-> s]}

\* An incident that reads RESOLVED holds no firing occurrence ("an episode resolves when
\* none of its occurrences fires").
ResolvedIncidentIsQuiet ==
    \A i \in Starts : inc[i] = "RESOLVED" => \A s \in Members(i) : ~Firing(s)

\* An OPEN incident holds a firing occurrence, unless all its timeline says is that it was
\* created, from an alert delivered already resolved: no resolution forgets the incident.
OpenIncidentHasCause ==
    \A i \in Starts :
        inc[i] = "OPEN" => (\E s \in Members(i) : Firing(s)) \/ Len(timeline[i]) = 1

\* An occurrence ends at most once: in the timeline, and there only if it ended in the table (the
\* update and its event are never apart), and for the diagnoses, of which no more are RESOLVED ones
\* than occurrences of the incident ended, however often an end is delivered.
EndCountsOnce ==
    /\ \A s \in Starts : Stored(s) =>
          Cardinality(Recorded(row[s].incident, "ALERT_RESOLVED", s)) <= (IF Firing(s) THEN 0 ELSE 1)
    /\ \A i \in Starts : started[i]["RESOLVED"] <= Cardinality(EndedMembers(i))

\* A handled firing delivery leaves no earlier occurrence firing beside it (episode
\* contract section 9).
ReplacedOccurrencesEnd ==
    \A w \in Workers :
        (req[w].pc = "done" /\ req[w].job.status = "FIRING")
            => \A t \in Starts : t < req[w].job.start => ~Firing(t)

\* Diagnoses are started by changes, not by deliveries: one INITIAL per incident and one
\* ALERT_REFIRED per continuation, whatever is replayed and whoever else handles it.
DiagnosesBoundedByChanges ==
    \A i \in Starts :
        /\ started[i]["INITIAL"] <= 1
        /\ started[i]["ALERT_REFIRED"] <= Cardinality(Members(i) \ {i})

\* Every incident owns the occurrence that created it, every occurrence belongs to an
\* existing incident no younger than itself, and with Q = 0 to its own.
HasFounder(s) ==
    /\ inc[s] # NoIncident <=> (Stored(s) /\ row[s].incident = s)
    /\ Stored(s) => /\ inc[row[s].incident] # NoIncident
                    /\ row[s].incident <= s
                    /\ Quiet = 0 => row[s].incident = s
EpisodeHasFounder == \A s \in Starts : HasFounder(s)

\* An ended occurrence stays as it ended: no late or repeated delivery reopens it, moves
\* its end or gives it to another incident.
EndIsFinal ==
    [][\A s \in Starts : (Stored(s) /\ row[s].status = "RESOLVED") => row'[s] = row[s]]_vars

\* What the occurrences look like from outside.
Occ == [s \in Starts |->
          IF Stored(s) THEN [incident |-> row[s].incident, state |-> row[s].status]
                       ELSE [incident |-> 0, state |-> "ABSENT"]]
Occurrences == INSTANCE AlertOccurrences WITH occ <- Occ

\* The promise about them: with any number of handlers an occurrence is stored once, ends
\* once, is never reopened and never changes its incident.
ImplementsOccurrences == Occurrences!Spec
==============================================================================
