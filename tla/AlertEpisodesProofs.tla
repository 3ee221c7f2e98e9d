------------------------- MODULE AlertEpisodesProofs -------------------------
(* What AlertEpisodes guarantees for all values of its constants. *)
EXTENDS AlertEpisodes, FiniteSetTheorems, TLAPS

\* A request carries what its step needs: a delivery once it has one, an existing earlier
\* occurrence while it continues an episode, stored occurrences while it ends them.
RequestOK(w) ==
    LET r == req[w] IN
    /\ r.pc # "idle" => r.job \in Deliveries
    /\ r.pc \in {"continue", "load", "attach", "refired", "update", "replace"}
          => r.job.status = "FIRING"
    /\ r.pc \in {"continue", "load", "attach"} => Quiet > 0
    /\ r.pc \in {"load", "attach"} => r.base \in Starts /\ Stored(r.base) /\ r.base < r.job.start
    /\ r.pc = "refired" => r.base \in Starts
    /\ r.pc = "update" => Stored(r.job.start)
    /\ r.pc \in {"end", "commit end"} => \A t \in r.todo : Stored(t)
    /\ r.pc = "commit end" => r.base \in r.todo

RequestsOK == \A w \in Workers : RequestOK(w)

LEMMA DeliveryTypes ==
    ASSUME NEW d \in Deliveries
    PROVE  /\ d.start \in Starts /\ d.status \in AlertStatus /\ d.end \in Nat /\ d.note \in Notes
           /\ d.status = "FIRING" => d.end = NoTime
  <1>1. CASE d \in [start : Starts, status : {"FIRING"}, end : {NoTime}, note : Notes]
      BY <1>1 DEF AlertStatus, NoTime
  <1>2. CASE d \in [start : Starts, status : {"RESOLVED"}, end : Ends, note : Notes]
      BY <1>2, ConstantsAssumption DEF AlertStatus
  <1> QED BY <1>1, <1>2 DEF Deliveries

LEMMA IdleTyped == Idle \in Requests
  <1>1. {} \in SUBSET Starts /\ {} \in SUBSET (Starts \X Triggers)
      OBVIOUS
  <1> QED BY <1>1 DEF Idle, Requests, Steps

LEMMA InitTyped ==
    ASSUME Init PROVE TypeOK /\ RequestsOK
  <1>1. \A s \in Starts : ~Stored(s)
      BY DEF Init, Stored
  <1>2. timeline \in [Starts -> Seq(Events)]
      BY DEF Init
  <1>3. started \in [Starts -> [Triggers -> Nat]]
      BY DEF Init
  <1>4. req \in [Workers -> Requests]
      BY IdleTyped DEF Init
  <1>5. TypeOK
      BY <1>1, <1>2, <1>3, <1>4 DEF Init, TypeOK, Firing
  <1>6. RequestsOK
      BY DEF Init, RequestsOK, RequestOK, Idle
  <1> QED BY <1>5, <1>6

\* The only ways a step changes an occurrence.
RowEvolves(s) ==
    \/ row'[s] = row[s]
    \/ /\ row[s] = NoRow /\ row'[s] \in Rows
       /\ row'[s].status = "FIRING" => row'[s].end = NoTime
    \/ /\ row[s] \in Rows /\ row'[s] \in Rows
       /\ row'[s].incident = row[s].incident
       /\ \/ row'[s].status = "RESOLVED"
          \/ row'[s].status = row[s].status /\ row'[s].end = row[s].end

LEMMA NewRowTyped ==
    ASSUME NEW i \in Starts, NEW d \in Deliveries
    PROVE  /\ NewRow(i, d) \in Rows
           /\ NewRow(i, d).status = "FIRING" => NewRow(i, d).end = NoTime
    BY DeliveryTypes DEF NewRow, Rows

LEMMA EndedTyped ==
    ASSUME NEW r \in Rows, NEW d \in Deliveries
    PROVE  /\ Ended(d, r) \in Rows
           /\ Ended(d, r).incident = r.incident
           /\ Ended(d, r).status = "RESOLVED"
  <1>1. d.start \in Nat /\ d.end \in Nat /\ d.note \in Notes
      BY DeliveryTypes, ConstantsAssumption
  <1>2. CASE d.status = "FIRING"
      BY <1>1, <1>2 DEF Ended, Rows, AlertStatus
  <1>3. CASE d.status # "FIRING"
      BY <1>1, <1>3 DEF Ended, Rows, AlertStatus
  <1> QED BY <1>2, <1>3

\* The only actions that change the tables, and the requests they start from.
LEMMA Writers ==
    ASSUME RequestsOK, [Next]_vars, db' # db
    PROVE  \E w \in Workers :
              /\ RequestOK(w)
              /\ Attach(w) \/ RecordRefired(w) \/ Create(w) \/ Update(w) \/ CommitEnd(w)
    BY DEF RequestsOK, Next, vars, db, Deliver, Handle, Fail, FindEpisode, LoadEpisode,
           Lookup, Conflict, Replace, FlushEnd, Respond, OnlyReads

LEMMA RowSteps ==
    ASSUME TypeOK, RequestsOK, [Next]_vars
    PROVE  /\ row' \in [Starts -> Rows \cup {NoRow}]
           /\ \A s \in Starts : RowEvolves(s)
  <1> DEFINE Good == /\ row' \in [Starts -> Rows \cup {NoRow}]
                     /\ \A s \in Starts : RowEvolves(s)
  <1>1. CASE row' = row
      BY <1>1 DEF TypeOK, RowEvolves
  <1>2. ASSUME NEW w \in Workers, RequestOK(w), Attach(w)
        PROVE  Good
    <2> DEFINE i == row[req[w].base].incident
               d == req[w].job
    <2>1. d \in Deliveries /\ d.start \in Starts
        BY <1>2, DeliveryTypes DEF Attach, RequestOK
    <2>2. i \in Starts
        BY <1>2 DEF Attach, RequestOK, TypeOK, Stored, Rows
    <2>3. row[d.start] = NoRow /\ row' = [row EXCEPT ![d.start] = NewRow(i, d)]
        BY <1>2 DEF Attach, Stored
    <2>4. NewRow(i, d) \in Rows /\ (NewRow(i, d).status = "FIRING" => NewRow(i, d).end = NoTime)
        BY <2>1, <2>2, NewRowTyped
    <2> HIDE DEF i, d
    <2> QED BY <2>1, <2>3, <2>4 DEF TypeOK, RowEvolves
  <1>3. ASSUME NEW w \in Workers, RequestOK(w), Create(w)
        PROVE  Good
    <2> DEFINE d == req[w].job
    <2>1. d \in Deliveries /\ d.start \in Starts
        BY <1>3, DeliveryTypes DEF Create, RequestOK
    <2>3. row[d.start] = NoRow /\ row' = [row EXCEPT ![d.start] = NewRow(d.start, d)]
        BY <1>3 DEF Create, Stored
    <2>4. NewRow(d.start, d) \in Rows
          /\ (NewRow(d.start, d).status = "FIRING" => NewRow(d.start, d).end = NoTime)
        BY <2>1, NewRowTyped
    <2> HIDE DEF d
    <2> QED BY <2>1, <2>3, <2>4 DEF TypeOK, RowEvolves
  <1>4. ASSUME NEW w \in Workers, RequestOK(w), Update(w)
        PROVE  Good
    <2> DEFINE d == req[w].job
    <2>1. d \in Deliveries /\ d.start \in Starts /\ d.note \in Notes
        BY <1>4, DeliveryTypes DEF Update, RequestOK
    <2>2. row[d.start] \in Rows
        BY <1>4, <2>1 DEF Update, RequestOK, TypeOK, Stored
    <2>3. row' = [row EXCEPT ![d.start] = [row[d.start] EXCEPT !.note = d.note]]
        BY <1>4, <2>1 DEF Update, TypeOK
    <2>4. /\ [row[d.start] EXCEPT !.note = d.note] \in Rows
          /\ [row[d.start] EXCEPT !.note = d.note].incident = row[d.start].incident
          /\ [row[d.start] EXCEPT !.note = d.note].status = row[d.start].status
          /\ [row[d.start] EXCEPT !.note = d.note].end = row[d.start].end
        BY <2>1, <2>2 DEF Rows
    <2> HIDE DEF d
    <2> QED BY <2>1, <2>2, <2>3, <2>4 DEF TypeOK, RowEvolves
  <1>5. ASSUME NEW w \in Workers, RequestOK(w), CommitEnd(w)
        PROVE  Good
    <2> DEFINE t == req[w].base
               d == req[w].job
    <2>1. d \in Deliveries
        BY <1>5 DEF CommitEnd, RequestOK
    <2>2. t \in Starts /\ row[t] \in Rows
        BY <1>5 DEF CommitEnd, RequestOK, TypeOK, Stored, Requests
    <2>3. row' = [row EXCEPT ![t] = Ended(d, row[t])]
        BY <1>5, <2>2 DEF CommitEnd, TypeOK
    <2>4. /\ Ended(d, row[t]) \in Rows
          /\ Ended(d, row[t]).incident = row[t].incident
          /\ Ended(d, row[t]).status = "RESOLVED"
        BY <2>1, <2>2, EndedTyped
    <2> HIDE DEF t, d
    <2> QED BY <2>2, <2>3, <2>4 DEF TypeOK, RowEvolves
  <1>6. CASE db' # db
      BY <1>1, <1>2, <1>3, <1>4, <1>5, <1>6, Writers DEF RecordRefired
  <1> QED BY <1>1, <1>6 DEF db

LEMMA StoredForGood ==
    ASSUME TypeOK, RequestsOK, [Next]_vars
    PROVE  \A s \in Starts : Stored(s) => Stored(s)'
    BY RowSteps, NullAssumption DEF RowEvolves, Stored

\* Recording, updating and ending move no occurrence and store none.
LEMMA RowsKept ==
    ASSUME TypeOK, RequestsOK, [Next]_vars, NEW w \in Workers, RequestOK(w),
           RecordRefired(w) \/ Update(w) \/ CommitEnd(w)
    PROVE  \A s \in Starts :
              /\ Stored(s)' <=> Stored(s)
              /\ Stored(s) => row'[s].incident = row[s].incident
  <1>1. \A s \in Starts : ~Stored(s) => row'[s] = row[s]
    <2>1. CASE RecordRefired(w)
        BY <2>1 DEF RecordRefired
    <2>2. CASE Update(w)
        BY <2>2 DEF Update, RequestOK, TypeOK
    <2>3. CASE CommitEnd(w)
        BY <2>3 DEF CommitEnd, RequestOK, TypeOK
    <2> QED BY <2>1, <2>2, <2>3
  <1>2. \A s \in Starts : Stored(s) => Stored(s)'
      BY StoredForGood
  <1> QED BY <1>1, <1>2, RowSteps DEF RowEvolves, Stored

LEMMA RecordTyped ==
    ASSUME TypeOK, NEW i \in Starts, NEW s \in Starts, NEW type \in EventTypes,
           Record(i, type, s)
    PROVE  timeline' \in [Starts -> Seq(Events)]
  <1>1. [type |-> type, start |-> s] \in Events
      BY DEF Events
  <1>2. Append(timeline[i], [type |-> type, start |-> s]) \in Seq(Events)
      BY <1>1 DEF TypeOK
  <1> QED BY <1>2 DEF TypeOK, Record

\* One step of worker w keeps the types of everything but the alerts table.
TablesTyped ==
    /\ inc' \in [Starts -> IncidentStatus \cup {NoIncident}]
    /\ timeline' \in [Starts -> Seq(Events)]
    /\ started' \in [Starts -> [Triggers -> Nat]]
    /\ sent' \in Nat /\ failed' \in Nat

LEMMA TablesStep ==
    ASSUME TypeOK, RequestsOK, [Next]_vars
    PROVE  TablesTyped
  <1> USE DEF TablesTyped
  <1>1. CASE UNCHANGED vars
      BY <1>1 DEF vars, TypeOK
  <1>2. ASSUME NEW w \in Workers, NEW d \in Deliveries, Deliver(w, d)
        PROVE  TablesTyped
      BY <1>2 DEF Deliver, db, TypeOK
  <1>3. ASSUME NEW w \in Workers, Fail(w)
        PROVE  TablesTyped
      BY <1>3 DEF Fail, db, TypeOK
  <1>4. ASSUME NEW w \in Workers, Handle(w)
        PROVE  TablesTyped
    <2>1. RequestOK(w) /\ req[w] \in Requests
        BY DEF RequestsOK, TypeOK
    <2>2. CASE OnlyReads
        BY <2>2 DEF OnlyReads, db, TypeOK
    <2>3. CASE Attach(w)
      <3>1. row[req[w].base].incident \in Starts
          BY <2>1, <2>3 DEF Attach, RequestOK, TypeOK, Stored, Rows
      <3> QED BY <2>3, <3>1 DEF Attach, TypeOK, IncidentStatus
    <2>4. CASE RecordRefired(w)
      <3>1. req[w].base \in Starts /\ req[w].job.start \in Starts
          BY <2>1, <2>4, DeliveryTypes DEF RecordRefired, RequestOK
      <3>2. timeline' \in [Starts -> Seq(Events)]
          BY <2>4, <3>1, RecordTyped DEF RecordRefired, EventTypes
      <3> QED BY <2>4, <3>2 DEF RecordRefired, TypeOK
    <2>5. CASE Create(w)
      <3>1. req[w].job.start \in Starts
          BY <2>1, <2>5, DeliveryTypes DEF Create, RequestOK
      <3>2. timeline' \in [Starts -> Seq(Events)]
          BY <2>5, <3>1, RecordTyped DEF Create, EventTypes
      <3> QED BY <2>5, <3>1, <3>2 DEF Create, TypeOK, IncidentStatus
    <2>6. CASE Update(w)
      <3>1. req[w].job.start \in Starts
          BY <2>1, <2>6, DeliveryTypes DEF Update, RequestOK
      <3>2. row[req[w].job.start].incident \in Starts
          BY <2>1, <2>6, <3>1 DEF Update, RequestOK, TypeOK, Stored, Rows
      <3>3. timeline' \in [Starts -> Seq(Events)]
          BY <2>6, <3>1, <3>2, RecordTyped DEF Update, EventTypes
      <3> QED BY <2>6, <3>3 DEF Update, TypeOK
    <2>7. CASE CommitEnd(w)
      <3>1. req[w].base \in Starts
          BY <2>1, <2>7 DEF CommitEnd, RequestOK, Requests
      <3>2. row[req[w].base].incident \in Starts
          BY <2>1, <2>7, <3>1 DEF CommitEnd, RequestOK, TypeOK, Stored, Rows
      <3>3. timeline' \in [Starts -> Seq(Events)]
          BY <2>7, <3>1, <3>2, RecordTyped DEF CommitEnd, EventTypes
      <3> QED BY <2>7, <3>2, <3>3 DEF CommitEnd, TypeOK, IncidentStatus
    <2>8. CASE Respond(w)
      <3>1. started' \in [Starts -> [Triggers -> Nat]]
          BY <2>8 DEF Respond, TypeOK
      <3> QED BY <2>8, <3>1 DEF Respond, db, TypeOK
    <2> QED BY <1>4, <2>2, <2>3, <2>4, <2>5, <2>6, <2>7, <2>8
            DEF Handle, FindEpisode, LoadEpisode, Lookup, Conflict, Replace, FlushEnd
  <1> QED BY <1>1, <1>2, <1>3, <1>4 DEF Next

\* The request of the worker that steps stays typed and carries what its next step needs.
RequestKept(w) ==
    /\ req'[w] \in Requests
    /\ RequestOK(w)'
    /\ req' = [req EXCEPT ![w] = req'[w]]

LEMMA RequestStep ==
    ASSUME TypeOK, RequestsOK, NEW w \in Workers,
           (\E d \in Deliveries : Deliver(w, d)) \/ Handle(w) \/ Fail(w)
    PROVE  RequestKept(w)
  <1> USE DEF RequestKept, Goes
  <1>0. /\ req \in [Workers -> Requests] /\ req[w] \in Requests /\ RequestOK(w)
        /\ \A s \in Starts : Stored(s) => Stored(s)'
        /\ req[w].job \in Deliveries =>
              req[w].job.start \in Starts /\ req[w].job.status \in AlertStatus
      BY StoredForGood, DeliveryTypes DEF TypeOK, RequestsOK, Next
  <1>1. ASSUME NEW d \in Deliveries, Deliver(w, d)
        PROVE  RequestKept(w)
    <2> DEFINE pc == IF Quiet > 0 /\ d.status = "FIRING" THEN "continue" ELSE "lookup"
               r == [Idle EXCEPT !.pc = pc, !.job = d]
    <2>1. req' = [req EXCEPT ![w] = r] /\ req'[w] = r
        BY <1>0, <1>1 DEF Deliver
    <2>2. r \in Requests /\ r.pc = pc /\ r.job = d
      <3>1. pc \in {"continue", "lookup"}
          OBVIOUS
      <3> HIDE DEF pc
      <3> QED BY <3>1, IdleTyped DEF Requests, Idle, Steps
    <2>3. r.pc \in {"continue", "lookup"} /\ (r.pc = "continue" => Quiet > 0 /\ r.job.status = "FIRING")
        BY <2>2
    <2> HIDE DEF pc, r
    <2>4. RequestOK(w)'
        BY <2>1, <2>2, <2>3 DEF RequestOK
    <2> QED BY <2>1, <2>2, <2>4
  <1>2. CASE Fail(w)
      BY <1>0, <1>2, IdleTyped DEF Fail, RequestOK, Idle
  <1>3. CASE Respond(w)
      BY <1>0, <1>3, IdleTyped DEF Respond, RequestOK, Idle
  <1>4. CASE FindEpisode(w)
    <2>1. ASSUME NEW t \in Starts, Continues(req[w].job.start, t),
                 Goes(w, [req[w] EXCEPT !.pc = "load", !.base = t])
          PROVE  RequestKept(w)
      <3>1. Stored(t)' /\ t < req[w].job.start
          BY <1>0, <2>1 DEF Continues
      <3> QED BY <1>0, <1>4, <2>1, <3>1 DEF FindEpisode, RequestOK, Requests, Steps
    <2>2. CASE Goes(w, [req[w] EXCEPT !.pc = "lookup"])
        BY <1>0, <1>4, <2>2 DEF FindEpisode, RequestOK, Requests, Steps
    <2> QED BY <1>4, <2>1, <2>2 DEF FindEpisode
  <1>5. CASE LoadEpisode(w)
    <2>1. inc[row[req[w].base].incident] \in IncidentStatus \cup {NoIncident}
        BY <1>0, <1>5 DEF LoadEpisode, RequestOK, TypeOK, Stored, Rows
    <2> QED BY <1>0, <1>5, <2>1 DEF LoadEpisode, RequestOK, Requests, Steps
  <1>6. CASE Attach(w)
    <2>1. row[req[w].base].incident \in Starts
        BY <1>0, <1>6 DEF Attach, RequestOK, TypeOK, Stored, Rows
    <2>2. {<<row[req[w].base].incident, "ALERT_REFIRED">>} \in SUBSET (Starts \X Triggers)
        BY <2>1 DEF Triggers
    <2> QED BY <1>0, <1>6, <2>1, <2>2 DEF Attach, RequestOK, Requests, Steps
  <1>7. CASE RecordRefired(w)
      BY <1>0, <1>7 DEF RecordRefired, RequestOK, Requests, Steps
  <1>8. CASE Lookup(w)
    <2> DEFINE d == req[w].job
    <2>0. d \in Deliveries /\ d.start \in Starts /\ d.status \in AlertStatus
        BY <1>0, <1>8 DEF Lookup, RequestOK
    <2>1. CASE Goes(w, [req[w] EXCEPT !.pc = "create"])
        BY <1>0, <2>0, <2>1 DEF RequestOK, Requests, Steps
    <2>2. CASE Goes(w, [req[w] EXCEPT !.pc = AfterStored(d)])
        BY <1>0, <2>0, <2>2 DEF AfterStored, RequestOK, Requests, Steps
    <2>3. CASE Stored(d.start) /\ d.status = "FIRING" /\ Goes(w, [req[w] EXCEPT !.pc = "update"])
        BY <1>0, <2>0, <2>3 DEF RequestOK, Requests, Steps
    <2>4. CASE Stored(d.start) /\ Goes(w, [req[w] EXCEPT !.pc = "end", !.base = NoTime, !.todo = {d.start}])
        BY <1>0, <2>0, <2>4 DEF RequestOK, Requests, Steps
    <2> QED BY <1>8, <2>1, <2>2, <2>3, <2>4 DEF Lookup
  <1>9. CASE Create(w)
    <2>1. {<<req[w].job.start, "INITIAL">>} \in SUBSET (Starts \X Triggers)
        BY <1>0, <1>9 DEF Create, RequestOK, Triggers
    <2> QED BY <1>0, <1>9, <2>1 DEF Create, AfterStored, RequestOK, Requests, Steps
  <1>10. CASE Conflict(w)
      BY <1>0, <1>10 DEF Conflict, RequestOK, Requests, Steps
  <1>11. CASE Update(w)
      BY <1>0, <1>11 DEF Update, AfterStored, RequestOK, Requests, Steps
  <1>12. CASE Replace(w)
      BY <1>0, <1>12 DEF Replace, Replaced, Firing, RequestOK, Requests, Steps
  <1>13. CASE FlushEnd(w)
    <2> PICK t \in req[w].todo :
            req' = [req EXCEPT ![w] = [req[w] EXCEPT !.pc = "commit end", !.base = t,
                        !.seen = LoadedFor(w, t), !.last = NoOtherFires(t)]]
        BY <1>13 DEF FlushEnd
    <2>1. t \in Starts /\ Stored(t)
        BY <1>0, <1>13 DEF FlushEnd, Requests, RequestOK
    <2>2. LoadedFor(w, t) \in IncidentStatus \cup {NoIncident}
        BY <1>0, <2>1 DEF LoadedFor, Requests, TypeOK, Stored, Rows
    <2>3. NoOtherFires(t) \in BOOLEAN
        BY DEF NoOtherFires
    <2> HIDE DEF NoOtherFires, LoadedFor
    <2> QED BY <1>0, <1>13, <2>1, <2>2, <2>3 DEF FlushEnd, RequestOK, Requests, Steps
  <1>14. CASE CommitEnd(w)
    <2> DEFINE i == row[req[w].base].incident
               resolves == req[w].last /\ req[w].seen # "RESOLVED"
               left == req[w].todo \ {req[w].base}
               seen == IF resolves THEN "RESOLVED" ELSE req[w].seen
               out == IF resolves THEN req[w].outcome \cup {<<i, "RESOLVED">>} ELSE req[w].outcome
    <2>1. i \in Starts
        BY <1>0, <1>14 DEF CommitEnd, RequestOK, TypeOK, Stored, Rows, Requests
    <2>2. out \in SUBSET (Starts \X Triggers)
        BY <1>0, <2>1 DEF Requests, Triggers
    <2>3. left \in SUBSET Starts /\ seen \in IncidentStatus \cup {NoIncident}
        BY <1>0 DEF Requests, IncidentStatus
    <2>4. req' = [req EXCEPT ![w] = [req[w] EXCEPT
                     !.pc = IF left = {} THEN "done" ELSE "end", !.todo = left, !.seen = seen,
                     !.outcome = out]]
        BY <1>14 DEF CommitEnd
    <2>5. \A t \in left : Stored(t)'
        BY <1>0, <1>14, <2>3 DEF CommitEnd, RequestOK
    <2>6. req[w].pc = "commit end"
        BY <1>14 DEF CommitEnd
    <2> HIDE DEF i, resolves, left, seen, out
    <2> DEFINE pc == IF left = {} THEN "done" ELSE "end"
               r == [req[w] EXCEPT !.pc = pc, !.todo = left, !.seen = seen, !.outcome = out]
    <2>7. r \in Requests /\ r.pc = pc /\ r.job = req[w].job /\ r.todo = left
        BY <1>0, <2>2, <2>3 DEF Requests, Steps
    <2>8. RequestOK(w)'
      <3>1. pc \in {"done", "end"} /\ req'[w] = r /\ req[w].job \in Deliveries
          BY <1>0, <2>4, <2>6 DEF RequestOK
      <3>2. \A t \in r.todo : Stored(t)'
          BY <2>5, <2>7
      <3>3. r.pc \in {"done", "end"} /\ r.job \in Deliveries
          BY <2>7, <3>1
      <3> HIDE DEF pc, r
      <3> QED BY <3>1, <3>2, <3>3 DEF RequestOK
    <2> QED BY <1>0, <2>4, <2>7, <2>8
  <1> QED BY <1>1, <1>2, <1>3, <1>4, <1>5, <1>6, <1>7, <1>8, <1>9, <1>10, <1>11, <1>12, <1>13,
             <1>14 DEF Handle

LEMMA TypeStep ==
    ASSUME TypeOK, RequestsOK, [Next]_vars
    PROVE  TypeOK' /\ RequestsOK'
  <1>1. /\ row' \in [Starts -> Rows \cup {NoRow}]
        /\ \A s \in Starts : Firing(s)' => row'[s].end = NoTime
    <2>1. row' \in [Starts -> Rows \cup {NoRow}]
        BY RowSteps
    <2>2. ASSUME NEW s \in Starts, row'[s] # NoRow, row'[s].status = "FIRING"
          PROVE  row'[s].end = NoTime
      <3>1. RowEvolves(s)
          BY RowSteps
      <3>4. row[s] \in Rows \/ row[s] = NoRow
          BY DEF TypeOK
      <3>2. row[s] # NoRow /\ row[s].status = "FIRING" => row[s].end = NoTime
          BY DEF TypeOK, Firing, Stored
      <3>3. row[s] \in Rows => row[s] # NoRow
          BY NullAssumption
      <3> QED BY <2>2, <3>1, <3>2, <3>3 DEF RowEvolves
    <2> QED BY <2>1, <2>2 DEF Firing, Stored
  <1>2. req' \in [Workers -> Requests] /\ RequestsOK'
    <2>1. CASE UNCHANGED vars
        BY <2>1 DEF vars, TypeOK, RequestsOK, RequestOK, Stored
    <2>2. ASSUME NEW w \in Workers,
                 (\E d \in Deliveries : Deliver(w, d)) \/ Handle(w) \/ Fail(w)
          PROVE  req' \in [Workers -> Requests] /\ RequestsOK'
      <3>1. RequestKept(w)
          BY <2>2, RequestStep
      <3>2. req' \in [Workers -> Requests]
          BY <3>1 DEF RequestKept, TypeOK
      <3>3. ASSUME NEW v \in Workers, v # w
            PROVE  RequestOK(v)'
        <4>1. req'[v] = req[v] /\ RequestOK(v) /\ req[v] \in Requests
            BY <3>1, <3>3 DEF RequestKept, TypeOK, RequestsOK
        <4>2. req[v].job \in Deliveries => req[v].job.start \in Starts
            BY DeliveryTypes
        <4> QED BY <4>1, <4>2, StoredForGood DEF RequestOK, Requests
      <3> QED BY <3>1, <3>2, <3>3 DEF RequestKept, RequestsOK
    <2> QED BY <2>1, <2>2 DEF Next
  <1> QED BY <1>1, <1>2, TablesStep DEF TablesTyped, TypeOK

\* Every reachable state is well typed, with any number of handlers.
THEOREM TypeCorrect == Spec => [](TypeOK /\ RequestsOK)
  <1>1. Init => TypeOK /\ RequestsOK
      BY InitTyped
  <1>2. TypeOK /\ RequestsOK /\ [Next]_vars => (TypeOK /\ RequestsOK)'
      BY TypeStep
  <1> QED BY <1>1, <1>2, PTL DEF Spec

------------------------------------------------------------------------------
(* Episodes and their founders. *)

LEMMA FounderInit ==
    ASSUME Init PROVE EpisodeHasFounder
    BY DEF Init, EpisodeHasFounder, HasFounder, Stored

\* A continuation joins a founded episode that began before it.
LEMMA EpisodeOfBase ==
    ASSUME TypeOK, EpisodeHasFounder, NEW t \in Starts, Stored(t)
    PROVE  LET i == row[t].incident IN
           /\ i \in Starts /\ i <= t
           /\ inc[i] \in IncidentStatus /\ inc[i] # NoIncident
           /\ Stored(i) /\ row[i].incident = i
  <1>1. row[t].incident \in Starts
      BY DEF TypeOK, Stored, Rows
  <1> QED BY <1>1 DEF EpisodeHasFounder, HasFounder, TypeOK

\* An occurrence untouched by a step that forgets no incident keeps its founder.
LEMMA FounderKept ==
    ASSUME TypeOK, EpisodeHasFounder, NEW s \in Starts,
           Stored(s)' <=> Stored(s),
           Stored(s) => row'[s].incident = row[s].incident,
           \A i \in Starts : inc[i] # NoIncident => inc'[i] # NoIncident,
           inc'[s] # NoIncident => inc[s] # NoIncident
    PROVE  HasFounder(s)'
  <1>1. HasFounder(s)
      BY DEF EpisodeHasFounder
  <1>2. Stored(s) => row[s].incident \in Starts
      BY DEF TypeOK, Stored, Rows
  <1>3. inc'[s] # NoIncident <=> (Stored(s)' /\ row'[s].incident = s)
      BY <1>1 DEF HasFounder
  <1>4. Stored(s)' => /\ inc'[row'[s].incident] # NoIncident
                      /\ row'[s].incident <= s
                      /\ Quiet = 0 => row'[s].incident = s
    <2>1. SUFFICES ASSUME Stored(s)
                   PROVE  /\ inc'[row'[s].incident] # NoIncident
                          /\ row'[s].incident <= s
                          /\ Quiet = 0 => row'[s].incident = s
        OBVIOUS
    <2>2. row'[s].incident = row[s].incident /\ row[s].incident \in Starts
        BY <1>2, <2>1
    <2>3. /\ inc[row[s].incident] # NoIncident
          /\ row[s].incident <= s
          /\ Quiet = 0 => row[s].incident = s
        BY <1>1, <2>1 DEF HasFounder
    <2> QED BY <2>2, <2>3
  <1> QED BY <1>3, <1>4 DEF HasFounder

LEMMA FounderStep ==
    ASSUME TypeOK, RequestsOK, EpisodeHasFounder, [Next]_vars
    PROVE  EpisodeHasFounder'
  <1>1. CASE db' = db
      BY <1>1 DEF db, Stored, EpisodeHasFounder, HasFounder
  <1>2. ASSUME NEW w \in Workers, RequestOK(w), Attach(w)
        PROVE  EpisodeHasFounder'
    <2> PICK d \in Deliveries, b \in Starts :
            d = req[w].job /\ b = req[w].base /\ Stored(b) /\ b < d.start /\ Quiet > 0
        BY <1>2 DEF Attach, RequestOK
    <2>1. d.start \in Starts
        BY DeliveryTypes
    <2> PICK i \in Starts : i = row[b].incident
        BY DEF TypeOK, Stored, Rows
    <2>3. i <= b /\ inc[i] # NoIncident /\ Stored(i) /\ row[i].incident = i
        BY EpisodeOfBase
    <2>4. i < d.start
      <3>1. d.start \in Nat /\ b \in Nat /\ i \in Nat
          BY <2>1, ConstantsAssumption
      <3> QED BY <2>3, <3>1
    <2>5. /\ ~Stored(d.start) /\ row' = [row EXCEPT ![d.start] = NewRow(i, d)]
          /\ inc' = inc \/ inc' = [inc EXCEPT ![i] = "OPEN"]
        BY <1>2 DEF Attach
    <2>6. NewRow(i, d) # NoRow /\ NewRow(i, d).incident = i
        BY <2>1, <2>3, NewRowTyped, NullAssumption DEF NewRow
    <2>7. \A s \in Starts \ {d.start} : row'[s] = row[s]
        BY <2>5 DEF TypeOK
    <2>8. \A s \in Starts : inc'[s] # NoIncident <=> inc[s] # NoIncident
        BY <2>3, <2>5 DEF TypeOK, NoIncident
    <2>9. row'[d.start] = NewRow(i, d)
        BY <2>1, <2>5 DEF TypeOK
    <2>10. inc[d.start] = NoIncident
        BY <2>1, <2>5 DEF EpisodeHasFounder, HasFounder
    <2>11. ASSUME NEW s \in Starts, s # d.start
           PROVE  HasFounder(s)'
      <3>1. row'[s] = row[s]
          BY <2>7, <2>11
      <3>2. (Stored(s)' <=> Stored(s)) /\ (Stored(s) => row'[s].incident = row[s].incident)
          BY <3>1 DEF Stored
      <3> QED BY <2>8, <3>2, FounderKept
    <2>12. d.start \in Nat /\ i \in Nat
        BY <2>1, <2>3, ConstantsAssumption
    <2>13. HasFounder(d.start)'
      <3>1. row'[d.start].incident = i /\ row'[d.start] # NoRow
          BY <2>6, <2>9
      <3>2. inc'[d.start] = NoIncident /\ inc'[i] # NoIncident
          BY <2>1, <2>3, <2>8, <2>10
      <3>3. i # d.start /\ i <= d.start /\ Quiet # 0
          BY <2>4, <2>12, ConstantsAssumption
      <3> QED BY <3>1, <3>2, <3>3 DEF HasFounder, Stored
    <2> QED BY <2>11, <2>13 DEF EpisodeHasFounder
  <1>3. ASSUME NEW w \in Workers, RequestOK(w), Create(w)
        PROVE  EpisodeHasFounder'
    <2> PICK d \in Deliveries : d = req[w].job
        BY <1>3 DEF Create, RequestOK
    <2>1. d.start \in Starts
        BY DeliveryTypes
    <2>2. /\ ~Stored(d.start) /\ row' = [row EXCEPT ![d.start] = NewRow(d.start, d)]
          /\ inc' = [inc EXCEPT ![d.start] = "OPEN"]
        BY <1>3 DEF Create
    <2>3. NewRow(d.start, d) # NoRow /\ NewRow(d.start, d).incident = d.start
        BY <2>1, NewRowTyped, NullAssumption DEF NewRow
    <2>4. \A s \in Starts \ {d.start} : row'[s] = row[s] /\ inc'[s] = inc[s]
        BY <2>2 DEF TypeOK
    <2>5. row'[d.start] = NewRow(d.start, d) /\ inc'[d.start] # NoIncident
        BY <2>1, <2>2 DEF TypeOK, NoIncident
    <2>6. d.start \in Nat
        BY <2>1, ConstantsAssumption
    <2>7. ASSUME NEW s \in Starts, s # d.start
          PROVE  HasFounder(s)'
      <3>1. row'[s] = row[s] /\ inc'[s] = inc[s]
          BY <2>4, <2>7
      <3>2. (Stored(s)' <=> Stored(s)) /\ (Stored(s) => row'[s].incident = row[s].incident)
          BY <3>1 DEF Stored
      <3>3. \A i \in Starts : inc[i] # NoIncident => inc'[i] # NoIncident
          BY <2>4, <2>5
      <3> QED BY <3>1, <3>2, <3>3, FounderKept
    <2>8. HasFounder(d.start)'
      <3>1. row'[d.start].incident = d.start /\ row'[d.start] # NoRow
          BY <2>3, <2>5
      <3>2. d.start <= d.start
          BY <2>6
      <3> QED BY <2>5, <3>1, <3>2 DEF HasFounder, Stored
    <2> QED BY <2>7, <2>8 DEF EpisodeHasFounder
  <1>4. ASSUME NEW w \in Workers, RequestOK(w), RecordRefired(w) \/ Update(w) \/ CommitEnd(w)
        PROVE  EpisodeHasFounder'
    <2>1. \A s \in Starts :
             /\ Stored(s)' <=> Stored(s)
             /\ Stored(s) => row'[s].incident = row[s].incident
        BY <1>4, RowsKept
    <2>2. \A i \in Starts : inc'[i] # NoIncident <=> inc[i] # NoIncident
      <3>1. CASE CommitEnd(w)
        <4>1. req[w].base \in Starts /\ Stored(req[w].base)
            BY <1>4, <3>1 DEF CommitEnd, RequestOK, TypeOK, Requests
        <4>2. inc[row[req[w].base].incident] # NoIncident
            BY <4>1 DEF EpisodeHasFounder, HasFounder
        <4> QED BY <3>1, <4>2 DEF CommitEnd, TypeOK, NoIncident
      <3> QED BY <1>4, <3>1 DEF RecordRefired, Update
    <2>3. ASSUME NEW s \in Starts
          PROVE  HasFounder(s)'
      <3>1. (Stored(s)' <=> Stored(s)) /\ (Stored(s) => row'[s].incident = row[s].incident)
          BY <2>1 DEF Stored
      <3>2. \A i \in Starts : inc[i] # NoIncident => inc'[i] # NoIncident
          BY <2>2
      <3>3. inc'[s] # NoIncident => inc[s] # NoIncident
          BY <2>2
      <3> QED BY <3>1, <3>2, <3>3, FounderKept
    <2> QED BY <2>3 DEF EpisodeHasFounder
  <1> QED BY <1>1, <1>2, <1>3, <1>4, Writers

\* Every incident owns the occurrence that created it; with Q = 0 no episode has a second.
THEOREM Founders == Spec => []EpisodeHasFounder
  <1>1. Init => EpisodeHasFounder
      BY FounderInit
  <1>2. TypeOK /\ RequestsOK /\ EpisodeHasFounder /\ [Next]_vars => EpisodeHasFounder'
      BY FounderStep
  <1> QED BY <1>1, <1>2, TypeCorrect, PTL DEF Spec

------------------------------------------------------------------------------
(* The tables implement the abstract occurrences. *)

\* A step that gives occurrence s a view v and leaves the others as they are seen.
LEMMA OccChange ==
    ASSUME NEW s \in Starts, NEW v,
           \A t \in Starts \ {s} :
              /\ Stored(t)' <=> Stored(t)
              /\ Stored(t) => /\ row'[t].incident = row[t].incident
                             /\ row'[t].status = row[t].status,
           Stored(s)',
           v = [incident |-> row'[s].incident, state |-> row'[s].status]
    PROVE  Occ' = [Occ EXCEPT ![s] = v]
  <1>1. ASSUME NEW t \in Starts, t # s
        PROVE  Occ'[t] = Occ[t]
    <2>1. (Stored(t)' <=> Stored(t)) /\ (Stored(t) => /\ row'[t].incident = row[t].incident
                                                     /\ row'[t].status = row[t].status)
        BY <1>1
    <2> QED BY <2>1 DEF Occ
  <1>2. Occ'[s] = v
      BY DEF Occ
  <1>3. Occ' = [t \in Starts |-> Occ'[t]] /\ Occ = [t \in Starts |-> Occ[t]]
      BY DEF Occ
  <1> HIDE DEF Occ
  <1> QED BY <1>1, <1>2, <1>3

\* What the abstract specification reads of an occurrence.
LEMMA OccReads ==
    ASSUME TypeOK, NEW s \in Starts
    PROVE  /\ Occurrences!Stored(s) <=> Stored(s)
           /\ Stored(s) => /\ Occ[s].incident = row[s].incident
                          /\ Occ[s].state = row[s].status
  <1>1. Stored(s) => row[s].status # "ABSENT"
      BY DEF TypeOK, Stored, Rows, AlertStatus
  <1> QED BY <1>1 DEF Occ, Occurrences!Stored, Occurrences!Absent

LEMMA OccurrenceInit ==
    ASSUME Init PROVE Occurrences!Init
    BY DEF Init, Occurrences!Init, Occurrences!Absent, Occ, Stored

LEMMA OccurrenceStep ==
    ASSUME TypeOK, RequestsOK, EpisodeHasFounder, [Next]_vars
    PROVE  [Occurrences!Next]_Occ
  <1>0. /\ row' \in [Starts -> Rows \cup {NoRow}]
        /\ \A s \in Starts : Stored(s) => Stored(s)'
      BY RowSteps, StoredForGood
  <1>1. CASE row' = row
      BY <1>1 DEF Occ, Stored
  <1>2. ASSUME NEW w \in Workers, RequestOK(w), Attach(w)
        PROVE  Occurrences!Next
    <2> PICK d \in Deliveries, b \in Starts :
            /\ d = req[w].job /\ b = req[w].base
            /\ Stored(b) /\ b < d.start /\ Quiet > 0 /\ d.status = "FIRING"
        BY <1>2 DEF Attach, RequestOK
    <2>1. d.start \in Starts
        BY DeliveryTypes
    <2> PICK i \in Starts : i = row[b].incident
        BY DEF TypeOK, Stored, Rows
    <2>2. i <= b /\ Stored(i) /\ row[i].incident = i
        BY EpisodeOfBase
    <2>3. i < d.start
      <3>1. d.start \in Nat /\ b \in Nat /\ i \in Nat
          BY <2>1, ConstantsAssumption
      <3> QED BY <2>2, <3>1
    <2>4. ~Stored(d.start) /\ row' = [row EXCEPT ![d.start] = NewRow(i, d)]
        BY <1>2 DEF Attach
    <2>5. NewRow(i, d) # NoRow /\ NewRow(i, d).incident = i /\ NewRow(i, d).status = "FIRING"
        BY <2>1, NewRowTyped, NullAssumption DEF NewRow
    <2>6. \A t \in Starts \ {d.start} : row'[t] = row[t]
        BY <2>4 DEF TypeOK
    <2>7. row'[d.start] = NewRow(i, d)
        BY <2>1, <2>4 DEF TypeOK
    <2>8. Occ' = [Occ EXCEPT ![d.start] = [incident |-> i, state |-> "FIRING"]]
        BY <2>1, <2>5, <2>6, <2>7, OccChange DEF Stored
    <2>9. ~Occurrences!Stored(d.start) /\ Occurrences!Stored(i) /\ Occ[i].incident = i
        BY <2>1, <2>2, <2>4, OccReads
    <2>10. Occurrences!Continue(d.start, i)
        BY <2>3, <2>8, <2>9 DEF Occurrences!Continue, Occurrences!Founded
    <2> QED BY <2>1, <2>10 DEF Occurrences!Next
  <1>3. ASSUME NEW w \in Workers, RequestOK(w), Create(w)
        PROVE  Occurrences!Next
    <2> PICK d \in Deliveries : d = req[w].job
        BY <1>3 DEF Create, RequestOK
    <2>1. d.start \in Starts /\ d.status \in {"FIRING", "RESOLVED"}
        BY DeliveryTypes DEF AlertStatus
    <2>2. ~Stored(d.start) /\ row' = [row EXCEPT ![d.start] = NewRow(d.start, d)]
        BY <1>3 DEF Create
    <2>3. /\ NewRow(d.start, d) # NoRow
          /\ NewRow(d.start, d).incident = d.start
          /\ NewRow(d.start, d).status = d.status
        BY <2>1, NewRowTyped, NullAssumption DEF NewRow
    <2>4. \A t \in Starts \ {d.start} : row'[t] = row[t]
        BY <2>2 DEF TypeOK
    <2>5. row'[d.start] = NewRow(d.start, d)
        BY <2>1, <2>2 DEF TypeOK
    <2>6. Occ' = [Occ EXCEPT ![d.start] = [incident |-> d.start, state |-> d.status]]
        BY <2>1, <2>3, <2>4, <2>5, OccChange DEF Stored
    <2>7. ~Occurrences!Stored(d.start)
        BY <2>1, <2>2, OccReads
    <2>8. Occurrences!Open(d.start, d.status)
        BY <2>6, <2>7 DEF Occurrences!Open
    <2> QED BY <2>1, <2>8 DEF Occurrences!Next
  <1>4. ASSUME NEW w \in Workers, RequestOK(w), Update(w)
        PROVE  UNCHANGED Occ
    <2> PICK d \in Deliveries : d = req[w].job
        BY <1>4 DEF Update, RequestOK
    <2>1. d.start \in Starts /\ row[d.start] \in Rows
        BY <1>4, DeliveryTypes DEF Update, RequestOK, TypeOK, Stored
    <2>2. row' = [row EXCEPT ![d.start] = [row[d.start] EXCEPT !.note = d.note]]
        BY <1>4, <2>1 DEF Update, TypeOK
    <2>3. /\ row'[d.start].incident = row[d.start].incident
          /\ row'[d.start].status = row[d.start].status
        BY <2>1, <2>2 DEF TypeOK, Rows
    <2>4. \A s \in Starts :
             /\ Stored(s)' <=> Stored(s)
             /\ Stored(s) => /\ row'[s].incident = row[s].incident
                            /\ row'[s].status = row[s].status
        BY <1>4, <2>1, <2>2, <2>3, RowsKept DEF TypeOK
    <2> QED BY <2>4 DEF Occ
  <1>5. ASSUME NEW w \in Workers, RequestOK(w), CommitEnd(w)
        PROVE  [Occurrences!Next]_Occ
    <2> PICK d \in Deliveries, t \in Starts :
            d = req[w].job /\ t = req[w].base /\ Stored(t) /\ row[t] \in Rows
        BY <1>5 DEF CommitEnd, RequestOK, TypeOK, Stored, Requests
    <2>1. row' = [row EXCEPT ![t] = Ended(d, row[t])]
        BY <1>5 DEF CommitEnd, TypeOK
    <2>2. \A s \in Starts \ {t} : row'[s] = row[s]
        BY <2>1 DEF TypeOK
    <2>3. row'[t].incident = row[t].incident /\ row'[t].status = "RESOLVED" /\ Stored(t)'
        BY <2>1, <1>0, EndedTyped DEF TypeOK
    <2>4. Occ' = [Occ EXCEPT ![t] = [incident |-> row[t].incident, state |-> "RESOLVED"]]
        BY <2>2, <2>3, OccChange DEF Stored
    <2>5. CASE row[t].status = "FIRING"
      <3>1. Occurrences!Stored(t) /\ Occ[t].incident = row[t].incident /\ Occ[t].state = "FIRING"
          BY <2>5, OccReads
      <3>2. Occurrences!End(t)
          BY <2>4, <3>1 DEF Occurrences!End
      <3> QED BY <3>2 DEF Occurrences!Next
    <2>6. CASE row[t].status # "FIRING"
      <3>1. row[t].status = "RESOLVED"
          BY <2>6 DEF Rows, AlertStatus
      <3>2. Occ[t] = [incident |-> row[t].incident, state |-> "RESOLVED"]
          BY <3>1 DEF Occ
      <3>3. Occ = [s \in Starts |-> Occ[s]]
          BY DEF Occ
      <3> HIDE DEF Occ
      <3> QED BY <2>4, <3>2, <3>3
    <2> QED BY <2>5, <2>6
  <1>6. CASE db' # db
      BY <1>1, <1>2, <1>3, <1>4, <1>5, <1>6, Writers DEF RecordRefired
  <1> QED BY <1>1, <1>6 DEF db

\* With any number of handlers, however their transactions interleave or fail, the tables
\* implement the abstract occurrences: each is stored once, ends once, is never reopened
\* and never changes its incident.
THEOREM OccurrencesImplemented == Spec => ImplementsOccurrences
  <1>1. Init => Occurrences!Init
      BY OccurrenceInit
  <1>2. TypeOK /\ RequestsOK /\ EpisodeHasFounder /\ [Next]_vars => [Occurrences!Next]_Occ
      BY OccurrenceStep
  <1> QED BY <1>1, <1>2, TypeCorrect, Founders, PTL
          DEF Spec, ImplementsOccurrences, Occurrences!Spec

------------------------------------------------------------------------------
(* Diagnoses.  A handler that has not responded yet owes the diagnoses of its outcome.  An INITIAL *)
(* one is owed or started once, and an ALERT_REFIRED one is owed for the occurrence the handler    *)
(* attached, so that those started are no more than the continuations nobody owes one for.         *)

Owes(w, i, k) == <<i, k>> \in req[w].outcome

AllStored == {s \in Starts : Stored(s)}

\* The continuations of incident i whose diagnosis nobody still owes.
Settled(i) ==
    {s \in Members(i) \ {i} : ~\E w \in Workers : Owes(w, i, "ALERT_REFIRED") /\ req[w].job.start = s}

InitialOnce(i) ==
    /\ started[i]["INITIAL"] = 0 \/ (started[i]["INITIAL"] = 1 /\ Stored(i))
    /\ \A w \in Workers : Owes(w, i, "INITIAL") =>
          /\ Stored(i) /\ started[i]["INITIAL"] = 0
          /\ \A v \in Workers : Owes(v, i, "INITIAL") => v = w

RefiredOnce(i) ==
    /\ started[i]["ALERT_REFIRED"] <= Cardinality(Settled(i))
    /\ \A w \in Workers : Owes(w, i, "ALERT_REFIRED") =>
          /\ req[w].job.start \in Members(i) \ {i}
          /\ \A v \in Workers :
                Owes(v, i, "ALERT_REFIRED") /\ req[v].job.start = req[w].job.start => v = w

DiagnosesOK == IsFiniteSet(AllStored) /\ \A i \in Starts : InitialOnce(i) /\ RefiredOnce(i)

LEMMA CountsOf ==
    ASSUME TypeOK, NEW i \in Starts
    PROVE  started[i]["INITIAL"] \in Nat /\ started[i]["ALERT_REFIRED"] \in Nat
  BY DEF TypeOK, Triggers

LEMMA CountsInMore ==
    ASSUME NEW A, NEW B, A \subseteq B, IsFiniteSet(B), NEW n \in Nat, n <= Cardinality(A)
    PROVE  n <= Cardinality(B)
  <1>1. IsFiniteSet(A) /\ Cardinality(A) <= Cardinality(B)
      BY FS_Subset
  <1>2. Cardinality(A) \in Nat /\ Cardinality(B) \in Nat
      BY <1>1, FS_CardinalityType
  <1> QED BY <1>1, <1>2

LEMMA CountsOneMore ==
    ASSUME NEW A, NEW B, A \subseteq B, IsFiniteSet(B), NEW x \in B \ A, NEW n \in Nat, n <= Cardinality(A)
    PROVE  n + 1 <= Cardinality(B)
  <1>1. IsFiniteSet(A)
      BY FS_Subset
  <1>2. Cardinality(A \cup {x}) = Cardinality(A) + 1
      BY <1>1, FS_AddElement
  <1>3. A \cup {x} \subseteq B
      OBVIOUS
  <1>4. Cardinality(A \cup {x}) <= Cardinality(B)
      BY <1>3, FS_Subset
  <1>5. Cardinality(A) \in Nat /\ Cardinality(B) \in Nat
      BY <1>1, FS_CardinalityType
  <1> QED BY <1>2, <1>4, <1>5

\* Members stay, and a step stores one occurrence at most.
LEMMA MembersStay ==
    ASSUME TypeOK, RequestsOK, [Next]_vars
    PROVE  \A i \in Starts : Members(i) \subseteq Members(i)'
  <1>1. \A s \in Starts : Stored(s) => Stored(s)' /\ row'[s].incident = row[s].incident
    <2>1. \A s \in Starts : RowEvolves(s) /\ (Stored(s) => Stored(s)')
        BY RowSteps, StoredForGood
    <2> QED BY <2>1 DEF RowEvolves, Stored
  <1> QED BY <1>1 DEF Members

LEMMA StoredStayFinite ==
    ASSUME TypeOK, RequestsOK, IsFiniteSet(AllStored), [Next]_vars
    PROVE  IsFiniteSet(AllStored)' /\ \A i \in Starts : IsFiniteSet(Members(i)') /\ IsFiniteSet(Settled(i)')
  <1>1. \E x : AllStored' \subseteq AllStored \cup {x}
    <2>1. CASE db' = db
      <3>1. AllStored' = AllStored
          BY <2>1 DEF AllStored, Stored, db
      <3> QED BY <3>1
    <2>2. CASE db' # db
      <3> PICK w \in Workers :
              /\ RequestOK(w)
              /\ Attach(w) \/ RecordRefired(w) \/ Create(w) \/ Update(w) \/ CommitEnd(w)
          BY <2>2, Writers
      <3>1. CASE Attach(w) \/ Create(w)
        <4>1. \E r : row' = [row EXCEPT ![req[w].job.start] = r]
            BY <3>1 DEF Attach, Create
        <4>2. \A s \in Starts : s # req[w].job.start => row'[s] = row[s]
            BY <4>1 DEF TypeOK
        <4>3. AllStored' \subseteq AllStored \cup {req[w].job.start}
            BY <4>2 DEF AllStored, Stored
        <4> QED BY <4>3
      <3>2. CASE RecordRefired(w) \/ Update(w) \/ CommitEnd(w)
        <4>1. \A s \in Starts : Stored(s)' <=> Stored(s)
            BY <3>2, RowsKept
        <4>2. AllStored' = AllStored
            BY <4>1 DEF AllStored
        <4> QED BY <4>2
      <3> QED BY <3>1, <3>2
    <2> QED BY <2>1, <2>2
  <1>2. IsFiniteSet(AllStored')
    <2> PICK x : AllStored' \subseteq AllStored \cup {x}
        BY <1>1
    <2>1. IsFiniteSet(AllStored \cup {x})
        BY FS_AddElement
    <2> QED BY <2>1, FS_Subset
  <1>3. ASSUME NEW i \in Starts
        PROVE  IsFiniteSet(Members(i)') /\ IsFiniteSet(Settled(i)')
    <2>1. Members(i)' \subseteq AllStored' /\ Settled(i)' \subseteq AllStored'
        BY DEF Members, Settled, AllStored
    <2> QED BY <1>2, <2>1, FS_Subset
  <1> QED BY <1>2, <1>3

\* Nothing is owed anew, and nothing started.
LEMMA OwesNoMore ==
    ASSUME TypeOK, RequestsOK, DiagnosesOK, [Next]_vars, started' = started,
           \A v \in Workers, i \in Starts, k \in {"INITIAL", "ALERT_REFIRED"} :
               Owes(v, i, k)' => Owes(v, i, k) /\ req'[v].job = req[v].job
    PROVE  DiagnosesOK'
  <1>1. /\ IsFiniteSet(AllStored)' /\ \A i \in Starts : IsFiniteSet(Settled(i)')
        /\ \A i \in Starts : Members(i) \subseteq Members(i)'
        /\ \A i \in Starts : Stored(i) => Stored(i)'
      BY StoredStayFinite, MembersStay, StoredForGood DEF DiagnosesOK
  <1>2. ASSUME NEW i \in Starts
        PROVE  InitialOnce(i)'
    <2>1. InitialOnce(i) /\ \A v \in Workers : Owes(v, i, "INITIAL")' => Owes(v, i, "INITIAL")
        BY DEF DiagnosesOK
    <2>2. Stored(i) => Stored(i)'
        BY <1>1
    <2> QED BY <2>1, <2>2 DEF InitialOnce
  <1>3. ASSUME NEW i \in Starts
        PROVE  RefiredOnce(i)'
    <2>1. RefiredOnce(i) /\ Members(i) \subseteq Members(i)' /\ IsFiniteSet(Settled(i)')
        BY <1>1 DEF DiagnosesOK
    <2>2. \A v \in Workers : Owes(v, i, "ALERT_REFIRED")' =>
                                 Owes(v, i, "ALERT_REFIRED") /\ req'[v].job = req[v].job
        OBVIOUS
    <2>3. Settled(i) \subseteq Settled(i)'
        BY <2>1, <2>2 DEF Settled
    <2>4. started'[i]["ALERT_REFIRED"] <= Cardinality(Settled(i)')
        BY <2>1, <2>3, CountsOf, CountsInMore DEF RefiredOnce
    <2>5. ASSUME NEW w \in Workers, Owes(w, i, "ALERT_REFIRED")'
          PROVE  /\ req'[w].job.start \in Members(i)' \ {i}
                 /\ \A v \in Workers :
                       Owes(v, i, "ALERT_REFIRED")' /\ req'[v].job.start = req'[w].job.start => v = w
      <3>1. Owes(w, i, "ALERT_REFIRED") /\ req'[w].job = req[w].job
          BY <2>2, <2>5
      <3> QED BY <2>1, <2>2, <3>1 DEF RefiredOnce
    <2> QED BY <2>4, <2>5 DEF RefiredOnce
  <1> QED BY <1>1, <1>2, <1>3 DEF DiagnosesOK

\* What another handler owes is its own affair.
LEMMA OthersOwe ==
    ASSUME TypeOK, NEW w \in Workers, req' = [req EXCEPT ![w] = req'[w]], NEW v \in Workers, v # w
    PROVE  req'[v] = req[v] /\ \A i, k : Owes(v, i, k)' <=> Owes(v, i, k)
  BY DEF TypeOK, Owes

\* The steps that report nothing but an end.
LEMMA OwesAsBefore ==
    ASSUME TypeOK, RequestsOK, NEW w \in Workers,
           \/ (\E d \in Deliveries : Deliver(w, d)) \/ Fail(w)
           \/ FindEpisode(w) \/ LoadEpisode(w) \/ RecordRefired(w) \/ Lookup(w) \/ Conflict(w)
           \/ Update(w) \/ Replace(w) \/ FlushEnd(w) \/ CommitEnd(w),
           NEW i, NEW k, k # "RESOLVED" \/ ~CommitEnd(w), Owes(w, i, k)'
    PROVE  Owes(w, i, k) /\ req'[w].job = req[w].job
  <1> USE DEF Goes
  <1>0. req \in [Workers -> Requests] /\ req[w] \in Requests
      BY DEF TypeOK
  <1>1. ASSUME NEW d \in Deliveries, Deliver(w, d)
        PROVE  FALSE
    <2>1. PICK pc : req' = [req EXCEPT ![w] = [Idle EXCEPT !.pc = pc, !.job = d]]
        BY <1>1 DEF Deliver
    <2>2. req'[w].outcome = {}
        BY <1>0, <2>1 DEF Idle
    <2> QED BY <2>2 DEF Owes
  <1>2. CASE Fail(w)
    <2>1. req'[w].outcome = {}
        BY <1>0, <1>2 DEF Fail, Idle
    <2> QED BY <2>1 DEF Owes
  <1>3. CASE FindEpisode(w) \/ LoadEpisode(w) \/ RecordRefired(w) \/ Lookup(w) \/ Conflict(w)
             \/ Update(w) \/ Replace(w) \/ FlushEnd(w)
    <2>1. req'[w].outcome = req[w].outcome /\ req'[w].job = req[w].job
      <3>1. CASE FindEpisode(w)
        <4>1. (\E pc, b : Goes(w, [req[w] EXCEPT !.pc = pc, !.base = b]))
              \/ (\E pc : Goes(w, [req[w] EXCEPT !.pc = pc]))
            BY <3>1 DEF FindEpisode
        <4> QED BY <1>0, <4>1 DEF Requests
      <3>2. CASE RecordRefired(w) \/ Conflict(w)
        <4>1. \E pc : Goes(w, [req[w] EXCEPT !.pc = pc])
            BY <3>2 DEF RecordRefired, Conflict
        <4> QED BY <1>0, <4>1 DEF Requests
      <3>7. CASE LoadEpisode(w)
        <4>1. \E pc, seen : Goes(w, [req[w] EXCEPT !.pc = pc, !.seen = seen])
            BY <3>7 DEF LoadEpisode
        <4> QED BY <1>0, <4>1 DEF Requests
      <3>3. CASE Lookup(w)
        <4>1. \E pc, todo : \/ Goes(w, [req[w] EXCEPT !.pc = pc])
                            \/ Goes(w, [req[w] EXCEPT !.pc = pc, !.base = NoTime, !.todo = todo])
            BY <3>3 DEF Lookup
        <4> QED BY <1>0, <4>1 DEF Requests
      <3>4. CASE Update(w)
        <4>1. \E pc : Goes(w, [req[w] EXCEPT !.pc = pc])
            BY <3>4 DEF Update
        <4> QED BY <1>0, <4>1 DEF Requests
      <3>5. CASE Replace(w)
        <4>1. \E pc, todo : Goes(w, [req[w] EXCEPT !.pc = pc, !.base = NoTime, !.todo = todo])
            BY <3>5 DEF Replace
        <4> QED BY <1>0, <4>1 DEF Requests
      <3>6. CASE FlushEnd(w)
        <4>1. \E t, seen, last : Goes(w, [req[w] EXCEPT !.pc = "commit end", !.base = t, !.seen = seen, !.last = last])
            BY <3>6 DEF FlushEnd
        <4> QED BY <1>0, <4>1 DEF Requests
      <3> QED BY <1>3, <3>1, <3>2, <3>3, <3>4, <3>5, <3>6, <3>7
    <2> QED BY <2>1 DEF Owes
  <1>4. CASE CommitEnd(w)
    <2>1. PICK j, pc, left, seen, out :
             /\ req' = [req EXCEPT ![w] = [req[w] EXCEPT !.pc = pc, !.todo = left, !.seen = seen,
                                                         !.outcome = out]]
             /\ out \subseteq req[w].outcome \cup {<<j, "RESOLVED">>}
        BY <1>4 DEF CommitEnd
    <2>2. req'[w].outcome = out /\ req'[w].job = req[w].job
        BY <1>0, <2>1 DEF Requests
    <2>3. <<i, k>> # <<j, "RESOLVED">>
        BY <1>4
    <2> QED BY <2>1, <2>2, <2>3 DEF Owes
  <1> QED BY <1>1, <1>2, <1>3, <1>4

LEMMA AttachOwes ==
    ASSUME TypeOK, RequestsOK, EpisodeHasFounder, DiagnosesOK, [Next]_vars, NEW w \in Workers, Attach(w)
    PROVE  DiagnosesOK'
  <1>0. /\ req \in [Workers -> Requests] /\ req[w] \in Requests /\ RequestOK(w)
        /\ IsFiniteSet(AllStored)' /\ \A i \in Starts : IsFiniteSet(Settled(i)')
        /\ \A i \in Starts : Members(i) \subseteq Members(i)' /\ (Stored(i) => Stored(i)')
      BY StoredStayFinite, MembersStay, StoredForGood DEF TypeOK, RequestsOK, DiagnosesOK
  <1> PICK d \in Deliveries, b \in Starts : d = req[w].job /\ b = req[w].base /\ Stored(b)
      BY <1>0 DEF Attach, RequestOK
  <1> PICK s \in Starts : s = d.start
      BY DeliveryTypes
  <1> PICK i \in Starts : i = row[b].incident /\ Stored(i)
      BY EpisodeOfBase
  <1>1. ~Stored(s) /\ started' = started /\ row' = [row EXCEPT ![s] = NewRow(i, d)]
      BY DEF Attach
  <1>2. s # i /\ s \in Members(i)'
    <2>1. row'[s] = NewRow(i, d) /\ NewRow(i, d) # NoRow /\ NewRow(i, d).incident = i
        BY <1>1, NewRowTyped, NullAssumption DEF TypeOK, NewRow
    <2> QED BY <1>1, <2>1 DEF Members, Stored
  <1>3. /\ req' = [req EXCEPT ![w] = req'[w]]
        /\ req'[w].outcome = {<<i, "ALERT_REFIRED">>} /\ req'[w].job = d
    <2>1. \E pc, base : Goes(w, [req[w] EXCEPT !.pc = pc, !.base = base, !.outcome = {<<i, "ALERT_REFIRED">>}])
        BY DEF Attach
    <2> QED BY <1>0, <2>1 DEF Goes, Requests
  <1>4. ASSUME NEW v \in Workers, v # w
        PROVE  req'[v] = req[v] /\ \A j, k : Owes(v, j, k)' <=> Owes(v, j, k)
      BY <1>3, <1>4, OthersOwe
  <1>5. \A j, k : Owes(w, j, k)' => j = i /\ k = "ALERT_REFIRED"
      BY <1>3 DEF Owes
  <1>6. ASSUME NEW j \in Starts
        PROVE  InitialOnce(j)'
    <2>1. InitialOnce(j) /\ (Stored(j) => Stored(j)') /\ ~Owes(w, j, "INITIAL")'
        BY <1>0, <1>5 DEF DiagnosesOK
    <2> QED BY <1>1, <1>4, <2>1 DEF InitialOnce
  <1>7. ASSUME NEW j \in Starts
        PROVE  RefiredOnce(j)'
    <2>1. RefiredOnce(j) /\ Members(j) \subseteq Members(j)' /\ IsFiniteSet(Settled(j)')
        BY <1>0 DEF DiagnosesOK
    <2>2. \A t \in Members(j) : t # s
        BY <1>1 DEF Members
    <2>3. Settled(j) \subseteq Settled(j)'
      <3> SUFFICES ASSUME NEW t \in Settled(j), t \notin Settled(j)'
                   PROVE  FALSE
          OBVIOUS
      <3>1. t \in Members(j) \ {j} /\ t \in Members(j)' /\ t # s
          BY <2>1, <2>2 DEF Settled
      <3>2. PICK v \in Workers : Owes(v, j, "ALERT_REFIRED")' /\ req'[v].job.start = t
          BY <3>1 DEF Settled
      <3>3. v # w
          BY <1>3, <3>1, <3>2
      <3>4. Owes(v, j, "ALERT_REFIRED") /\ req[v].job.start = t
          BY <1>4, <3>2, <3>3
      <3> QED BY <3>4 DEF Settled
    <2>4. started'[j]["ALERT_REFIRED"] <= Cardinality(Settled(j)')
        BY <1>1, <2>1, <2>3, CountsOf, CountsInMore DEF RefiredOnce
    <2>5. ASSUME NEW v \in Workers, Owes(v, j, "ALERT_REFIRED")'
          PROVE  req'[v].job.start \in Members(j)' \ {j}
      <3>1. CASE v = w
          BY <1>2, <1>3, <1>5, <2>5, <3>1
      <3>2. CASE v # w
        <4>1. req'[v] = req[v] /\ Owes(v, j, "ALERT_REFIRED")
            BY <1>4, <2>5, <3>2
        <4> QED BY <2>1, <4>1 DEF RefiredOnce
      <3> QED BY <3>1, <3>2
    <2>6. ASSUME NEW u \in Workers, NEW v \in Workers,
                 Owes(u, j, "ALERT_REFIRED")', Owes(v, j, "ALERT_REFIRED")',
                 req'[v].job.start = req'[u].job.start
          PROVE  v = u
      <3>1. ASSUME NEW x \in Workers, x # w, Owes(x, j, "ALERT_REFIRED")'
            PROVE  req'[x] = req[x] /\ Owes(x, j, "ALERT_REFIRED") /\ req'[x].job.start # s
        <4>1. req'[x] = req[x] /\ Owes(x, j, "ALERT_REFIRED")
            BY <1>4, <3>1
        <4>2. req[x].job.start \in Members(j)
            BY <2>1, <4>1 DEF RefiredOnce
        <4> QED BY <2>2, <4>1, <4>2
      <3>2. CASE u = w \/ v = w
          BY <1>3, <2>6, <3>1, <3>2
      <3>3. CASE u # w /\ v # w
        <4>1. Owes(u, j, "ALERT_REFIRED") /\ Owes(v, j, "ALERT_REFIRED")
              /\ req[v].job.start = req[u].job.start
            BY <2>6, <3>1, <3>3
        <4> QED BY <2>1, <4>1 DEF RefiredOnce
      <3> QED BY <3>2, <3>3
    <2> QED BY <2>4, <2>5, <2>6 DEF RefiredOnce
  <1> QED BY <1>0, <1>6, <1>7 DEF DiagnosesOK

LEMMA CreateOwes ==
    ASSUME TypeOK, RequestsOK, DiagnosesOK, [Next]_vars, NEW w \in Workers, Create(w)
    PROVE  DiagnosesOK'
  <1>0. /\ req \in [Workers -> Requests] /\ req[w] \in Requests /\ RequestOK(w)
        /\ IsFiniteSet(AllStored)' /\ \A i \in Starts : IsFiniteSet(Settled(i)')
        /\ \A i \in Starts : Members(i) \subseteq Members(i)' /\ (Stored(i) => Stored(i)')
      BY StoredStayFinite, MembersStay, StoredForGood DEF TypeOK, RequestsOK, DiagnosesOK
  <1> PICK d \in Deliveries : d = req[w].job
      BY <1>0 DEF Create, RequestOK
  <1> PICK s \in Starts : s = d.start
      BY DeliveryTypes
  <1>1. ~Stored(s) /\ started' = started /\ row' = [row EXCEPT ![s] = NewRow(s, d)]
      BY DEF Create
  <1>2. Stored(s)'
      BY <1>1, NewRowTyped, NullAssumption DEF TypeOK, Stored
  <1>3. /\ req' = [req EXCEPT ![w] = req'[w]]
        /\ req'[w].outcome = {<<s, "INITIAL">>} /\ req'[w].job = d
    <2>1. \E pc : Goes(w, [req[w] EXCEPT !.pc = pc, !.outcome = {<<s, "INITIAL">>}])
        BY DEF Create
    <2> QED BY <1>0, <2>1 DEF Goes, Requests
  <1>4. ASSUME NEW v \in Workers, v # w
        PROVE  req'[v] = req[v] /\ \A j, k : Owes(v, j, k)' <=> Owes(v, j, k)
      BY <1>3, <1>4, OthersOwe
  <1>5. \A j, k : Owes(w, j, k)' => j = s /\ k = "INITIAL"
      BY <1>3 DEF Owes
  <1>6. ASSUME NEW j \in Starts
        PROVE  InitialOnce(j)'
    <2>1. InitialOnce(j) /\ (Stored(j) => Stored(j)') /\ (Owes(w, j, "INITIAL")' => j = s)
        BY <1>0, <1>5 DEF DiagnosesOK
    <2>2. CASE j = s
      <3>1. started'[j]["INITIAL"] = 0 /\ \A v \in Workers : ~Owes(v, j, "INITIAL")
          BY <1>1, <2>1, <2>2 DEF InitialOnce
      <3>2. \A v \in Workers : Owes(v, j, "INITIAL")' => v = w
          BY <1>4, <3>1
      <3> QED BY <1>2, <2>2, <3>1, <3>2 DEF InitialOnce
    <2>3. CASE j # s
      <3>1. ~Owes(w, j, "INITIAL")'
          BY <2>1, <2>3
      <3> QED BY <1>1, <1>4, <2>1, <3>1 DEF InitialOnce
    <2> QED BY <2>2, <2>3
  <1>7. ASSUME NEW j \in Starts
        PROVE  RefiredOnce(j)'
    <2>1. /\ RefiredOnce(j) /\ Members(j) \subseteq Members(j)' /\ IsFiniteSet(Settled(j)')
          /\ ~Owes(w, j, "ALERT_REFIRED")'
        BY <1>0, <1>5 DEF DiagnosesOK
    <2>2. \A v \in Workers : Owes(v, j, "ALERT_REFIRED")' =>
                                 Owes(v, j, "ALERT_REFIRED") /\ req'[v] = req[v]
        BY <1>4, <2>1
    <2>3. Settled(j) \subseteq Settled(j)'
        BY <2>1, <2>2 DEF Settled
    <2>4. started'[j]["ALERT_REFIRED"] <= Cardinality(Settled(j)')
        BY <1>1, <2>1, <2>3, CountsOf, CountsInMore DEF RefiredOnce
    <2>5. ASSUME NEW u \in Workers, Owes(u, j, "ALERT_REFIRED")'
          PROVE  /\ req'[u].job.start \in Members(j)' \ {j}
                 /\ \A v \in Workers :
                       Owes(v, j, "ALERT_REFIRED")' /\ req'[v].job.start = req'[u].job.start => v = u
      <3>1. Owes(u, j, "ALERT_REFIRED") /\ req'[u] = req[u]
          BY <2>2, <2>5
      <3> QED BY <2>1, <2>2, <3>1 DEF RefiredOnce
    <2> QED BY <2>4, <2>5 DEF RefiredOnce
  <1> QED BY <1>0, <1>6, <1>7 DEF DiagnosesOK

LEMMA RespondOwes ==
    ASSUME TypeOK, RequestsOK, DiagnosesOK, [Next]_vars, NEW w \in Workers, Respond(w)
    PROVE  DiagnosesOK'
  <1>0. /\ req \in [Workers -> Requests] /\ req[w] \in Requests
        /\ IsFiniteSet(AllStored)' /\ \A i \in Starts : IsFiniteSet(Settled(i)')
      BY StoredStayFinite DEF TypeOK, DiagnosesOK
  <1>1. \A j \in Starts : Members(j)' = Members(j) /\ (Stored(j)' <=> Stored(j))
      BY DEF Respond, db, Members, Stored
  <1>2. req' = [req EXCEPT ![w] = req'[w]] /\ req'[w].outcome = {}
      BY <1>0 DEF Respond, Goes, Idle
  <1>3. \A j, k : ~Owes(w, j, k)'
      BY <1>2 DEF Owes
  <1>4. ASSUME NEW v \in Workers, NEW j, NEW k, Owes(v, j, k)'
        PROVE  v # w /\ req'[v] = req[v] /\ Owes(v, j, k)
      BY <1>2, <1>3, <1>4, OthersOwe
  <1>5. ASSUME NEW v \in Workers, NEW j, NEW k, Owes(v, j, k), v # w
        PROVE  Owes(v, j, k)'
      BY <1>2, <1>5, OthersOwe
  <1>6. ASSUME NEW j \in Starts, NEW k \in Triggers
        PROVE  /\ Owes(w, j, k) => started'[j][k] = started[j][k] + 1
               /\ ~Owes(w, j, k) => started'[j][k] = started[j][k]
    <2>1. started[j][k] \in Nat
        BY DEF TypeOK
    <2>2. started'[j][k] = started[j][k] + (IF Owes(w, j, k) THEN 1 ELSE 0)
        BY DEF Respond, Owes
    <2> QED BY <2>1, <2>2
  <1>7. ASSUME NEW j \in Starts
        PROVE  InitialOnce(j)'
    <2>1. InitialOnce(j) /\ (Stored(j)' <=> Stored(j)) /\ started[j]["INITIAL"] \in Nat
        BY <1>1, CountsOf DEF DiagnosesOK
    <2>2. CASE Owes(w, j, "INITIAL")
      <3>1. Stored(j)' /\ started[j]["INITIAL"] = 0
          BY <2>1, <2>2 DEF InitialOnce
      <3>2. started'[j]["INITIAL"] = 1
          BY <1>6, <2>2, <3>1 DEF Triggers
      <3>3. \A v \in Workers : ~Owes(v, j, "INITIAL")'
          BY <1>4, <2>1, <2>2 DEF InitialOnce
      <3> QED BY <3>1, <3>2, <3>3 DEF InitialOnce
    <2>3. CASE ~Owes(w, j, "INITIAL")
      <3>1. started'[j]["INITIAL"] = started[j]["INITIAL"]
          BY <1>6, <2>3 DEF Triggers
      <3> QED BY <1>4, <2>1, <3>1 DEF InitialOnce
    <2> QED BY <2>2, <2>3
  <1>8. ASSUME NEW j \in Starts
        PROVE  RefiredOnce(j)'
    <2>1. /\ RefiredOnce(j) /\ Members(j)' = Members(j) /\ IsFiniteSet(Settled(j)')
          /\ started[j]["ALERT_REFIRED"] \in Nat
        BY <1>0, <1>1, CountsOf DEF DiagnosesOK
    <2>2. \A v \in Workers : Owes(v, j, "ALERT_REFIRED")' =>
                                 v # w /\ Owes(v, j, "ALERT_REFIRED") /\ req'[v] = req[v]
        BY <1>4
    <2>3. Settled(j) \subseteq Settled(j)'
        BY <2>1, <2>2 DEF Settled
    <2>4. started'[j]["ALERT_REFIRED"] <= Cardinality(Settled(j)')
      <3>1. CASE Owes(w, j, "ALERT_REFIRED")
        <4>1. req[w].job.start \in Settled(j)' \ Settled(j)
          <5>1. req[w].job.start \in Members(j) \ {j}
              BY <2>1, <3>1 DEF RefiredOnce
          <5>2. \A v \in Workers : Owes(v, j, "ALERT_REFIRED")' => req'[v].job.start # req[w].job.start
              BY <2>1, <2>2, <3>1 DEF RefiredOnce
          <5>3. req[w].job.start \notin Settled(j)
              BY <3>1 DEF Settled
          <5> QED BY <2>1, <5>1, <5>2, <5>3 DEF Settled
        <4>2. started[j]["ALERT_REFIRED"] + 1 <= Cardinality(Settled(j)')
          <5>1. started[j]["ALERT_REFIRED"] <= Cardinality(Settled(j))
              BY <2>1 DEF RefiredOnce
          <5> HIDE DEF Settled
          <5> QED BY <2>1, <2>3, <4>1, <5>1, CountsOneMore
        <4> QED BY <1>6, <3>1, <4>2 DEF Triggers
      <3>2. CASE ~Owes(w, j, "ALERT_REFIRED")
        <4>1. started'[j]["ALERT_REFIRED"] = started[j]["ALERT_REFIRED"]
            BY <1>6, <3>2 DEF Triggers
        <4> QED BY <2>1, <2>3, <4>1, CountsInMore DEF RefiredOnce
      <3> QED BY <3>1, <3>2
    <2>5. ASSUME NEW u \in Workers, Owes(u, j, "ALERT_REFIRED")'
          PROVE  /\ req'[u].job.start \in Members(j)' \ {j}
                 /\ \A v \in Workers :
                       Owes(v, j, "ALERT_REFIRED")' /\ req'[v].job.start = req'[u].job.start => v = u
      <3>1. Owes(u, j, "ALERT_REFIRED") /\ req'[u] = req[u]
          BY <2>2, <2>5
      <3> QED BY <2>1, <2>2, <3>1 DEF RefiredOnce
    <2> QED BY <2>4, <2>5 DEF RefiredOnce
  <1> QED BY <1>0, <1>7, <1>8 DEF DiagnosesOK

LEMMA DiagnosesInit ==
    ASSUME Init PROVE DiagnosesOK
  <1>1. \A w \in Workers : \A i, k : ~Owes(w, i, k)
      BY DEF Init, Idle, Owes
  <1>2. AllStored = {} /\ \A i \in Starts : Settled(i) = {}
      BY DEF Init, AllStored, Settled, Members, Stored
  <1>3. \A i \in Starts : started[i]["INITIAL"] = 0 /\ started[i]["ALERT_REFIRED"] = 0
      BY DEF Init, Triggers
  <1>4. IsFiniteSet({}) /\ Cardinality({}) = 0
      BY FS_EmptySet
  <1> QED BY <1>1, <1>2, <1>3, <1>4 DEF DiagnosesOK, InitialOnce, RefiredOnce

LEMMA DiagnosesStep ==
    ASSUME TypeOK, RequestsOK, EpisodeHasFounder, DiagnosesOK, [Next]_vars
    PROVE  DiagnosesOK'
  <1>1. CASE UNCHANGED vars
    <2>1. \A v \in Workers, i \in Starts, k \in {"INITIAL", "ALERT_REFIRED"} :
              Owes(v, i, k)' => Owes(v, i, k) /\ req'[v].job = req[v].job
        BY <1>1 DEF vars, Owes
    <2> QED BY <1>1, <2>1, OwesNoMore DEF vars
  <1>2. ASSUME NEW w \in Workers, (\E d \in Deliveries : Deliver(w, d)) \/ Handle(w) \/ Fail(w),
               ~(Attach(w) \/ Create(w) \/ Respond(w))
        PROVE  DiagnosesOK'
    <2>1. \/ (\E d \in Deliveries : Deliver(w, d)) \/ Fail(w)
          \/ FindEpisode(w) \/ LoadEpisode(w) \/ RecordRefired(w) \/ Lookup(w) \/ Conflict(w)
          \/ Update(w) \/ Replace(w) \/ FlushEnd(w) \/ CommitEnd(w)
        BY <1>2 DEF Handle
    <2>2. started' = started
        BY <2>1 DEF Deliver, Fail, FindEpisode, LoadEpisode, RecordRefired, Lookup, Conflict, Update,
                    Replace, FlushEnd, CommitEnd, OnlyReads
    <2>3. req' = [req EXCEPT ![w] = req'[w]]
        BY <1>2, RequestStep DEF RequestKept
    <2>4. ASSUME NEW v \in Workers, NEW i \in Starts, NEW k \in {"INITIAL", "ALERT_REFIRED"},
                 Owes(v, i, k)'
          PROVE  Owes(v, i, k) /\ req'[v].job = req[v].job
      <3>1. CASE v = w
          BY <2>1, <2>4, <3>1, OwesAsBefore
      <3>2. CASE v # w
          BY <2>3, <2>4, <3>2, OthersOwe
      <3> QED BY <3>1, <3>2
    <2> QED BY <2>2, <2>4, OwesNoMore
  <1> QED BY <1>1, <1>2, AttachOwes, CreateOwes, RespondOwes DEF Next

\* An INITIAL diagnosis is owed or started once, an ALERT_REFIRED one once per continuation.
THEOREM DiagnosesCounted == Spec => []DiagnosesOK
  <1>1. Init => DiagnosesOK
      BY DiagnosesInit
  <1>2. TypeOK /\ RequestsOK /\ EpisodeHasFounder /\ DiagnosesOK /\ [Next]_vars => DiagnosesOK'
      BY DiagnosesStep
  <1> QED BY <1>1, <1>2, TypeCorrect, Founders, PTL DEF Spec

\* Changes start diagnoses, deliveries do not: with any number of handlers and whatever is
\* delivered again, at most one INITIAL diagnosis is started for an incident, and no more
\* ALERT_REFIRED ones than occurrences continued it.
THEOREM DiagnosesBounded == Spec => []DiagnosesBoundedByChanges
  <1>1. TypeOK /\ DiagnosesOK => DiagnosesBoundedByChanges
    <2> SUFFICES ASSUME TypeOK, DiagnosesOK, NEW i \in Starts
                 PROVE  /\ started[i]["INITIAL"] <= 1
                        /\ started[i]["ALERT_REFIRED"] <= Cardinality(Members(i) \ {i})
        BY DEF DiagnosesBoundedByChanges
    <2>1. started[i]["INITIAL"] <= 1
        BY DEF DiagnosesOK, InitialOnce
    <2>2. IsFiniteSet(Members(i) \ {i})
      <3>1. Members(i) \ {i} \subseteq AllStored
          BY DEF Members, AllStored
      <3> QED BY <3>1, FS_Subset DEF DiagnosesOK
    <2>3. Settled(i) \subseteq Members(i) \ {i}
        BY DEF Settled
    <2>4. started[i]["ALERT_REFIRED"] <= Cardinality(Members(i) \ {i})
        BY <2>2, <2>3, CountsOf, CountsInMore DEF DiagnosesOK, RefiredOnce
    <2> QED BY <2>1, <2>4
  <1> QED BY <1>1, TypeCorrect, DiagnosesCounted, PTL
==============================================================================
