------------------------ MODULE SequentialEpisodesProofs ------------------------
(* What AlertEpisodes guarantees when a single handler ingests, as the intake thread of *)
(* the connector mode does: nothing changes between what it reads and what it commits.  *)
EXTENDS AlertEpisodesProofs

OneHandler == \A v, w \in Workers : v = w

\* What the handler has read still holds when it writes.
ReadsHold(w) ==
    LET r == req[w] IN
    /\ r.pc = "attach" => r.seen = inc[row[r.base].incident]
    /\ r.pc = "update" => Firing(r.job.start)
    /\ r.pc \in {"end", "commit end"} => \A t \in r.todo : Firing(t)
    /\ r.pc = "commit end" => (r.last <=> NoOtherFires(r.base))

AllReadsHold == \A w \in Workers : ReadsHold(w)

\* The incident of a firing occurrence is not resolved, seen from the occurrence.
FiringKeepsOpen == \A s \in Starts : Firing(s) => inc[row[s].incident] # "RESOLVED"

LEMMA FiringInStarts ==
    ASSUME TypeOK PROVE \A s \in Starts : Firing(s) => row[s].incident \in Starts
    BY DEF TypeOK, Firing, Stored, Rows

LEMMA QuietIsFiringKeepsOpen ==
    ASSUME TypeOK PROVE ResolvedIncidentIsQuiet <=> FiringKeepsOpen
    BY FiringInStarts DEF ResolvedIncidentIsQuiet, FiringKeepsOpen, Members, Firing

\* Steps that leave the tables alone only have to read correctly.
LEMMA ReadingStep ==
    ASSUME TypeOK, RequestsOK, AllReadsHold, NEW w \in Workers, UNCHANGED db,
           \/ (\E d \in Deliveries : Deliver(w, d)) \/ Fail(w) \/ Respond(w)
           \/ FindEpisode(w) \/ LoadEpisode(w) \/ Lookup(w) \/ Conflict(w)
           \/ Replace(w) \/ FlushEnd(w)
    PROVE  ReadsHold(w)'
  <1>0. /\ req \in [Workers -> Requests] /\ req[w] \in Requests /\ RequestOK(w) /\ ReadsHold(w)
        /\ row' = row /\ inc' = inc
      BY DEF TypeOK, RequestsOK, AllReadsHold, db
  <1> USE DEF Goes
  <1>1. CASE (\E d \in Deliveries : Deliver(w, d)) \/ Fail(w) \/ Respond(w)
    <2>1. req'[w].pc \in {"idle", "continue", "lookup"}
      <3>1. ASSUME NEW d \in Deliveries, Deliver(w, d)
            PROVE  req'[w].pc \in {"continue", "lookup"}
        <4> DEFINE pc == IF Quiet > 0 /\ d.status = "FIRING" THEN "continue" ELSE "lookup"
        <4>1. pc \in {"continue", "lookup"}
            OBVIOUS
        <4>2. req'[w] = [Idle EXCEPT !.pc = pc, !.job = d]
            BY <1>0, <3>1 DEF Deliver
        <4>3. [Idle EXCEPT !.pc = pc, !.job = d].pc = pc
            BY DEF Idle
        <4> HIDE DEF pc
        <4> QED BY <4>1, <4>2, <4>3
      <3> QED BY <1>0, <1>1, <3>1 DEF Fail, Respond, Idle
    <2> QED BY <2>1 DEF ReadsHold
  <1>2. CASE FindEpisode(w)
    <2>1. ASSUME NEW t \in Starts, Goes(w, [req[w] EXCEPT !.pc = "load", !.base = t])
          PROVE  req'[w].pc = "load"
        BY <1>0, <2>1 DEF Requests
    <2>2. ASSUME Goes(w, [req[w] EXCEPT !.pc = "lookup"])
          PROVE  req'[w].pc = "lookup"
        BY <1>0, <2>2 DEF Requests
    <2> QED BY <1>2, <2>1, <2>2 DEF FindEpisode, ReadsHold
  <1>3. CASE LoadEpisode(w)
    <2>1. /\ req'[w].pc = "attach" /\ req'[w].base = req[w].base
          /\ req'[w].seen = inc[row[req[w].base].incident]
        BY <1>0, <1>3 DEF LoadEpisode, Requests
    <2> QED BY <1>0, <2>1 DEF ReadsHold
  <1>4. CASE Lookup(w)
    <2> PICK d \in Deliveries : d = req[w].job
        BY <1>0, <1>4 DEF Lookup, RequestOK
    <2>0. d.start \in Starts /\ d.status \in AlertStatus
        BY DeliveryTypes
    <2>1. CASE Goes(w, [req[w] EXCEPT !.pc = "create"])
      <3>1. req'[w].pc = "create"
          BY <1>0, <2>1 DEF Requests
      <3> QED BY <3>1 DEF ReadsHold
    <2>2. CASE Goes(w, [req[w] EXCEPT !.pc = AfterStored(d)])
      <3>1. req'[w].pc \in {"replace", "done"}
          BY <1>0, <2>2 DEF Requests, AfterStored
      <3> QED BY <3>1 DEF ReadsHold
    <2>3. CASE Stored(d.start) /\ ~NothingNew(d)
      <3>1. Firing(d.start)
        <4>1. row[d.start].status \in AlertStatus
            BY <2>0, <2>3 DEF TypeOK, Stored, Rows
        <4> QED BY <2>0, <2>3, <4>1 DEF NothingNew, EndedAgain, LateFiring, AlertStatus, Firing
      <3>2. Firing(d.start)'
          BY <1>0, <3>1 DEF Firing, Stored
      <3>3. CASE Goes(w, [req[w] EXCEPT !.pc = "update"])
        <4>1. req'[w].pc = "update" /\ req'[w].job = d
            BY <1>0, <3>3 DEF Requests
        <4> QED BY <1>0, <3>2, <4>1 DEF ReadsHold, Firing, Stored
      <3>4. CASE Goes(w, [req[w] EXCEPT !.pc = "end", !.base = NoTime, !.todo = {d.start}])
        <4>1. req'[w].pc = "end" /\ req'[w].todo = {d.start}
            BY <1>0, <3>4 DEF Requests
        <4> QED BY <1>0, <3>2, <4>1 DEF ReadsHold, Firing, Stored
      <3> QED BY <1>4, <2>1, <2>2, <3>3, <3>4 DEF Lookup
    <2> QED BY <1>4, <2>1, <2>2, <2>3 DEF Lookup
  <1>5. CASE Conflict(w)
    <2>1. req'[w].pc = "lookup"
        BY <1>0, <1>5 DEF Conflict, Requests
    <2> QED BY <2>1 DEF ReadsHold
  <1>6. CASE Replace(w)
    <2>1. /\ req'[w].pc \in {"done", "end"}
          /\ req'[w].todo = Replaced(req[w].job.start)
        BY <1>0, <1>6 DEF Replace, Requests
    <2>2. \A t \in Replaced(req[w].job.start) : Firing(t)
        BY DEF Replaced
    <2> QED BY <1>0, <2>1, <2>2 DEF ReadsHold, Firing, Stored
  <1>7. CASE FlushEnd(w)
    <2> PICK t \in req[w].todo :
            Goes(w, [req[w] EXCEPT !.pc = "commit end", !.base = t,
                                   !.seen = LoadedFor(w, t), !.last = NoOtherFires(t)])
        BY <1>7 DEF FlushEnd
    <2>1. /\ req'[w].pc = "commit end" /\ req'[w].base = t /\ req'[w].todo = req[w].todo
          /\ req'[w].last = NoOtherFires(t)
        BY <1>0 DEF Requests
    <2>2. NoOtherFires(t)' <=> NoOtherFires(t)
        BY <1>0 DEF NoOtherFires, Firing, Stored
    <2>3. \A u \in req[w].todo : Firing(u)
        BY <1>0, <1>7 DEF ReadsHold, FlushEnd
    <2>4. \A u \in req'[w].todo : Firing(u)'
        BY <1>0, <2>1, <2>3 DEF Firing, Stored
    <2>5. req'[w].last <=> NoOtherFires(t)'
        BY <2>1, <2>2
    <2>6. (req[w].last <=> NoOtherFires(req[w].base))'
        BY <1>0, <2>1, <2>5 DEF NoOtherFires, Firing, Stored
    <2> QED BY <2>1, <2>4, <2>6 DEF ReadsHold
  <1> QED BY <1>1, <1>2, <1>3, <1>4, <1>5, <1>6, <1>7

\* A commit leaves nothing read behind, except the occurrences still to be ended.
LEMMA WritingStep ==
    ASSUME TypeOK, RequestsOK, AllReadsHold, NEW w \in Workers,
           Attach(w) \/ RecordRefired(w) \/ Create(w) \/ Update(w) \/ CommitEnd(w)
    PROVE  ReadsHold(w)'
  <1>0. /\ req \in [Workers -> Requests] /\ req[w] \in Requests /\ RequestOK(w) /\ ReadsHold(w)
      BY DEF TypeOK, RequestsOK, AllReadsHold
  <1> USE DEF Goes
  <1>1. CASE Attach(w) \/ RecordRefired(w)
    <2>1. CASE Attach(w)
      <3>1. req'[w].pc = "refired"
          BY <1>0, <2>1 DEF Attach, Requests
      <3> QED BY <3>1 DEF ReadsHold
    <2>2. CASE RecordRefired(w)
      <3>1. req'[w].pc = "replace"
          BY <1>0, <2>2 DEF RecordRefired, Requests
      <3> QED BY <3>1 DEF ReadsHold
    <2> QED BY <1>1, <2>1, <2>2
  <1>2. CASE Create(w) \/ Update(w)
    <2> PICK next \in {"replace", "done"} : next = AfterStored(req[w].job)
        BY DEF AfterStored
    <2>1. CASE Create(w)
      <3>1. req'[w].pc = next
          BY <1>0, <2>1 DEF Create, Requests
      <3> QED BY <3>1 DEF ReadsHold
    <2>2. CASE Update(w)
      <3>1. req'[w].pc = next
          BY <1>0, <2>2 DEF Update, Requests
      <3> QED BY <3>1 DEF ReadsHold
    <2> QED BY <1>2, <2>1, <2>2
  <1>3. CASE CommitEnd(w)
    <2> PICK t \in Starts, left \in SUBSET Starts :
            /\ t = req[w].base /\ left = req[w].todo \ {t}
            /\ \A u \in left : Firing(u)
      <3>1. req[w].pc = "commit end"
          BY <1>3 DEF CommitEnd
      <3>2. req[w].base \in Starts /\ req[w].todo \in SUBSET Starts
          BY <1>0, <3>1 DEF RequestOK, Requests
      <3>3. \A u \in req[w].todo : Firing(u)
          BY <1>0, <3>1 DEF ReadsHold
      <3>4. req[w].todo \ {req[w].base} \in SUBSET Starts
          BY <3>2
      <3> QED BY <3>2, <3>3, <3>4
    <2> PICK next \in {"done", "end"} : next = IF left = {} THEN "done" ELSE "end"
        OBVIOUS
    <2>1. req'[w].pc = next /\ req'[w].todo = left
      <3>1. PICK seen, told : req' = [req EXCEPT ![w] = [req[w] EXCEPT !.pc = next, !.todo = left,
                                                                 !.seen = seen, !.outcome = told]]
          BY <1>3 DEF CommitEnd
      <3>2. req'[w] = [req[w] EXCEPT !.pc = next, !.todo = left, !.seen = seen, !.outcome = told]
          BY <1>0, <3>1
      <3> QED BY <1>0, <3>2 DEF Requests
    <2>2. \A u \in left : row'[u] = row[u]
        BY <1>3 DEF CommitEnd, TypeOK
    <2>3. \A u \in req'[w].todo : Firing(u)'
        BY <2>1, <2>2 DEF Firing, Stored
    <2> QED BY <2>1, <2>3 DEF ReadsHold
  <1> QED BY <1>1, <1>2, <1>3

LEMMA ReadsHoldStep ==
    ASSUME OneHandler, TypeOK, RequestsOK, AllReadsHold, [Next]_vars
    PROVE  AllReadsHold'
  <1>1. CASE UNCHANGED vars
      BY <1>1 DEF vars, AllReadsHold, ReadsHold, NoOtherFires, Firing, Stored
  <1>2. ASSUME NEW w \in Workers, (\E d \in Deliveries : Deliver(w, d)) \/ Handle(w) \/ Fail(w)
        PROVE  AllReadsHold'
    <2>1. ReadsHold(w)'
      <3>1. CASE Attach(w) \/ RecordRefired(w) \/ Create(w) \/ Update(w) \/ CommitEnd(w)
          BY <3>1, WritingStep
      <3>2. CASE ~(Attach(w) \/ RecordRefired(w) \/ Create(w) \/ Update(w) \/ CommitEnd(w))
        <4>1. UNCHANGED db
            BY <1>2, <3>2 DEF Handle, Deliver, Fail, FindEpisode, LoadEpisode, Lookup,
                              Conflict, Replace, FlushEnd, Respond, OnlyReads
        <4> QED BY <1>2, <3>2, <4>1, ReadingStep DEF Handle
      <3> QED BY <3>1, <3>2
    <2>2. \A v \in Workers : v = w
        BY DEF OneHandler
    <2> QED BY <2>1, <2>2 DEF AllReadsHold
  <1> QED BY <1>1, <1>2 DEF Next

\* Where the occurrences and incidents involved do not change, nothing is to be shown.
LEMMA QuietStep ==
    ASSUME TypeOK, RequestsOK, AllReadsHold, FiringKeepsOpen, [Next]_vars
    PROVE  FiringKeepsOpen'
  <1>1. CASE row' = row /\ inc' = inc
      BY <1>1 DEF FiringKeepsOpen, Firing, Stored
  <1>2. ASSUME NEW w \in Workers, RequestOK(w), ReadsHold(w), Attach(w)
        PROVE  FiringKeepsOpen'
    <2> PICK d \in Deliveries, i \in Starts :
            /\ d = req[w].job /\ i = row[req[w].base].incident
            /\ req[w].seen = inc[i]
        BY <1>2 DEF Attach, RequestOK, ReadsHold, TypeOK, Stored, Rows
    <2>1. d.start \in Starts
        BY DeliveryTypes
    <2>2. row' = [row EXCEPT ![d.start] = NewRow(i, d)]
        BY <1>2 DEF Attach
    <2>3. /\ inc'[i] = "OPEN"
          /\ \A j \in Starts \ {i} : inc'[j] = inc[j]
        BY <1>2 DEF Attach, TypeOK
    <2>4. /\ row'[d.start].incident = i
          /\ \A s \in Starts \ {d.start} : row'[s] = row[s]
        BY <2>1, <2>2 DEF TypeOK, NewRow
    <2> QED BY <2>1, <2>3, <2>4, FiringInStarts DEF FiringKeepsOpen, Firing, Stored
  <1>3. ASSUME NEW w \in Workers, RequestOK(w), Create(w)
        PROVE  FiringKeepsOpen'
    <2> PICK d \in Deliveries : d = req[w].job
        BY <1>3 DEF Create, RequestOK
    <2>1. d.start \in Starts
        BY DeliveryTypes
    <2>2. row' = [row EXCEPT ![d.start] = NewRow(d.start, d)] /\ inc' = [inc EXCEPT ![d.start] = "OPEN"]
        BY <1>3 DEF Create
    <2>3. /\ inc'[d.start] = "OPEN"
          /\ \A j \in Starts \ {d.start} : inc'[j] = inc[j]
        BY <2>1, <2>2 DEF TypeOK
    <2>4. /\ row'[d.start].incident = d.start
          /\ \A s \in Starts \ {d.start} : row'[s] = row[s]
        BY <2>1, <2>2 DEF TypeOK, NewRow
    <2> QED BY <2>1, <2>3, <2>4, FiringInStarts DEF FiringKeepsOpen, Firing, Stored
  <1>4. ASSUME NEW w \in Workers, RequestOK(w), Update(w)
        PROVE  FiringKeepsOpen'
    <2>1. inc' = inc
        BY <1>4 DEF Update
    <2>2. \A s \in Starts : Firing(s)' => Firing(s) /\ row'[s].incident = row[s].incident
        BY <1>4, RowsKept, RowSteps DEF RowEvolves, Firing, Stored
    <2> QED BY <2>1, <2>2 DEF FiringKeepsOpen
  <1>5. ASSUME NEW w \in Workers, RequestOK(w), ReadsHold(w), CommitEnd(w)
        PROVE  FiringKeepsOpen'
    <2> PICK d \in Deliveries, t \in Starts :
            /\ d = req[w].job /\ t = req[w].base /\ row[t] \in Rows
            /\ req[w].last <=> NoOtherFires(t)
        BY <1>5 DEF CommitEnd, RequestOK, ReadsHold, TypeOK, Stored, Requests, NoOtherFires
    <2> PICK i \in Starts : i = row[t].incident
        BY DEF Rows
    <2>1. row' = [row EXCEPT ![t] = Ended(d, row[t])]
        BY <1>5 DEF CommitEnd, TypeOK
    <2>2. row'[t].status = "RESOLVED" /\ \A s \in Starts \ {t} : row'[s] = row[s]
        BY <2>1, EndedTyped DEF TypeOK
    <2>3. \A s \in Starts : Firing(s)' => s # t /\ Firing(s) /\ row'[s] = row[s]
        BY <2>2 DEF Firing, Stored
    <2>4. CASE inc' = inc
        BY <2>3, <2>4 DEF FiringKeepsOpen
    <2>5. CASE inc' = [inc EXCEPT ![i] = "RESOLVED"] /\ req[w].last
      <3>1. \A s \in Starts : Firing(s)' => row[s].incident # i
          BY <2>3, <2>5 DEF NoOtherFires
      <3>2. \A j \in Starts \ {i} : inc'[j] = inc[j]
          BY <2>5 DEF TypeOK
      <3> QED BY <2>3, <3>1, <3>2, FiringInStarts DEF FiringKeepsOpen
    <2> QED BY <1>5, <2>4, <2>5 DEF CommitEnd
  <1>6. CASE db' # db
    <2> PICK w \in Workers :
            /\ RequestOK(w)
            /\ Attach(w) \/ RecordRefired(w) \/ Create(w) \/ Update(w) \/ CommitEnd(w)
        BY <1>6, Writers
    <2>1. ReadsHold(w)
        BY DEF AllReadsHold
    <2> QED BY <1>1, <1>2, <1>3, <1>4, <1>5, <2>1 DEF RecordRefired
  <1> QED BY <1>1, <1>6 DEF db

\* A step of the single handler changes no occurrence that ended.
LEMMA EndKept ==
    ASSUME TypeOK, RequestsOK, AllReadsHold, [Next]_vars, NEW s \in Starts,
           Stored(s), row[s].status = "RESOLVED"
    PROVE  row'[s] = row[s]
  <1>1. CASE db' = db
      BY <1>1 DEF db
  <1>2. CASE db' # db
    <2> PICK w \in Workers :
            /\ RequestOK(w) /\ ReadsHold(w)
            /\ Attach(w) \/ RecordRefired(w) \/ Create(w) \/ Update(w) \/ CommitEnd(w)
        BY <1>2, Writers DEF AllReadsHold
    <2>1. CASE Attach(w) \/ Create(w)
      <3>1. /\ ~Stored(req[w].job.start)
            /\ \E r : row' = [row EXCEPT ![req[w].job.start] = r]
          BY <2>1 DEF Attach, Create
      <3> QED BY <3>1 DEF TypeOK
    <2>2. CASE RecordRefired(w)
        BY <2>2 DEF RecordRefired
    <2>3. CASE Update(w)
      <3>1. /\ Firing(req[w].job.start)
            /\ \E r : row' = [row EXCEPT ![req[w].job.start] = r]
          BY <2>3 DEF Update, ReadsHold
      <3>2. s # req[w].job.start
          BY <3>1 DEF Firing
      <3> QED BY <3>1, <3>2 DEF TypeOK
    <2>4. CASE CommitEnd(w)
      <3>1. /\ Firing(req[w].base)
            /\ \E r : row' = [row EXCEPT ![req[w].base] = r]
          BY <2>4 DEF CommitEnd, ReadsHold, RequestOK
      <3>2. s # req[w].base
          BY <3>1 DEF Firing
      <3> QED BY <3>1, <3>2 DEF TypeOK
    <2> QED BY <2>1, <2>2, <2>3, <2>4
  <1> QED BY <1>1, <1>2

LEMMA SequentialInit ==
    ASSUME Init PROVE AllReadsHold /\ FiringKeepsOpen
  <1>1. AllReadsHold
      BY DEF Init, Idle, AllReadsHold, ReadsHold
  <1>2. FiringKeepsOpen
      BY DEF Init, FiringKeepsOpen, Firing, Stored
  <1> QED BY <1>1, <1>2

\* With a single handler, what it read holds until it commits.
THEOREM ReadsAlwaysHold ==
    ASSUME OneHandler PROVE Spec => []AllReadsHold
  <1>1. Init => AllReadsHold
      BY SequentialInit
  <1>2. TypeOK /\ RequestsOK /\ AllReadsHold /\ [Next]_vars => AllReadsHold'
      BY ReadsHoldStep
  <1> QED BY <1>1, <1>2, TypeCorrect, PTL DEF Spec

\* With a single handler, whatever is delivered in whatever order and wherever requests
\* die, no incident is RESOLVED while one of its occurrences fires.
THEOREM SequentialQuiet ==
    ASSUME OneHandler PROVE Spec => []ResolvedIncidentIsQuiet
  <1>1. Init => FiringKeepsOpen
      BY SequentialInit
  <1>2. TypeOK /\ RequestsOK /\ AllReadsHold /\ FiringKeepsOpen /\ [Next]_vars
            => FiringKeepsOpen'
      BY QuietStep
  <1>3. TypeOK /\ FiringKeepsOpen => ResolvedIncidentIsQuiet
      BY QuietIsFiringKeepsOpen
  <1> QED BY <1>1, <1>2, <1>3, ReadsAlwaysHold, TypeCorrect, PTL DEF Spec

\* With a single handler, no delivery changes an occurrence that ended.
THEOREM SequentialEndIsFinal ==
    ASSUME OneHandler PROVE Spec => EndIsFinal
  <1>1. TypeOK /\ RequestsOK /\ AllReadsHold /\ [Next]_vars
            => [\A s \in Starts : (Stored(s) /\ row[s].status = "RESOLVED") => row'[s] = row[s]]_vars
      BY EndKept
  <1> QED BY <1>1, ReadsAlwaysHold, TypeCorrect, PTL DEF Spec, EndIsFinal

------------------------------------------------------------------------------
(* Episodes keep a cause, ends are recorded and reported once, and replaced occurrences end. *)

\* What the single handler made true in its earlier steps: the occurrence it attached fires in the
\* incident it joined, the incident still reads as it was loaded, and of the occurrences its own
\* replaces only those it has yet to end may fire.
OwnStepsHold(w) ==
    LET r == req[w] IN
    /\ r.pc = "refired" => Firing(r.job.start) /\ row[r.job.start].incident = r.base
    /\ r.pc = "commit end" \/ (r.pc = "end" /\ r.base # NoTime) => r.seen = inc[row[r.base].incident]
    /\ (r.pc \in {"end", "commit end"} /\ r.job.status = "FIRING") =>
          \A t \in Starts : t < r.job.start /\ Firing(t) => t \in r.todo
    /\ (r.pc = "done" /\ r.job.status = "FIRING") =>
          \A t \in Starts : t < r.job.start => ~Firing(t)

AllOwnStepsHold == \A w \in Workers : OwnStepsHold(w)

\* The steps after which the handler is where nothing is claimed.
LEMMA ElsewhereStep ==
    ASSUME TypeOK, RequestsOK, NEW w \in Workers,
           \/ (\E d \in Deliveries : Deliver(w, d)) \/ Fail(w) \/ Respond(w) \/ FindEpisode(w)
           \/ LoadEpisode(w) \/ RecordRefired(w) \/ Conflict(w)
    PROVE  OwnStepsHold(w)'
  <1>0. req \in [Workers -> Requests] /\ req[w] \in Requests
      BY DEF TypeOK
  <1> USE DEF Goes
  <1>1. req'[w].pc \in {"idle", "continue", "lookup", "load", "attach", "replace"}
    <2>1. ASSUME NEW d \in Deliveries, Deliver(w, d)
          PROVE  req'[w].pc \in {"continue", "lookup"}
      <3>1. PICK pc \in {"continue", "lookup"} : req'[w] = [Idle EXCEPT !.pc = pc, !.job = d]
          BY <1>0, <2>1 DEF Deliver
      <3> QED BY <3>1 DEF Idle
    <2>2. CASE Fail(w) \/ Respond(w)
        BY <1>0, <2>2 DEF Fail, Respond, Idle
    <2>3. CASE FindEpisode(w)
      <3>1. (\E b : Goes(w, [req[w] EXCEPT !.pc = "load", !.base = b]))
            \/ Goes(w, [req[w] EXCEPT !.pc = "lookup"])
          BY <2>3 DEF FindEpisode
      <3> QED BY <1>0, <3>1 DEF Requests
    <2>4. CASE LoadEpisode(w)
      <3>1. \E seen : Goes(w, [req[w] EXCEPT !.pc = "attach", !.seen = seen])
          BY <2>4 DEF LoadEpisode
      <3> QED BY <1>0, <3>1 DEF Requests
    <2>5. CASE RecordRefired(w) \/ Conflict(w)
      <3>1. \E pc \in {"replace", "lookup"} : Goes(w, [req[w] EXCEPT !.pc = pc])
          BY <2>5 DEF RecordRefired, Conflict
      <3> QED BY <1>0, <3>1 DEF Requests
    <2> QED BY <2>1, <2>2, <2>3, <2>4, <2>5
  <1> QED BY <1>1 DEF OwnStepsHold

\* A handler is done with a firing delivery only after it looked for those it replaces.
LEMMA AfterStoredStep ==
    ASSUME TypeOK, NEW w \in Workers,
           \E out : Goes(w, [req[w] EXCEPT !.pc = AfterStored(req[w].job), !.outcome = out])
    PROVE  OwnStepsHold(w)'
  <1>0. req \in [Workers -> Requests] /\ req[w] \in Requests
      BY DEF TypeOK
  <1>1. req'[w].pc = AfterStored(req[w].job) /\ req'[w].job = req[w].job
      BY <1>0 DEF Goes, Requests
  <1>2. CASE req[w].job.status = "FIRING"
    <2>1. req'[w].pc = "replace"
        BY <1>1, <1>2 DEF AfterStored
    <2> QED BY <2>1 DEF OwnStepsHold
  <1>3. CASE req[w].job.status # "FIRING"
    <2>1. req'[w].pc = "done" /\ req'[w].job.status # "FIRING"
        BY <1>1, <1>3 DEF AfterStored
    <2> QED BY <2>1 DEF OwnStepsHold
  <1> QED BY <1>2, <1>3

LEMMA LookupOwn ==
    ASSUME TypeOK, RequestsOK, NEW w \in Workers, Lookup(w)
    PROVE  OwnStepsHold(w)'
  <1>0. req \in [Workers -> Requests] /\ req[w] \in Requests
      BY DEF TypeOK
  <1> USE DEF Goes
  <1>1. CASE Goes(w, [req[w] EXCEPT !.pc = "create"]) \/ Goes(w, [req[w] EXCEPT !.pc = "update"])
    <2>1. req'[w].pc \in {"create", "update"}
        BY <1>0, <1>1 DEF Requests
    <2> QED BY <2>1 DEF OwnStepsHold
  <1>2. CASE Goes(w, [req[w] EXCEPT !.pc = AfterStored(req[w].job)])
    <2>1. [req[w] EXCEPT !.pc = AfterStored(req[w].job)]
             = [req[w] EXCEPT !.pc = AfterStored(req[w].job), !.outcome = req[w].outcome]
        BY <1>0 DEF Requests
    <2> QED BY <1>2, <2>1, AfterStoredStep
  <1>3. CASE /\ req[w].job.status = "RESOLVED"
             /\ \E todo : Goes(w, [req[w] EXCEPT !.pc = "end", !.base = NoTime, !.todo = todo])
    <2>1. req'[w].pc = "end" /\ req'[w].base = NoTime /\ req'[w].job.status # "FIRING"
        BY <1>0, <1>3 DEF Requests
    <2> QED BY <2>1 DEF OwnStepsHold
  <1> QED BY <1>1, <1>2, <1>3 DEF Lookup

LEMMA AttachOwn ==
    ASSUME TypeOK, RequestsOK, NEW w \in Workers, Attach(w)
    PROVE  OwnStepsHold(w)'
  <1>0. req \in [Workers -> Requests] /\ req[w] \in Requests /\ RequestOK(w)
      BY DEF TypeOK, RequestsOK
  <1> PICK d \in Deliveries, i \in Starts :
          d = req[w].job /\ d.status = "FIRING" /\ i = row[req[w].base].incident
      BY <1>0 DEF Attach, RequestOK, TypeOK, Stored, Rows
  <1>1. d.start \in Starts
      BY DeliveryTypes
  <1>2. Firing(d.start)' /\ row'[d.start].incident = i
    <2>1. row' = [row EXCEPT ![d.start] = NewRow(i, d)]
        BY DEF Attach
    <2>2. row'[d.start] = NewRow(i, d) /\ NewRow(i, d) # NoRow
        BY <1>1, <2>1, NewRowTyped, NullAssumption DEF TypeOK
    <2> QED BY <2>2 DEF Firing, Stored, NewRow
  <1>3. req'[w].pc = "refired" /\ req'[w].base = i /\ req'[w].job = d
    <2>1. \E out : Goes(w, [req[w] EXCEPT !.pc = "refired", !.base = i, !.outcome = out])
        BY DEF Attach
    <2> QED BY <1>0, <2>1 DEF Goes, Requests
  <1>4. (Firing(req[w].job.start) /\ row[req[w].job.start].incident = req[w].base)'
      BY <1>2, <1>3 DEF Firing, Stored
  <1> QED BY <1>3, <1>4 DEF OwnStepsHold, Firing, Stored

LEMMA ReplaceOwn ==
    ASSUME TypeOK, NEW w \in Workers, Replace(w)
    PROVE  OwnStepsHold(w)'
  <1>0. req \in [Workers -> Requests] /\ req[w] \in Requests /\ row' = row
      BY DEF TypeOK, Replace, OnlyReads, db
  <1>1. PICK todo : todo = Replaced(req[w].job.start)
      OBVIOUS
  <1>2. /\ req'[w].pc = (IF todo = {} THEN "done" ELSE "end")
        /\ req'[w].todo = todo /\ req'[w].job = req[w].job /\ req'[w].base = NoTime
      BY <1>0, <1>1 DEF Replace, Goes, Requests
  <1>3. \A t \in Starts : t < req'[w].job.start /\ Firing(t)' => t \in req'[w].todo
      BY <1>0, <1>1, <1>2 DEF Replaced, Firing, Stored
  <1>4. CASE todo = {}
    <2>1. req'[w].pc = "done" /\ \A t \in Starts : t < req'[w].job.start => ~Firing(t)'
        BY <1>2, <1>3, <1>4
    <2> QED BY <2>1 DEF OwnStepsHold, Firing, Stored
  <1>5. CASE todo # {}
    <2>1. req'[w].pc = "end" /\ req'[w].base = NoTime
        BY <1>2, <1>5
    <2> QED BY <1>3, <2>1 DEF OwnStepsHold, Firing, Stored
  <1> QED BY <1>4, <1>5

LEMMA FlushEndOwn ==
    ASSUME TypeOK, RequestsOK, NEW w \in Workers, OwnStepsHold(w), FlushEnd(w)
    PROVE  OwnStepsHold(w)'
  <1>0. req \in [Workers -> Requests] /\ req[w] \in Requests /\ row' = row /\ inc' = inc
      BY DEF TypeOK, FlushEnd, OnlyReads, db
  <1> PICK t, last :
          /\ t \in req[w].todo
          /\ Goes(w, [req[w] EXCEPT !.pc = "commit end", !.base = t,
                                    !.seen = LoadedFor(w, t), !.last = last])
      BY DEF FlushEnd
  <1>4. LoadedFor(w, t) = inc[row[t].incident]
      BY DEF FlushEnd, LoadedFor, OwnStepsHold
  <1>1. /\ req'[w].pc = "commit end" /\ req'[w].base = t /\ req'[w].todo = req[w].todo
        /\ req'[w].job = req[w].job /\ req'[w].seen = inc[row[t].incident]
      BY <1>0, <1>4 DEF Goes, Requests
  <1>2. req'[w].seen = inc'[row'[req'[w].base].incident]
      BY <1>0, <1>1
  <1>3. req'[w].job.status = "FIRING" =>
            \A u \in Starts : u < req'[w].job.start /\ Firing(u)' => u \in req'[w].todo
      BY <1>0, <1>1 DEF FlushEnd, OwnStepsHold, Firing, Stored
  <1> QED BY <1>1, <1>2, <1>3 DEF OwnStepsHold, Firing, Stored

\* The end of one occurrence leaves every other one as it was.
LEMMA CommitEndRows ==
    ASSUME TypeOK, RequestsOK, NEW w \in Workers, CommitEnd(w)
    PROVE  \E t \in Starts :
              /\ t = req[w].base
              /\ Stored(t) /\ Stored(t)' /\ ~Firing(t)'
              /\ row[t].incident \in Starts /\ row'[t].incident = row[t].incident
              /\ \A u \in Starts \ {t} : row'[u] = row[u]
  <1> PICK d \in Deliveries, t \in Starts :
          d = req[w].job /\ t = req[w].base /\ Stored(t) /\ row[t] \in Rows
      BY DEF CommitEnd, RequestsOK, RequestOK, TypeOK, Stored, Requests
  <1>1. row' = [row EXCEPT ![t] = Ended(d, row[t])]
      BY DEF CommitEnd, TypeOK
  <1>2. row'[t] = Ended(d, row[t]) /\ \A u \in Starts \ {t} : row'[u] = row[u]
      BY <1>1 DEF TypeOK
  <1>3. /\ Ended(d, row[t]) # NoRow
        /\ Ended(d, row[t]).status = "RESOLVED" /\ Ended(d, row[t]).incident = row[t].incident
      BY EndedTyped, NullAssumption
  <1> QED BY <1>2, <1>3 DEF Firing, Stored, Rows

LEMMA CommitEndOwn ==
    ASSUME TypeOK, RequestsOK, NEW w \in Workers, OwnStepsHold(w), CommitEnd(w)
    PROVE  OwnStepsHold(w)'
  <1>0. req \in [Workers -> Requests] /\ req[w] \in Requests
      BY DEF TypeOK
  <1> PICK t \in Starts :
          /\ t = req[w].base /\ ~Firing(t)'
          /\ row[t].incident \in Starts /\ row'[t].incident = row[t].incident
          /\ \A u \in Starts \ {t} : row'[u] = row[u]
      BY CommitEndRows
  <1> PICK left : left = req[w].todo \ {t}
      OBVIOUS
  <1> PICK next \in {"done", "end"} : next = IF left = {} THEN "done" ELSE "end"
      OBVIOUS
  <1> PICK seen : seen = IF req[w].last /\ req[w].seen # "RESOLVED" THEN "RESOLVED" ELSE req[w].seen
      OBVIOUS
  <1>1. /\ req'[w].pc = next /\ req'[w].todo = left /\ req'[w].job = req[w].job
        /\ req'[w].base = t /\ req'[w].seen = seen
    <2>1. \E out : Goes(w, [req[w] EXCEPT !.pc = next, !.todo = left, !.seen = seen, !.outcome = out])
        BY DEF CommitEnd
    <2> QED BY <1>0, <2>1 DEF Goes, Requests
  <1>6. req'[w].seen = inc'[row'[t].incident]
    <2>1. req[w].seen = inc[row[t].incident]  BY DEF CommitEnd, OwnStepsHold
    <2>2. inc' = IF req[w].last /\ req[w].seen # "RESOLVED"
                 THEN [inc EXCEPT ![row[t].incident] = "RESOLVED"] ELSE inc
        BY DEF CommitEnd
    <2>3. inc'[row[t].incident] = seen  BY <2>1, <2>2 DEF TypeOK
    <2> QED BY <1>1, <2>3
  <1>2. \A u \in Starts : Firing(u)' => Firing(u) /\ u # t
      BY DEF Firing, Stored
  <1>3. req'[w].job.status = "FIRING" =>
            \A u \in Starts : u < req'[w].job.start /\ Firing(u)' => u \in left
      BY <1>1, <1>2 DEF CommitEnd, OwnStepsHold
  <1>4. CASE left = {}
    <2>1. /\ req'[w].pc = "done"
          /\ req'[w].job.status = "FIRING" => \A u \in Starts : u < req'[w].job.start => ~Firing(u)'
        BY <1>1, <1>3, <1>4
    <2> QED BY <2>1 DEF OwnStepsHold, Firing, Stored
  <1>5. CASE left # {}
    <2>1. req'[w].pc = "end"
        BY <1>1, <1>5
    <2> QED BY <1>1, <1>3, <1>6, <2>1 DEF OwnStepsHold, Firing, Stored
  <1> QED BY <1>4, <1>5

LEMMA OwnStepsStep ==
    ASSUME OneHandler, TypeOK, RequestsOK, AllOwnStepsHold, [Next]_vars
    PROVE  AllOwnStepsHold'
  <1>1. CASE UNCHANGED vars
      BY <1>1 DEF vars, AllOwnStepsHold, OwnStepsHold, Firing, Stored
  <1>2. ASSUME NEW w \in Workers, (\E d \in Deliveries : Deliver(w, d)) \/ Handle(w) \/ Fail(w)
        PROVE  AllOwnStepsHold'
    <2>1. OwnStepsHold(w)
        BY DEF AllOwnStepsHold
    <2>2. CASE Create(w) \/ Update(w)
      <3>1. CASE Create(w)
        <4>1. \E out : Goes(w, [req[w] EXCEPT !.pc = AfterStored(req[w].job), !.outcome = out])
            BY <3>1 DEF Create
        <4> QED BY <4>1, AfterStoredStep, OneHandler DEF OneHandler, AllOwnStepsHold
      <3>2. CASE Update(w)
        <4>1. [req[w] EXCEPT !.pc = AfterStored(req[w].job)]
                 = [req[w] EXCEPT !.pc = AfterStored(req[w].job), !.outcome = req[w].outcome]
            BY DEF TypeOK, Requests
        <4>2. Goes(w, [req[w] EXCEPT !.pc = AfterStored(req[w].job)])
            BY <3>2 DEF Update
        <4>3. \E out : Goes(w, [req[w] EXCEPT !.pc = AfterStored(req[w].job), !.outcome = out])
            BY <4>1, <4>2
        <4> QED BY <4>3, AfterStoredStep, OneHandler DEF OneHandler, AllOwnStepsHold
      <3> QED BY <2>2, <3>1, <3>2
    <2>3. CASE ~(Create(w) \/ Update(w))
      <3>1. OwnStepsHold(w)'
          BY <1>2, <2>1, <2>3, ElsewhereStep, LookupOwn, AttachOwn, ReplaceOwn, FlushEndOwn, CommitEndOwn
             DEF Handle
      <3> QED BY <3>1 DEF OneHandler, AllOwnStepsHold
    <2> QED BY <2>2, <2>3
  <1> QED BY <1>1, <1>2 DEF Next

LEMMA OwnStepsInit ==
    ASSUME Init PROVE AllOwnStepsHold
  <1>1. \A w \in Workers : req[w].pc = "idle"
      BY DEF Init, Idle
  <1> QED BY <1>1 DEF AllOwnStepsHold, OwnStepsHold

\* With a single handler, a firing delivery that was handled leaves no earlier occurrence firing.
THEOREM SequentialReplacement ==
    ASSUME OneHandler PROVE Spec => []ReplacedOccurrencesEnd
  <1>1. Init => AllOwnStepsHold
      BY OwnStepsInit
  <1>2. TypeOK /\ RequestsOK /\ AllOwnStepsHold /\ [Next]_vars => AllOwnStepsHold'
      BY OwnStepsStep
  <1>3. AllOwnStepsHold => ReplacedOccurrencesEnd
      BY DEF AllOwnStepsHold, OwnStepsHold, ReplacedOccurrencesEnd
  <1> QED BY <1>1, <1>2, <1>3, TypeCorrect, PTL DEF Spec

\* An incident nobody created has no events.
NothingBeforeCreation == \A i \in Starts : inc[i] = NoIncident => timeline[i] = <<>>

\* The end of an occurrence is told by one event, and only once it ended.
EndsTold ==
    \A i, s \in Starts : \A n \in DOMAIN timeline[i] :
        timeline[i][n] = [type |-> "ALERT_RESOLVED", start |-> s] =>
            /\ Stored(s) /\ ~Firing(s)
            /\ \A m \in DOMAIN timeline[i] : timeline[i][m] = timeline[i][n] => m = n

\* An event is recorded of an occurrence of the incident, and an end of one that just ended.
Recorder(i, type, s) ==
    /\ Record(i, type, s)
    /\ Stored(s)' /\ row'[s].incident = i
    /\ type = "ALERT_RESOLVED" => Firing(s) /\ ~Firing(s)'

LEMMA TimelineSteps ==
    ASSUME TypeOK, RequestsOK, AllReadsHold, AllOwnStepsHold, [Next]_vars, timeline' # timeline
    PROVE  \E i, s \in Starts, type \in EventTypes : Recorder(i, type, s)
  <1> PICK w \in Workers :
          /\ RequestOK(w) /\ ReadsHold(w) /\ OwnStepsHold(w)
          /\ Attach(w) \/ RecordRefired(w) \/ Create(w) \/ Update(w) \/ CommitEnd(w)
      BY Writers DEF db, AllReadsHold, AllOwnStepsHold
  <1>0. /\ \A s \in Starts : Stored(s) => row[s].incident \in Starts
        /\ req[w].job \in Deliveries => req[w].job.start \in Starts
      BY DeliveryTypes DEF TypeOK, Stored, Rows
  <1>1. CASE RecordRefired(w)
    <2> PICK i, s \in Starts :
            i = req[w].base /\ s = req[w].job.start /\ Firing(s) /\ row[s].incident = i
        BY <1>0, <1>1 DEF RecordRefired, RequestOK, OwnStepsHold
    <2>1. Record(i, "ALERT_REFIRED", s) /\ row' = row
        BY <1>1 DEF RecordRefired
    <2>2. Recorder(i, "ALERT_REFIRED", s)
        BY <2>1 DEF Recorder, Firing, Stored
    <2> QED BY <2>2 DEF EventTypes
  <1>2. CASE Create(w)
    <2> PICK d \in Deliveries, s \in Starts : d = req[w].job /\ s = d.start
        BY <1>0, <1>2 DEF Create, RequestOK
    <2>1. Record(s, "INCIDENT_CREATED", s) /\ row' = [row EXCEPT ![s] = NewRow(s, d)]
        BY <1>2 DEF Create
    <2>2. Stored(s)' /\ row'[s].incident = s
        BY <2>1, NewRowTyped, NullAssumption DEF TypeOK, Stored, NewRow
    <2>3. Recorder(s, "INCIDENT_CREATED", s)
        BY <2>1, <2>2 DEF Recorder
    <2> QED BY <2>3 DEF EventTypes
  <1>3. CASE Update(w)
    <2> PICK i, s \in Starts : s = req[w].job.start /\ Stored(s) /\ i = row[s].incident
        BY <1>0, <1>3 DEF Update, RequestOK
    <2>1. Record(i, "ALERT_UPDATED", s)
        BY <1>3 DEF Update
    <2>2. Stored(s)' /\ row'[s].incident = i
        BY <1>3, RowsKept
    <2>3. Recorder(i, "ALERT_UPDATED", s)
        BY <2>1, <2>2 DEF Recorder
    <2> QED BY <2>3 DEF EventTypes
  <1>4. CASE CommitEnd(w)
    <2> PICK t \in Starts :
            /\ t = req[w].base
            /\ Stored(t) /\ Stored(t)' /\ ~Firing(t)'
            /\ row[t].incident \in Starts /\ row'[t].incident = row[t].incident
        BY <1>4, CommitEndRows
    <2> PICK i \in Starts : i = row[t].incident
        OBVIOUS
    <2>1. Record(i, "ALERT_RESOLVED", t)
        BY <1>4 DEF CommitEnd
    <2>2. Firing(t)
        BY <1>4 DEF CommitEnd, ReadsHold, RequestOK
    <2>3. Recorder(i, "ALERT_RESOLVED", t)
        BY <2>1, <2>2 DEF Recorder
    <2> QED BY <2>3 DEF EventTypes
  <1> QED BY <1>1, <1>2, <1>3, <1>4 DEF Attach

\* What a record adds: one event, at the end of its incident's timeline.
LEMMA RecordAdds ==
    ASSUME TypeOK, NEW i \in Starts, NEW s, NEW type, Record(i, type, s)
    PROVE  /\ \A j \in Starts \ {i} : timeline'[j] = timeline[j]
           /\ timeline'[i] # <<>>
           /\ Len(timeline[i]) \in Nat /\ Len(timeline'[i]) = Len(timeline[i]) + 1
           /\ \A n \in DOMAIN timeline'[i] :
                 \/ n \in DOMAIN timeline[i] /\ timeline'[i][n] = timeline[i][n]
                 \/ /\ n = Len(timeline[i]) + 1
                    /\ timeline'[i][n] = [type |-> type, start |-> s]
  <1> PICK e : e = [type |-> type, start |-> s]
      OBVIOUS
  <1>1. timeline[i] \in Seq(Events) /\ timeline' = [timeline EXCEPT ![i] = Append(timeline[i], e)]
      BY DEF TypeOK, Record
  <1>2. timeline'[i] = Append(timeline[i], e) /\ \A j \in Starts \ {i} : timeline'[j] = timeline[j]
      BY <1>1 DEF TypeOK
  <1> QED BY <1>1, <1>2

LEMMA TimelineKept ==
    ASSUME TypeOK, RequestsOK, EpisodeHasFounder, AllReadsHold, AllOwnStepsHold,
           NothingBeforeCreation, EndsTold, [Next]_vars
    PROVE  NothingBeforeCreation' /\ EndsTold'
  <1>0. EpisodeHasFounder'
      BY FounderStep
  <1>1. ASSUME NEW s \in Starts
        PROVE  /\ Stored(s) => Stored(s)' /\ row'[s].incident = row[s].incident
               /\ Stored(s) /\ ~Firing(s) => ~Firing(s)'
    <2>1. Stored(s) => Stored(s)' /\ RowEvolves(s)
        BY StoredForGood, RowSteps
    <2>2. Stored(s) => row[s].status \in AlertStatus
        BY DEF TypeOK, Stored, Rows
    <2>3. Stored(s) /\ ~Firing(s) => row[s].status = "RESOLVED"
        BY <2>2 DEF Firing, AlertStatus
    <2>4. Stored(s) /\ ~Firing(s) => row'[s] = row[s]
        BY <2>3, EndKept
    <2> QED BY <2>1, <2>4 DEF RowEvolves, Firing, Stored
  <1>2. \A i \in Starts : inc'[i] = NoIncident => inc[i] = NoIncident
      BY <1>0, <1>1 DEF EpisodeHasFounder, HasFounder
  <1>3. CASE timeline' = timeline
    <2>1. NothingBeforeCreation'
        BY <1>2, <1>3 DEF NothingBeforeCreation
    <2>2. EndsTold'
        BY <1>1, <1>3 DEF EndsTold
    <2> QED BY <2>1, <2>2
  <1>4. CASE timeline' # timeline
    <2> PICK i \in Starts, s \in Starts, type \in EventTypes : Recorder(i, type, s)
        BY <1>4, TimelineSteps
    <2>1. Record(i, type, s) /\ (type = "ALERT_RESOLVED" => Firing(s) /\ ~Firing(s)') /\ Stored(s)'
        BY DEF Recorder
    <2>2. NothingBeforeCreation'
      <3>1. inc'[i] # NoIncident
          BY <1>0 DEF Recorder, EpisodeHasFounder, HasFounder
      <3>2. \A j \in Starts \ {i} : timeline'[j] = timeline[j]
          BY <2>1, RecordAdds
      <3> QED BY <1>2, <3>1, <3>2 DEF NothingBeforeCreation
    <2>3. ASSUME NEW j \in Starts, NEW u \in Starts, NEW n \in DOMAIN timeline'[j],
                 timeline'[j][n] = [type |-> "ALERT_RESOLVED", start |-> u]
          PROVE  /\ Stored(u)' /\ ~Firing(u)'
                 /\ \A m \in DOMAIN timeline'[j] : timeline'[j][m] = timeline'[j][n] => m = n
      <3> DEFINE Old(m) == m \in DOMAIN timeline[j] /\ timeline'[j][m] = timeline[j][m]
                 New(m) == /\ j = i /\ m = Len(timeline[i]) + 1
                           /\ timeline'[j][m] = [type |-> type, start |-> s]
      <3>1. \A m \in DOMAIN timeline'[j] : Old(m) \/ New(m)
        <4>1. CASE j = i
            BY <2>1, <4>1, RecordAdds
        <4>2. CASE j # i
          <5>1. timeline'[j] = timeline[j]
              BY <2>1, <4>2, RecordAdds
          <5> QED BY <5>1
        <4> QED BY <4>1, <4>2
      <3>2. ASSUME NEW m \in DOMAIN timeline'[j], Old(m), timeline'[j][m] = timeline'[j][n]
            PROVE  /\ Stored(u) /\ ~Firing(u)
                   /\ \A k \in DOMAIN timeline[j] : timeline[j][k] = timeline[j][m] => k = m
          BY <2>3, <3>2 DEF EndsTold
      <3>3. ASSUME NEW m \in DOMAIN timeline'[j], New(m), timeline'[j][m] = timeline'[j][n]
            PROVE  Firing(u) /\ ~Firing(u)' /\ Stored(u)' /\ m = Len(timeline[i]) + 1
        <4>1. [type |-> type, start |-> s] = [type |-> "ALERT_RESOLVED", start |-> u]
            BY <2>3, <3>3
        <4>2. type = "ALERT_RESOLVED" /\ s = u
            BY <4>1
        <4> QED BY <2>1, <3>3, <4>2
      <3>4. CASE Old(n)
        <4>1. Stored(u) /\ ~Firing(u)
            BY <3>2, <3>4
        <4>2. \A m \in DOMAIN timeline'[j] : timeline'[j][m] = timeline'[j][n] => Old(m)
            BY <3>1, <3>3, <4>1
        <4>3. \A m \in DOMAIN timeline'[j] : timeline'[j][m] = timeline'[j][n] => m = n
            BY <3>2, <3>4, <4>2
        <4> QED BY <1>1, <4>1, <4>3
      <3>5. CASE New(n)
        <4>1. Firing(u) /\ ~Firing(u)' /\ Stored(u)'
            BY <3>3, <3>5
        <4>2. \A m \in DOMAIN timeline'[j] : timeline'[j][m] = timeline'[j][n] => New(m)
            BY <3>1, <3>2, <4>1
        <4>3. \A m \in DOMAIN timeline'[j] : timeline'[j][m] = timeline'[j][n] => m = n
            BY <3>3, <3>5, <4>2
        <4> QED BY <4>1, <4>3
      <3> QED BY <3>1, <3>4, <3>5
    <2>4. EndsTold'
        BY <2>3 DEF EndsTold
    <2> QED BY <2>2, <2>4
  <1> QED BY <1>3, <1>4

\* An occurrence that fires in incident i.
Cause(i, s) == Firing(s) /\ row[s].incident = i

LEMMA CausesOf ==
    OpenIncidentHasCause <=>
        \A i \in Starts : inc[i] = "OPEN" => (\E s \in Starts : Cause(i, s)) \/ Len(timeline[i]) = 1
  BY DEF OpenIncidentHasCause, Members, Cause, Firing

\* An incident that was open already keeps a cause that no step ends, or its only event.
LEMMA OpenKept ==
    ASSUME TypeOK, OpenIncidentHasCause, NEW i \in Starts, inc[i] = "OPEN",
           \A s \in Starts : Cause(i, s) => Cause(i, s)', timeline'[i] = timeline[i]
    PROVE  (\E s \in Starts : Cause(i, s)') \/ Len(timeline'[i]) = 1
  BY CausesOf

LEMMA OpenStep ==
    ASSUME TypeOK, RequestsOK, EpisodeHasFounder, AllReadsHold, AllOwnStepsHold,
           NothingBeforeCreation, OpenIncidentHasCause, [Next]_vars,
           NEW j \in Starts, inc'[j] = "OPEN"
    PROVE  (\E s \in Starts : Cause(j, s)') \/ Len(timeline'[j]) = 1
  <1> DEFINE Goal == (\E s \in Starts : Cause(j, s)') \/ Len(timeline'[j]) = 1
  <1>1. CASE db' = db
    <2>1. row' = row /\ inc' = inc /\ timeline' = timeline
        BY <1>1 DEF db
    <2>2. \A s \in Starts : Cause(j, s) => Cause(j, s)'
        BY <2>1 DEF Cause, Firing, Stored
    <2> QED BY <2>1, <2>2, OpenKept
  <1>2. ASSUME NEW w \in Workers, RequestOK(w), Attach(w)
        PROVE  Goal
    <2> PICK d \in Deliveries, i \in Starts :
            d = req[w].job /\ d.status = "FIRING" /\ i = row[req[w].base].incident
        BY <1>2 DEF Attach, RequestOK, TypeOK, Stored, Rows
    <2> PICK s \in Starts : s = d.start
        BY DeliveryTypes
    <2>1. /\ ~Stored(s) /\ row' = [row EXCEPT ![s] = NewRow(i, d)] /\ timeline' = timeline
          /\ inc' = inc \/ inc' = [inc EXCEPT ![i] = "OPEN"]
        BY <1>2 DEF Attach
    <2>2. row'[s] = NewRow(i, d) /\ NewRow(i, d) # NoRow
        BY <2>1, NewRowTyped, NullAssumption DEF TypeOK
    <2>3. CASE j = i
      <3>1. Cause(j, s)'
          BY <2>2, <2>3 DEF Cause, Firing, Stored, NewRow
      <3> QED BY <3>1
    <2>4. CASE j # i
      <3>1. inc[j] = "OPEN" /\ timeline'[j] = timeline[j]
          BY <2>1, <2>4 DEF TypeOK
      <3>2. \A u \in Starts : Cause(j, u) => Cause(j, u)'
          BY <2>1 DEF TypeOK, Cause, Firing, Stored
      <3> QED BY <3>1, <3>2, OpenKept
    <2> QED BY <2>3, <2>4
  <1>3. ASSUME NEW w \in Workers, RequestOK(w), Create(w)
        PROVE  Goal
    <2> PICK d \in Deliveries, s \in Starts : d = req[w].job /\ s = d.start
        BY <1>3, DeliveryTypes DEF Create, RequestOK
    <2>1. /\ ~Stored(s) /\ row' = [row EXCEPT ![s] = NewRow(s, d)]
          /\ inc' = [inc EXCEPT ![s] = "OPEN"] /\ Record(s, "INCIDENT_CREATED", s)
        BY <1>3 DEF Create
    <2>2. CASE j = s
      <3>1. timeline[j] = <<>>
          BY <2>1, <2>2 DEF EpisodeHasFounder, HasFounder, NothingBeforeCreation
      <3>2. Len(timeline'[j]) = Len(timeline[j]) + 1
          BY <2>1, <2>2, RecordAdds
      <3> QED BY <3>1, <3>2
    <2>3. CASE j # s
      <3>1. inc[j] = "OPEN"
          BY <2>1, <2>3 DEF TypeOK
      <3>2. timeline'[j] = timeline[j]
          BY <2>1, <2>3, RecordAdds
      <3>3. \A u \in Starts : Cause(j, u) => Cause(j, u)'
          BY <2>1 DEF TypeOK, Cause, Firing, Stored
      <3> QED BY <3>1, <3>2, <3>3, OpenKept
    <2> QED BY <2>2, <2>3
  <1>4. ASSUME NEW w \in Workers, RequestOK(w), OwnStepsHold(w), RecordRefired(w)
        PROVE  Goal
    <2> PICK i, s \in Starts : i = req[w].base /\ s = req[w].job.start /\ Cause(i, s)
        BY <1>4, DeliveryTypes DEF RecordRefired, RequestOK, OwnStepsHold, Cause
    <2>1. Record(i, "ALERT_REFIRED", s) /\ row' = row /\ inc' = inc
        BY <1>4 DEF RecordRefired
    <2>2. \A u \in Starts : Cause(j, u) => Cause(j, u)'
        BY <2>1 DEF Cause, Firing, Stored
    <2>3. CASE j = i
        BY <2>2, <2>3
    <2>4. CASE j # i
      <3>1. timeline'[j] = timeline[j]
          BY <2>1, <2>4, RecordAdds
      <3> QED BY <2>1, <2>2, <3>1, OpenKept
    <2> QED BY <2>3, <2>4
  <1>5. ASSUME NEW w \in Workers, RequestOK(w), ReadsHold(w), Update(w)
        PROVE  Goal
    <2> PICK d \in Deliveries, i, s \in Starts : d = req[w].job /\ s = d.start /\ Cause(i, s)
      <3>1. PICK d \in Deliveries, s \in Starts : d = req[w].job /\ s = d.start /\ Firing(s)
          BY <1>5, DeliveryTypes DEF Update, RequestOK, ReadsHold
      <3>2. row[s].incident \in Starts
          BY <3>1, FiringInStarts
      <3> QED BY <3>1, <3>2 DEF Cause
    <2>1. /\ Record(i, "ALERT_UPDATED", s) /\ inc' = inc
          /\ row' = [row EXCEPT ![s] = [row[s] EXCEPT !.note = d.note]]
        BY <1>5 DEF Update, Cause, TypeOK
    <2>2. \A u \in Starts : Cause(j, u) => Cause(j, u)'
      <3>1. \A u \in Starts : Stored(u) => Stored(u)' /\ row'[u].incident = row[u].incident
          BY <1>5, RowsKept
      <3>2. \A u \in Starts \ {s} : row'[u] = row[u]
          BY <2>1 DEF TypeOK
      <3>3. row'[s].status = row[s].status
          BY <2>1 DEF TypeOK, Cause, Firing, Stored, Rows
      <3> QED BY <3>1, <3>2, <3>3 DEF Cause, Firing
    <2>3. CASE j = i
        BY <2>2, <2>3
    <2>4. CASE j # i
      <3>1. timeline'[j] = timeline[j]
          BY <2>1, <2>4, RecordAdds
      <3> QED BY <2>1, <2>2, <3>1, OpenKept
    <2> QED BY <2>3, <2>4
  <1>6. ASSUME NEW w \in Workers, RequestOK(w), ReadsHold(w), OwnStepsHold(w), CommitEnd(w)
        PROVE  Goal
    <2> PICK t \in Starts :
            /\ t = req[w].base /\ Stored(t) /\ row[t].incident \in Starts
            /\ \A u \in Starts \ {t} : row'[u] = row[u]
        BY <1>6, CommitEndRows
    <2> PICK i \in Starts : i = row[t].incident
        OBVIOUS
    <2>1. /\ Record(i, "ALERT_RESOLVED", t)
          /\ inc' = IF req[w].last /\ req[w].seen # "RESOLVED" THEN [inc EXCEPT ![i] = "RESOLVED"] ELSE inc
          /\ req[w].seen = inc[i] /\ (req[w].last <=> NoOtherFires(t))
        BY <1>6 DEF CommitEnd, ReadsHold, OwnStepsHold, NoOtherFires
    <2>2. \A u \in Starts \ {t} : Cause(j, u) => Cause(j, u)'
        BY DEF Cause, Firing, Stored
    <2>3. CASE j = i
      <3>1. ~NoOtherFires(t)
        <4>1. inc[i] # "RESOLVED"
            BY <2>1, <2>3 DEF TypeOK
        <4>2. inc'[i] # "RESOLVED"
            BY <2>3
        <4> QED BY <2>1, <4>1, <4>2 DEF TypeOK
      <3>2. \E u \in Starts \ {t} : Cause(j, u)
          BY <2>3, <3>1 DEF NoOtherFires, Cause
      <3> QED BY <2>2, <3>2
    <2>4. CASE j # i
      <3>1. inc[j] = "OPEN"
          BY <2>1, <2>4 DEF TypeOK
      <3>2. timeline'[j] = timeline[j]
          BY <2>1, <2>4, RecordAdds
      <3>3. \A u \in Starts : Cause(j, u) => Cause(j, u)'
          BY <2>2, <2>4 DEF Cause
      <3> QED BY <3>1, <3>2, <3>3, OpenKept
    <2> QED BY <2>3, <2>4
  <1>7. CASE db' # db
    <2> PICK w \in Workers :
            /\ RequestOK(w)
            /\ Attach(w) \/ RecordRefired(w) \/ Create(w) \/ Update(w) \/ CommitEnd(w)
        BY <1>7, Writers
    <2>1. ReadsHold(w) /\ OwnStepsHold(w)
        BY DEF AllReadsHold, AllOwnStepsHold
    <2> QED BY <1>2, <1>3, <1>4, <1>5, <1>6, <2>1
  <1> QED BY <1>1, <1>7

\* With a single handler the timeline tells what happened: nothing of an incident before its
\* creation, and one end of an occurrence that ended.
THEOREM SequentialEvents ==
    ASSUME OneHandler PROVE Spec => [](AllOwnStepsHold /\ NothingBeforeCreation /\ EndsTold)
  <1>1. Init => AllOwnStepsHold /\ NothingBeforeCreation /\ EndsTold
    <2> SUFFICES ASSUME Init PROVE NothingBeforeCreation /\ EndsTold
        BY OwnStepsInit
    <2>1. \A i \in Starts : timeline[i] = <<>> /\ DOMAIN timeline[i] = {}
        BY DEF Init
    <2> QED BY <2>1 DEF NothingBeforeCreation, EndsTold
  <1>2. TypeOK /\ RequestsOK /\ EpisodeHasFounder /\ AllReadsHold
            /\ (AllOwnStepsHold /\ NothingBeforeCreation /\ EndsTold) /\ [Next]_vars
            => (AllOwnStepsHold /\ NothingBeforeCreation /\ EndsTold)'
      BY OwnStepsStep, TimelineKept
  <1> QED BY <1>1, <1>2, TypeCorrect, Founders, ReadsAlwaysHold, PTL DEF Spec

\* With a single handler no resolution forgets an incident: while it reads OPEN an occurrence of
\* it fires, or all that ever happened to it is its creation.
THEOREM SequentialCause ==
    ASSUME OneHandler PROVE Spec => []OpenIncidentHasCause
  <1>1. Init => OpenIncidentHasCause
      BY DEF Init, OpenIncidentHasCause, NoIncident
  <1>2. TypeOK /\ RequestsOK /\ EpisodeHasFounder /\ AllReadsHold
            /\ (AllOwnStepsHold /\ NothingBeforeCreation /\ EndsTold)
            /\ OpenIncidentHasCause /\ [Next]_vars => OpenIncidentHasCause'
    <2> SUFFICES ASSUME TypeOK, RequestsOK, EpisodeHasFounder, AllReadsHold, AllOwnStepsHold,
                        NothingBeforeCreation, OpenIncidentHasCause, [Next]_vars
                 PROVE  OpenIncidentHasCause'
        OBVIOUS
    <2>1. \A j \in Starts : inc'[j] = "OPEN" =>
              (\E s \in Starts : Cause(j, s)') \/ Len(timeline'[j]) = 1
        BY OpenStep
    <2> QED BY <2>1 DEF OpenIncidentHasCause, Members, Cause, Firing
  <1> QED BY <1>1, <1>2, TypeCorrect, Founders, ReadsAlwaysHold, SequentialEvents, PTL DEF Spec

------------------------------------------------------------------------------
(* The end of an occurrence counts once. *)

\* No more RESOLVED diagnoses are started than occurrences of the incident ended, with one to
\* spare for each that a handler still owes.
ResolvedOnce(i) ==
    /\ started[i]["RESOLVED"] <= Cardinality(EndedMembers(i))
    /\ \A w \in Workers : Owes(w, i, "RESOLVED") => started[i]["RESOLVED"] + 1 <= Cardinality(EndedMembers(i))

ResolutionsOK == \A i \in Starts : ResolvedOnce(i)

\* A resolution is owed by the handler whose commit ended an occurrence of the incident.
LEMMA ResolvedOwed ==
    ASSUME TypeOK, RequestsOK, AllReadsHold, NEW w \in Workers,
           (\E d \in Deliveries : Deliver(w, d)) \/ Handle(w) \/ Fail(w),
           NEW i \in Starts, Owes(w, i, "RESOLVED")'
    PROVE  \/ Owes(w, i, "RESOLVED") /\ ~Respond(w)
           \/ /\ CommitEnd(w)
              /\ \E t \in Starts : Firing(t) /\ ~Firing(t)' /\ t \in Members(i)'
  <1>0. req \in [Workers -> Requests] /\ req[w] \in Requests
      BY DEF TypeOK
  <1>1. CASE Attach(w) \/ Create(w)
    <2>1. CASE Attach(w)
      <3>1. \E pc, b, j : Goes(w, [req[w] EXCEPT !.pc = pc, !.base = b, !.outcome = {<<j, "ALERT_REFIRED">>}])
          BY <2>1 DEF Attach
      <3>2. \E j : req'[w].outcome = {<<j, "ALERT_REFIRED">>}
          BY <1>0, <3>1 DEF Goes, Requests
      <3> QED BY <3>2 DEF Owes
    <2>2. CASE Create(w)
      <3>1. \E pc, j : Goes(w, [req[w] EXCEPT !.pc = pc, !.outcome = {<<j, "INITIAL">>}])
          BY <2>2 DEF Create
      <3>2. \E j : req'[w].outcome = {<<j, "INITIAL">>}
          BY <1>0, <3>1 DEF Goes, Requests
      <3> QED BY <3>2 DEF Owes
    <2> QED BY <1>1, <2>1, <2>2
  <1>2. CASE Respond(w)
    <2>1. req'[w].outcome = {}
        BY <1>0, <1>2 DEF Respond, Goes, Idle
    <2> QED BY <2>1 DEF Owes
  <1>3. CASE CommitEnd(w)
    <2>0. ~Respond(w)
        BY <1>3 DEF CommitEnd, Respond
    <2> PICK t \in Starts :
            /\ t = req[w].base /\ Stored(t) /\ Stored(t)' /\ ~Firing(t)'
            /\ row[t].incident \in Starts /\ row'[t].incident = row[t].incident
        BY <1>3, CommitEndRows
    <2>1. Firing(t)
        BY <1>3 DEF CommitEnd, AllReadsHold, ReadsHold, RequestsOK, RequestOK
    <2>2. PICK pc, left, seen, out :
             /\ Goes(w, [req[w] EXCEPT !.pc = pc, !.todo = left, !.seen = seen, !.outcome = out])
             /\ out \subseteq req[w].outcome \cup {<<row[t].incident, "RESOLVED">>}
        BY <1>3 DEF CommitEnd
    <2>3. req'[w].outcome = out
        BY <1>0, <2>2 DEF Goes, Requests
    <2>4. Owes(w, i, "RESOLVED") \/ row[t].incident = i
        BY <2>2, <2>3 DEF Owes
    <2>5. row[t].incident = i => t \in Members(i)'
        BY DEF Members
    <2> QED BY <1>3, <2>0, <2>1, <2>4, <2>5
  <1>4. CASE ~(Attach(w) \/ Create(w) \/ Respond(w) \/ CommitEnd(w))
    <2>1. \/ (\E d \in Deliveries : Deliver(w, d)) \/ Fail(w)
          \/ FindEpisode(w) \/ LoadEpisode(w) \/ RecordRefired(w) \/ Lookup(w) \/ Conflict(w)
          \/ Update(w) \/ Replace(w) \/ FlushEnd(w)
        BY <1>4 DEF Handle
    <2> QED BY <1>4, <2>1, OwesAsBefore
  <1> QED BY <1>1, <1>2, <1>3, <1>4

\* An occurrence that ended stays ended, in its incident.
LEMMA EndedStay ==
    ASSUME TypeOK, RequestsOK, AllReadsHold, [Next]_vars, NEW i \in Starts
    PROVE  EndedMembers(i) \subseteq EndedMembers(i)'
  <1>1. ASSUME NEW s \in EndedMembers(i)
        PROVE  s \in EndedMembers(i)'
    <2>1. s \in Starts /\ Stored(s) /\ ~Firing(s) /\ s \in Members(i)
        BY DEF EndedMembers, Members
    <2>2. row[s].status = "RESOLVED"
        BY <2>1 DEF TypeOK, Stored, Firing, Rows, AlertStatus
    <2>3. row'[s] = row[s]
        BY <2>1, <2>2, EndKept
    <2> QED BY <2>1, <2>3 DEF EndedMembers, Members, Firing, Stored
  <1> QED BY <1>1

LEMMA ResolutionsStep ==
    ASSUME OneHandler, TypeOK, RequestsOK, AllReadsHold, IsFiniteSet(AllStored), ResolutionsOK, [Next]_vars
    PROVE  ResolutionsOK'
  <1> SUFFICES ASSUME NEW i \in Starts PROVE ResolvedOnce(i)'
      BY DEF ResolutionsOK
  <1>0. /\ ResolvedOnce(i) /\ started[i]["RESOLVED"] \in Nat
        /\ EndedMembers(i) \subseteq EndedMembers(i)'
      BY EndedStay DEF ResolutionsOK, TypeOK, Triggers
  <1>1. IsFiniteSet(EndedMembers(i)')
    <2>1. IsFiniteSet(Members(i)') /\ EndedMembers(i)' \subseteq Members(i)'
        BY StoredStayFinite DEF EndedMembers
    <2> QED BY <2>1, FS_Subset
  <1> PICK A : A = EndedMembers(i)
      OBVIOUS
  <1> PICK B : B = EndedMembers(i)'
      OBVIOUS
  <1>2. A \subseteq B /\ IsFiniteSet(B) /\ started[i]["RESOLVED"] <= Cardinality(A)
      BY <1>0, <1>1 DEF ResolvedOnce
  <1>3. started[i]["RESOLVED"] <= Cardinality(B)
      BY <1>0, <1>2, CountsInMore
  <1>4. ASSUME NEW w \in Workers, Owes(w, i, "RESOLVED")
        PROVE  started[i]["RESOLVED"] + 1 <= Cardinality(B)
    <2>1. started[i]["RESOLVED"] + 1 <= Cardinality(A) /\ started[i]["RESOLVED"] + 1 \in Nat
        BY <1>0, <1>4 DEF ResolvedOnce
    <2> QED BY <1>2, <2>1, CountsInMore
  <1>5. CASE UNCHANGED vars
    <2>1. started' = started /\ \A w \in Workers : Owes(w, i, "RESOLVED")' => Owes(w, i, "RESOLVED")
        BY <1>5 DEF vars, Owes
    <2> QED BY <1>3, <1>4, <2>1 DEF ResolvedOnce
  <1>6. ASSUME NEW w \in Workers, (\E d \in Deliveries : Deliver(w, d)) \/ Handle(w) \/ Fail(w)
        PROVE  ResolvedOnce(i)'
    <2>1. \A v \in Workers : v = w
        BY DEF OneHandler
    <2>2. CASE Respond(w)
      <3>1. \A v \in Workers : ~Owes(v, i, "RESOLVED")'
          BY <2>1, <2>2 DEF Owes, Respond, Goes, Idle, TypeOK
      <3>2. started'[i]["RESOLVED"] = started[i]["RESOLVED"] + (IF Owes(w, i, "RESOLVED") THEN 1 ELSE 0)
          BY <2>2 DEF Respond, Owes, Triggers
      <3>3. started'[i]["RESOLVED"] <= Cardinality(B)
          BY <1>0, <1>3, <1>4, <3>2
      <3> QED BY <3>1, <3>3 DEF ResolvedOnce
    <2>3. CASE ~Respond(w)
      <3>1. started' = started
          BY <1>6, <2>3 DEF Handle, Deliver, Fail, FindEpisode, LoadEpisode, Attach, RecordRefired, Lookup,
                            Create, Conflict, Update, Replace, FlushEnd, CommitEnd, OnlyReads
      <3>2. ASSUME Owes(w, i, "RESOLVED")'
            PROVE  started[i]["RESOLVED"] + 1 <= Cardinality(B)
        <4>1. CASE Owes(w, i, "RESOLVED")
            BY <1>4, <4>1
        <4>2. ASSUME NEW t \in Starts, Firing(t), ~Firing(t)', t \in Members(i)'
              PROVE  started[i]["RESOLVED"] + 1 <= Cardinality(B)
          <5>1. t \in B \ A
              BY <4>2 DEF EndedMembers
          <5> QED BY <1>0, <1>2, <5>1, CountsOneMore
        <4> QED BY <1>6, <3>2, <4>1, <4>2, ResolvedOwed
      <3> QED BY <1>3, <2>1, <3>1, <3>2 DEF ResolvedOnce
    <2> QED BY <2>2, <2>3
  <1> QED BY <1>5, <1>6 DEF Next

\* An end told once is counted at most once.
LEMMA RecordedOnce ==
    ASSUME TypeOK, EndsTold, NEW i \in Starts, NEW s \in Starts
    PROVE  Cardinality(Recorded(i, "ALERT_RESOLVED", s)) <= (IF Firing(s) THEN 0 ELSE 1)
  <1> PICK R : R = Recorded(i, "ALERT_RESOLVED", s)
      OBVIOUS
  <1>1. \A n \in R : ~Firing(s) /\ \A m \in R : m = n
      BY DEF Recorded, EndsTold
  <1>2. CASE R = {}
      BY <1>2, FS_EmptySet
  <1>3. CASE R # {}
    <2> PICK n : R = {n}
        BY <1>1, <1>3
    <2>1. Cardinality({n}) = 1
        BY FS_Singleton
    <2> QED BY <1>1, <2>1
  <1> QED BY <1>2, <1>3

\* With a single handler an end is recorded and reported once, however often it is delivered.
THEOREM SequentialEndCounts ==
    ASSUME OneHandler PROVE Spec => []EndCountsOnce
  <1>1. Init => ResolutionsOK
    <2> SUFFICES ASSUME Init, NEW i \in Starts PROVE ResolvedOnce(i)
        BY DEF ResolutionsOK
    <2>1. EndedMembers(i) = {} /\ started[i]["RESOLVED"] = 0 /\ \A w \in Workers : ~Owes(w, i, "RESOLVED")
        BY DEF Init, EndedMembers, Members, Stored, Triggers, Idle, Owes
    <2> QED BY <2>1, FS_EmptySet DEF ResolvedOnce
  <1>2. TypeOK /\ RequestsOK /\ AllReadsHold /\ DiagnosesOK /\ ResolutionsOK /\ [Next]_vars => ResolutionsOK'
      BY ResolutionsStep DEF DiagnosesOK
  <1>3. TypeOK /\ (AllOwnStepsHold /\ NothingBeforeCreation /\ EndsTold) /\ ResolutionsOK => EndCountsOnce
    <2> SUFFICES ASSUME TypeOK, EndsTold, ResolutionsOK PROVE EndCountsOnce
        OBVIOUS
    <2>1. \A s \in Starts : Stored(s) => row[s].incident \in Starts
        BY DEF TypeOK, Stored, Rows
    <2>2. \A s \in Starts : Stored(s) =>
              Cardinality(Recorded(row[s].incident, "ALERT_RESOLVED", s)) <= (IF Firing(s) THEN 0 ELSE 1)
        BY <2>1, RecordedOnce
    <2> QED BY <2>2 DEF EndCountsOnce, ResolutionsOK, ResolvedOnce
  <1> QED BY <1>1, <1>2, <1>3, TypeCorrect, ReadsAlwaysHold, DiagnosesCounted, SequentialEvents, PTL DEF Spec
==============================================================================
