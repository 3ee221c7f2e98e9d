----------------------------- MODULE AlertChannel -----------------------------
(***************************************************************************)
(* The alert stream from Alertmanager to the control plane.                 *)
(*                                                                          *)
(* The connector polls Alertmanager and receives its webhook, and keeps the *)
(* items in a bounded buffer numbered within one epoch, one run of the      *)
(* connector (packages/connector: service.py, streams.py).  The control     *)
(* plane's consumer reads pages at a cursor it holds in memory and applies   *)
(* them item by item: occurrences to the alerts table, polls and gaps to the *)
(* coverage segments (apps/control_plane/connector_intake.py).              *)
(*                                                                          *)
(* Each alert is a fingerprint of its own and fires once; episodes are off   *)
(* (AlertEpisodes has what ingestion does within one fingerprint).  Clock    *)
(* readings that are compared with one another are distinct.                *)
(***************************************************************************)
EXTENDS Naturals, Sequences, FiniteSets

CONSTANTS
    Alerts,         \* the occurrences
    BufferLen,      \* items the connector keeps (alerts_buffer_len)
    PageLimit,      \* items of one page (page_limit)
    Tolerance,      \* longest time between two polls of one segment (max_gap_polls slots)
    MinActive,      \* age at which an occurrence is admitted (alert_min_active)
    NoCursor,       \* the consumer has read nothing since it started
    NoPoll,         \* no poll is under way
    MaxTime,        \* bound: clock readings explored
    MaxWebhooks,    \* bound: webhook deliveries
    MaxRestarts,    \* bound: restarts of the connector
    MaxCrashes,     \* bound: pages given up, and restarts of the control plane
    MaxErrors       \* bound: failed polls and failed reads

ASSUME ConstantsAssumption ==
    /\ Alerts \subseteq Nat \ {0}
    /\ BufferLen \in Nat \ {0} /\ PageLimit \in Nat \ {0}
    /\ Tolerance \in Nat /\ MinActive \in Nat /\ MaxTime \in Nat
    /\ MaxWebhooks \in Nat /\ MaxRestarts \in Nat /\ MaxCrashes \in Nat /\ MaxErrors \in Nat

ASSUME NullAssumption == NoCursor \notin [epoch : Nat, seq : Nat]

Never == 0      \* the time of what has not happened
Triggers == {"INITIAL", "RESOLVED"}

Items ==
    [kind : {"firing", "resolved"}, alert : Alerts, at : Nat, ended : Nat]
        \cup [kind : {"ok", "failed", "gap"}, at : Nat]
Segments == [start : Nat, last : Nat, open : BOOLEAN]
Cursors == [epoch : Nat, seq : Nat]

VARIABLES
    now,            \* the clock
    alert,          \* Alertmanager: alert -> when it began and ended
    epoch,          \* the connector's run
    buffer,         \* its buffered items
    evicted,        \* how many items of this epoch it has dropped
    known,          \* the occurrences its last poll reported firing
    admitted,       \* the occurrences it has admitted
    poll,           \* the poll it is reporting: its time, what it listed, what is left to put
    cursor,         \* what the consumer has applied
    page,           \* the items it has read and not applied yet
    after,          \* the cursor once they are
    outcome,        \* the changes of incidents the page made so far
    row,            \* the alerts table: alert -> status
    segments,       \* the coverage segments, in order of their ids
    recorded,       \* the latest completed_at of the recorded polls
    started,        \* diagnoses started: alert -> trigger -> how many
    heard,          \* history: the latest successful poll put in a buffer
    emitted,        \* history: the occurrence items put in a buffer, each with heard
    unseen,         \* history: the failed polls
    used            \* how much of the bounds is used

clock == <<now, alert>>
connector == <<epoch, buffer, evicted, known, admitted, poll, heard, emitted, unseen>>
consumer == <<cursor, page, after, outcome>>
tables == <<row, segments, recorded>>
vars == <<clock, connector, consumer, tables, started, used>>

------------------------------------------------------------------------------
(* StreamBuffer. *)

\* Mutant of Buffered: nothing is dropped.
BufferedAll(items) == buffer' = buffer \o items /\ evicted' = evicted

\* append: the oldest items make room.
Buffered(items) ==
    LET all == buffer \o items
        drop == IF Len(all) > BufferLen THEN Len(all) - BufferLen ELSE 0 IN
    /\ buffer' = SubSeq(all, drop + 1, Len(all))
    /\ evicted' = evicted + drop

\* Mutant of Resumes: an expired cursor is served from what is left.
ResumesExpired == cursor # NoCursor /\ cursor.epoch = epoch

\* The buffer still holds everything after the cursor.
Resumes == cursor # NoCursor /\ cursor.epoch = epoch /\ cursor.seq >= evicted

\* Items are numbered from 1 within an epoch; a reader that cannot resume gets the oldest.
ServedAfter == IF Resumes /\ cursor.seq > evicted THEN cursor.seq ELSE evicted
Served ==
    LET rest == SubSeq(buffer, ServedAfter - evicted + 1, Len(buffer)) IN
    SubSeq(rest, 1, IF Len(rest) > PageLimit THEN PageLimit ELSE Len(rest))

(* Coverage segments (AlertCoverageRepository). *)

\* open_segment: the latest one that is open.
IsOpen(n) == segments[n].open /\ \A m \in DOMAIN segments : m > n => ~segments[m].open

Closed == [n \in DOMAIN segments |-> [segments[n] EXCEPT !.open = @ /\ ~IsOpen(n)]]

\* record_success: the open segment is extended, or broken by too long a silence.
RecordSuccess(at) ==
    /\ \/ \E n \in DOMAIN segments :
             /\ IsOpen(n) /\ at <= segments[n].last + Tolerance
             /\ segments' = [segments EXCEPT ![n].last = at]
       \/ /\ \A n \in DOMAIN segments : IsOpen(n) => at > segments[n].last + Tolerance
          /\ segments' = Append(Closed, [start |-> at, last |-> at, open |-> TRUE])
    /\ recorded' = at

\* Mutant of RecordFailure: a failed poll is only audited.
FailureTolerated(at) == segments' = segments /\ recorded' = at

\* record_failure: it ends at its last success.
RecordFailure(at) == segments' = Closed /\ recorded' = at

AnyOpen == \E n \in DOMAIN segments : segments[n].open

------------------------------------------------------------------------------
Init ==
    /\ now = 1
    /\ alert = [a \in Alerts |-> [began |-> Never, ended |-> Never]]
    /\ epoch = 1 /\ buffer = <<>> /\ evicted = 0
    /\ known = {} /\ admitted = {} /\ poll = NoPoll
    /\ heard = Never /\ emitted = {} /\ unseen = {}
    /\ cursor = NoCursor /\ page = <<>> /\ after = NoCursor /\ outcome = {}
    /\ row = [a \in Alerts |-> "ABSENT"]
    /\ segments = <<>> /\ recorded = Never
    /\ started = [a \in Alerts |-> [k \in Triggers |-> 0]]
    /\ used = [webhooks |-> 0, restarts |-> 0, crashes |-> 0, errors |-> 0]

\* What happens now has a time of its own.
Stamped == now < MaxTime /\ now' = now + 1
Use(bound, max) == used[bound] < max /\ used' = [used EXCEPT ![bound] = @ + 1]

(* Alertmanager. *)

Fires(a) == alert[a].began # Never /\ alert[a].ended = Never

Begin(a) ==
    /\ alert[a].began = Never
    /\ Stamped /\ alert' = [alert EXCEPT ![a].began = now']
    /\ UNCHANGED <<connector, consumer, tables, started, used>>

End(a) ==
    /\ Fires(a)
    /\ Stamped /\ alert' = [alert EXCEPT ![a].ended = now']
    /\ UNCHANGED <<connector, consumer, tables, started, used>>

(* The connector. *)

\* _admit: an occurrence passes once it has been active for MinActive.
Admits(a, lasted) == a \in admitted \/ lasted >= MinActive

FiringItem(a, at) == [kind |-> "firing", alert |-> a, at |-> at, ended |-> Never]
ResolvedItem(a, at, ended) == [kind |-> "resolved", alert |-> a, at |-> at, ended |-> ended]
Put(item) == Buffered(<<item>>) /\ emitted' = emitted \cup {[item |-> item, since |-> heard]}

\* One listing of Alertmanager: the occurrences that are gone and the admitted ones that
\* are new are still to be put.
Poll ==
    LET listed == {a \in Alerts : Fires(a)}
        passing == {a \in listed : Admits(a, now' - alert[a].began)} IN
    /\ poll = NoPoll
    /\ Stamped
    /\ admitted' = admitted \cup passing
    /\ poll' = [at |-> now', passing |-> passing, gone |-> known \ listed, new |-> passing \ known]
    /\ UNCHANGED <<alert, epoch, buffer, evicted, known, heard, emitted, unseen>>
    /\ UNCHANGED <<consumer, tables, started, used>>

\* An unreachable Alertmanager: a failed heartbeat and a gap.
PollFails ==
    /\ poll = NoPoll
    /\ Use("errors", MaxErrors)
    /\ Stamped
    /\ Buffered(<<[kind |-> "failed", at |-> now'], [kind |-> "gap", at |-> now']>>)
    /\ unseen' = unseen \cup {now'}
    /\ UNCHANGED <<alert, epoch, known, admitted, poll, heard, emitted, consumer, tables, started>>

\* The items one by one: first what is gone, then what is new.
PutGone ==
    /\ poll # NoPoll
    /\ \E a \in poll.gone :
          /\ Put(ResolvedItem(a, poll.at, poll.at))
          /\ poll' = [poll EXCEPT !.gone = @ \ {a}]
    /\ UNCHANGED <<clock, epoch, known, admitted, heard, unseen, consumer, tables, started, used>>

PutNew ==
    /\ poll # NoPoll /\ poll.gone = {}
    /\ \E a \in poll.new :
          /\ Put(FiringItem(a, poll.at))
          /\ poll' = [poll EXCEPT !.new = @ \ {a}]
    /\ UNCHANGED <<clock, epoch, known, admitted, heard, unseen, consumer, tables, started, used>>

\* The heartbeat comes after everything the poll saw.
PutHeartbeat ==
    /\ poll # NoPoll /\ poll.gone = {} /\ poll.new = {}
    /\ known' = poll.passing
    /\ Buffered(<<[kind |-> "ok", at |-> poll.at]>>)
    /\ poll' = NoPoll /\ heard' = poll.at
    /\ UNCHANGED <<clock, epoch, admitted, emitted, unseen, consumer, tables, started, used>>

\* receive_webhook: a notification of what an occurrence was at some time, late or repeated.
Webhook(a) ==
    /\ alert[a].began # Never
    /\ Use("webhooks", MaxWebhooks)
    /\ Stamped
    /\ \/ /\ Admits(a, now' - alert[a].began)
          /\ Put(FiringItem(a, now'))
       \/ /\ alert[a].ended # Never
          /\ Admits(a, alert[a].ended - alert[a].began)
          /\ Put(ResolvedItem(a, now', alert[a].ended))
    /\ admitted' = admitted \cup {a}
    /\ UNCHANGED <<alert, epoch, known, poll, heard, unseen, consumer, tables, started>>

\* The connector keeps nothing over a restart.
Restart ==
    /\ Use("restarts", MaxRestarts)
    /\ epoch' = epoch + 1 /\ buffer' = <<>> /\ evicted' = 0
    /\ known' = {} /\ admitted' = {} /\ poll' = NoPoll
    /\ UNCHANGED <<clock, heard, emitted, unseen, consumer, tables, started>>

(* The consumer: step reads one page, applies it and only then moves its cursor. *)

Reading == after # NoCursor

\* A reader that had a cursor and cannot resume is told so, at the time of its reading.
Read ==
    LET declares == cursor # NoCursor /\ ~Resumes IN
    /\ ~Reading
    /\ after' = [epoch |-> epoch, seq |-> ServedAfter + Len(Served)]
    /\ \/ declares /\ Stamped /\ page' = <<[kind |-> "gap", at |-> now']>> \o Served
       \/ ~declares /\ now' = now /\ page' = Served
    /\ UNCHANGED <<alert, connector, cursor, outcome, tables, started, used>>

\* ConnectorError: a connector that cannot be reached observes nothing.
ConnectorLost ==
    /\ ~Reading
    /\ Use("errors", MaxErrors)
    /\ Stamped
    /\ IF AnyOpen THEN RecordFailure(now') ELSE UNCHANGED <<segments, recorded>>
    /\ UNCHANGED <<alert, connector, consumer, row, started>>

\* The next item of the page, of one of these kinds, is applied.
Apply(kinds) == page # <<>> /\ Head(page).kind \in kinds /\ page' = Tail(page)

\* _before_first_coverage: it ended before this installation observed anything ...
EndedBeforeCoverage(item) ==
    item.kind = "resolved" /\ (segments # <<>> => item.ended <= segments[1].start)

\* ... and is not stored.
BeforeFirstCoverage(item) == EndedBeforeCoverage(item) /\ row[item.alert] = "ABSENT"

\* ingest_occurrence, and the changes of incidents it reports.
Status(item) == IF item.kind = "firing" THEN "FIRING" ELSE "RESOLVED"

\* Mutants of Ingest: a replayed occurrence is reported as created; a late firing reopens.
IngestReportsReplay(item) ==
    /\ row' = [row EXCEPT ![item.alert] = IF @ = "RESOLVED" THEN @ ELSE Status(item)]
    /\ outcome' = outcome \cup {<<item.alert, "INITIAL">>}
IngestReopens(item) ==
    /\ row' = [row EXCEPT ![item.alert] = Status(item)]
    /\ outcome' = outcome \cup {<<item.alert, "INITIAL">>}

Ingest(item) ==
    LET a == item.alert IN
    \/ /\ row[a] = "ABSENT"
       /\ row' = [row EXCEPT ![a] = Status(item)]
       /\ outcome' = outcome \cup {<<a, "INITIAL">>}
    \/ /\ row[a] = "FIRING" /\ item.kind = "resolved"
       /\ row' = [row EXCEPT ![a] = "RESOLVED"]
       /\ outcome' = outcome \cup {<<a, "RESOLVED">>}
    \/ /\ row[a] = Status(item) \/ row[a] = "RESOLVED"
       /\ UNCHANGED <<row, outcome>>

ApplyOccurrence ==
    /\ Apply({"firing", "resolved"})
    /\ IF BeforeFirstCoverage(Head(page)) THEN UNCHANGED <<row, outcome>> ELSE Ingest(Head(page))
    /\ UNCHANGED <<clock, connector, cursor, after, segments, recorded, started, used>>

\* Mutant of ApplyPoll: replays are not skipped.
ApplyPollAgain ==
    LET item == Head(page) IN
    /\ Apply({"ok", "failed"})
    /\ \/ item.kind = "ok" /\ RecordSuccess(item.at)
       \/ item.kind = "failed" /\ RecordFailure(item.at)
    /\ UNCHANGED <<clock, connector, cursor, after, outcome, row, started, used>>

\* A poll that is not later than what is recorded is a replay.
ApplyPoll ==
    LET item == Head(page) IN
    /\ Apply({"ok", "failed"})
    /\ \/ item.at <= recorded /\ UNCHANGED <<segments, recorded>>
       \/ item.at > recorded /\ item.kind = "ok" /\ RecordSuccess(item.at)
       \/ item.at > recorded /\ item.kind = "failed" /\ RecordFailure(item.at)
    /\ UNCHANGED <<clock, connector, cursor, after, outcome, row, started, used>>

ApplyGap ==
    LET at == Head(page).at IN
    /\ Apply({"gap"})
    /\ IF at > recorded /\ AnyOpen THEN RecordFailure(at) ELSE UNCHANGED <<segments, recorded>>
    /\ UNCHANGED <<clock, connector, cursor, after, outcome, row, started, used>>

\* The page is applied: the cursor moves, and the incidents it changed are diagnosed.
Finish ==
    /\ Reading /\ page = <<>>
    /\ cursor' = after /\ after' = NoCursor /\ outcome' = {}
    /\ started' = [a \in Alerts |-> [k \in Triggers |->
                      started[a][k] + (IF <<a, k>> \in outcome THEN 1 ELSE 0)]]
    /\ UNCHANGED <<clock, connector, page, tables, used>>

\* Mutant of Abandon: the cursor moves before the page is persisted.
AbandonMovesOn ==
    /\ Reading /\ page # <<>>
    /\ Use("crashes", MaxCrashes)
    /\ cursor' = after
    /\ page' = <<>> /\ after' = NoCursor /\ outcome' = {}
    /\ UNCHANGED <<clock, connector, tables, started>>

\* An item that cannot be persisted ends the step: the page is read again.
Abandon ==
    /\ Reading /\ page # <<>>
    /\ Use("crashes", MaxCrashes)
    /\ page' = <<>> /\ after' = NoCursor /\ outcome' = {}
    /\ UNCHANGED <<clock, connector, cursor, tables, started>>

\* The control plane restarts: the cursor was in memory.
Crash ==
    /\ Use("crashes", MaxCrashes)
    /\ cursor' = NoCursor /\ page' = <<>> /\ after' = NoCursor /\ outcome' = {}
    /\ UNCHANGED <<clock, connector, tables, started>>

Alertmanager == \E a \in Alerts : Begin(a) \/ End(a) \/ Webhook(a)
Connector == Poll \/ PollFails \/ PutGone \/ PutNew \/ PutHeartbeat \/ Restart
Consumer ==
    Read \/ ConnectorLost \/ ApplyOccurrence \/ ApplyPoll \/ ApplyGap \/ Finish \/ Abandon \/ Crash
Next == Alertmanager \/ Connector \/ Consumer

Spec == Init /\ [][Next]_vars

------------------------------------------------------------------------------
(* Properties. *)

TypeOK ==
    /\ now \in Nat
    /\ alert \in [Alerts -> [began : Nat, ended : Nat]]
    /\ epoch \in Nat /\ evicted \in Nat
    /\ buffer \in Seq(Items) /\ Len(buffer) <= BufferLen
    /\ known \subseteq admitted /\ admitted \subseteq Alerts
    /\ poll = NoPoll \/ poll \in [at : Nat, passing : SUBSET Alerts, gone : SUBSET Alerts,
                                  new : SUBSET Alerts]
    /\ heard \in Nat /\ emitted \subseteq [item : Items, since : Nat] /\ unseen \subseteq Nat
    /\ cursor \in Cursors \cup {NoCursor} /\ after \in Cursors \cup {NoCursor}
    /\ page \in Seq(Items)
    /\ outcome \subseteq Alerts \X Triggers
    /\ row \in [Alerts -> {"ABSENT", "FIRING", "RESOLVED"}]
    /\ segments \in Seq(Segments) /\ recorded \in Nat
    /\ started \in [Alerts -> [Triggers -> Nat]]
    /\ used \in [{"webhooks", "restarts", "crashes", "errors"} -> Nat]

\* Coverage claims the alert channel was observed at time t.
Covered(t) == \E n \in DOMAIN segments : segments[n].start < t /\ t <= segments[n].last

\* Segments are disjoint and in the order they were observed, whatever is replayed, and
\* only the last one is open.
SegmentsApart ==
    /\ \A n \in DOMAIN segments : segments[n].start <= segments[n].last /\ segments[n].last <= recorded
    /\ \A m, n \in DOMAIN segments : m < n => segments[m].last < segments[n].start /\ ~segments[m].open

\* What coverage has claimed it keeps claiming, and it is extended only by what is later
\* than everything recorded.
CoverageOnlyGrows ==
    [][/\ recorded' >= recorded
       /\ \A n \in DOMAIN segments :
             /\ n \in DOMAIN segments' /\ segments'[n].start = segments[n].start
             /\ segments'[n].last # segments[n].last =>
                   segments[n].open /\ segments'[n].last > recorded
             /\ segments'[n].open => segments[n].open]_vars

\* The segment goes on past the poll that was the latest at time t.
Spans(t) == \E n \in DOMAIN segments : segments[n].start <= t /\ t < segments[n].last

\* "Exceeding the buffer is a Gap, not silent loss": an occurrence reported between two
\* polls of one segment has reached the alerts table, as far as it had got; one that ended
\* before all coverage is left out (and may be stored as firing by a delivery that comes late).
NothingLostInCoverage ==
    \A e \in emitted : Spans(e.since) =>
        row[e.item.alert] \in {"RESOLVED", Status(e.item)} \/ EndedBeforeCoverage(e.item)

\* So far no page was given up and the control plane was not restarted.
KeepsRunning == used["crashes"] = 0

\* Whatever the buffer drops, a consumer that keeps running is told of the gap before coverage goes on
\* (StreamBuffer.read against AlertStreamConsumer.step).
NothingLostWhileRunning == KeepsRunning => NothingLostInCoverage

\* Whatever the consumer gives up or forgets, it reads again what the buffer still holds.
NothingLostWhileHeld == epoch = 1 /\ evicted = 0 => NothingLostInCoverage

\* No failed poll lies inside a segment, though its heartbeat may never be read, while the consumer
\* keeps running.
NoFailureInCoverage == KeepsRunning => \A t \in unseen : ~Covered(t)

\* Each change of an incident is diagnosed at most once, over all replays and restarts.
DiagnosedOnce == \A a \in Alerts : \A k \in Triggers : started[a][k] <= 1

\* A created incident whose page is over has had its INITIAL diagnosis.
CreatedIncidentDiagnosed ==
    ~Reading => \A a \in Alerts : row[a] # "ABSENT" => started[a]["INITIAL"] = 1

\* What the occurrences look like from outside, each the incident of its own.
Occ == [a \in Alerts |-> IF row[a] = "ABSENT" THEN [incident |-> 0, state |-> "ABSENT"]
                                              ELSE [incident |-> a, state |-> row[a]]]
Occurrences == INSTANCE AlertOccurrences WITH occ <- Occ, Starts <- Alerts, Quiet <- 0

\* Replay, reordering and loss leave the promise of ingestion intact.
ImplementsOccurrences == Occurrences!Spec
==============================================================================
