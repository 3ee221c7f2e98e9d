--------------------------- MODULE AlertChannelProofs ---------------------------
(***************************************************************************)
(* Whatever is polled, delivered, dropped, replayed or restarted, and however *)
(* much of it: coverage segments stay apart and only grow, ingestion keeps its *)
(* promise, and no change of an incident is diagnosed twice; and while the     *)
(* consumer keeps running, coverage can be believed.                           *)
(***************************************************************************)
EXTENDS AlertChannel, SequenceTheorems, TLAPS

------------------------------------------------------------------------------
(* The buffer. *)

\* What is kept is the end of what was there and what came, at the positions it has.
LEMMA BufferedKeepsEnd ==
    ASSUME buffer \in Seq(Items), Len(buffer) <= BufferLen, evicted \in Nat,
           NEW items \in Seq(Items), Buffered(items)
    PROVE  /\ buffer' \in Seq(Items) /\ Len(buffer') <= BufferLen
           /\ evicted' \in Nat /\ evicted' >= evicted
           /\ evicted' + Len(buffer') = evicted + Len(buffer) + Len(items)
           /\ \A i \in 1 .. Len(buffer') :
                 /\ i + (evicted' - evicted) \in 1 .. Len(buffer) + Len(items)
                 /\ buffer'[i] = (buffer \o items)[i + (evicted' - evicted)]
<1> DEFINE all == buffer \o items
           drop == IF Len(all) > BufferLen THEN Len(all) - BufferLen ELSE 0
<1>1. /\ all \in Seq(Items) /\ Len(all) = Len(buffer) + Len(items)
      /\ \A i \in 1 .. Len(buffer) + Len(items) : all[i] \in Items
  BY ConcatProperties
<1>2. Len(buffer) \in Nat /\ Len(items) \in Nat /\ BufferLen \in Nat \ {0}
  BY LenProperties, ConstantsAssumption
<1>3. buffer' = SubSeq(all, drop + 1, Len(all)) /\ evicted' = evicted + drop  BY DEF Buffered
<1>4. drop \in Nat /\ drop <= Len(all) /\ Len(all) - drop <= BufferLen /\ Len(all) \in Nat
  BY <1>1, <1>2
<1> HIDE DEF all, drop
<1>5. \A i \in drop + 1 .. Len(all) : all[i] \in Items  BY <1>1, <1>4
<1>6. /\ buffer' \in Seq(Items) /\ Len(buffer') = Len(all) - drop
      /\ \A i \in 1 .. Len(all) - drop : buffer'[i] = all[drop + i]
  <2>1. /\ SubSeq(all, drop + 1, Len(all)) \in Seq(Items)
        /\ Len(SubSeq(all, drop + 1, Len(all)))
              = IF drop + 1 <= Len(all) THEN Len(all) - (drop + 1) + 1 ELSE 0
        /\ \A i \in 1 .. Len(all) - (drop + 1) + 1 :
              SubSeq(all, drop + 1, Len(all))[i] = all[drop + 1 + i - 1]
    BY <1>4, <1>5, SubSeqProperties
  <2>2. \A i \in Nat : drop + 1 + i - 1 = drop + i  BY <1>4
  <2>3. QED  BY <1>3, <1>4, <2>1, <2>2
<1>7. evicted' - evicted = drop  BY <1>3, <1>4
<1>8. \A i \in 1 .. Len(buffer') : i + drop \in 1 .. Len(all) /\ i + drop = drop + i /\ i \in 1 .. Len(all) - drop
  BY <1>4, <1>6
<1>9. evicted' \in Nat /\ evicted' >= evicted /\ evicted' + Len(buffer') = evicted + Len(all)
  <2>1. PICK l \in Nat : l = Len(all)  BY <1>4
  <2>2. PICK d \in Nat : d = drop /\ d <= l  BY <1>4, <2>1
  <2>3. evicted' = evicted + d /\ Len(buffer') = l - d  BY <1>3, <1>6, <2>1, <2>2
  <2>4. QED  BY <2>1, <2>2, <2>3
<1>10. Len(buffer') <= BufferLen  BY <1>4, <1>6
<1>11. \A i \in 1 .. Len(buffer') :
          /\ i + (evicted' - evicted) \in 1 .. Len(buffer) + Len(items)
          /\ buffer'[i] = all[i + (evicted' - evicted)]
  BY <1>1, <1>6, <1>7, <1>8
<1>12. evicted' + Len(buffer') = evicted + Len(buffer) + Len(items)  BY <1>1, <1>2, <1>9
<1>13. QED  BY <1>6, <1>9, <1>10, <1>11, <1>12 DEF all

\* What came and what was there were, each, of their time.
LEMMA BufferedKeepsTime ==
    ASSUME buffer \in Seq(Items), Len(buffer) <= BufferLen, evicted \in Nat,
           NEW items \in Seq(Items), Buffered(items), NEW t \in Nat,
           \A i \in 1 .. Len(buffer) : buffer[i].at <= t,
           \A i \in 1 .. Len(items) : items[i].at <= t
    PROVE  \A i \in 1 .. Len(buffer') : buffer'[i].at <= t
<1> SUFFICES ASSUME NEW i \in 1 .. Len(buffer') PROVE buffer'[i].at <= t
  OBVIOUS
<1>1. PICK j \in 1 .. Len(buffer) + Len(items) : buffer'[i] = (buffer \o items)[j]
  BY BufferedKeepsEnd
<1>2. buffer'[i] = IF j <= Len(buffer) THEN buffer[j] ELSE items[j - Len(buffer)]
  BY <1>1, ConcatProperties
<1>3. Len(buffer) \in Nat /\ Len(items) \in Nat  BY LenProperties
<1>4. QED  BY <1>1, <1>2, <1>3

------------------------------------------------------------------------------
(* The coverage segments. *)

SegmentsOK == segments \in Seq(Segments) /\ recorded \in Nat /\ SegmentsApart

\* What a step may do to them.
Grows ==
    /\ recorded' >= recorded
    /\ \A n \in DOMAIN segments :
          /\ n \in DOMAIN segments' /\ segments'[n].start = segments[n].start
          /\ segments'[n].last # segments[n].last =>
                segments[n].open /\ segments'[n].last > recorded
          /\ segments'[n].open => segments[n].open

LEMMA SegmentTypes ==
    ASSUME SegmentsOK
    PROVE  /\ Len(segments) \in Nat /\ DOMAIN segments = 1 .. Len(segments)
           /\ \A n \in 1 .. Len(segments) :
                 /\ segments[n] \in Segments
                 /\ segments[n].start \in Nat /\ segments[n].last \in Nat /\ segments[n].open \in BOOLEAN
<1>1. segments \in Seq(Segments)  BY DEF SegmentsOK
<1>2. Len(segments) \in Nat /\ DOMAIN segments = 1 .. Len(segments)  BY <1>1, LenProperties
<1>3. \A n \in 1 .. Len(segments) : segments[n] \in Segments  BY <1>1, ElementOfSeq
<1>4. QED  BY <1>2, <1>3 DEF Segments

\* Only the last segment can be open.
LEMMA OpenIsLast ==
    ASSUME SegmentsOK, NEW n \in DOMAIN segments
    PROVE  /\ segments[n].open => n = Len(segments)
           /\ IsOpen(n) <=> segments[n].open
<1>1. segments[n].open => n = Len(segments)  BY SegmentTypes DEF SegmentsOK, SegmentsApart
<1>2. QED  BY <1>1, SegmentTypes DEF IsOpen

LEMMA ClosedSegments ==
    ASSUME SegmentsOK
    PROVE  /\ Closed \in Seq(Segments) /\ Len(Closed) = Len(segments)
           /\ \A n \in 1 .. Len(segments) :
                 /\ Closed[n].start = segments[n].start /\ Closed[n].last = segments[n].last
                 /\ ~Closed[n].open
<1>1. \A n \in 1 .. Len(segments) :
          /\ Closed[n] \in Segments
          /\ Closed[n].start = segments[n].start /\ Closed[n].last = segments[n].last
          /\ ~Closed[n].open
  <2> SUFFICES ASSUME NEW n \in 1 .. Len(segments)
               PROVE  /\ Closed[n] \in Segments
                      /\ Closed[n].start = segments[n].start /\ Closed[n].last = segments[n].last
                      /\ ~Closed[n].open
    OBVIOUS
  <2>1. PICK k \in Segments : k = segments[n]  BY SegmentTypes
  <2>2. Closed[n] = [k EXCEPT !.open = k.open /\ ~IsOpen(n)]  BY <2>1, SegmentTypes DEF Closed
  <2>3. IsOpen(n) <=> k.open  BY <2>1, OpenIsLast, SegmentTypes
  <2>4. k.open /\ ~IsOpen(n) <=> FALSE  BY <2>3
  <2>5. Closed[n] = [k EXCEPT !.open = FALSE]  BY <2>2, <2>4
  <2>6. QED  BY <2>1, <2>5 DEF Segments
<1>2. Closed = [n \in 1 .. Len(segments) |-> Closed[n]] /\ Len(segments) \in Nat
  BY SegmentTypes DEF Closed
<1>3. Closed \in Seq(Segments) /\ Len(Closed) = Len(segments)  BY <1>1, <1>2
<1>4. QED  BY <1>1, <1>3

LEMMA FailureRecorded ==
    ASSUME SegmentsOK, NEW at \in Nat, at >= recorded, RecordFailure(at)
    PROVE  SegmentsOK' /\ recorded' = at /\ Grows /\ \A n \in DOMAIN segments' : ~segments'[n].open
<1>1. segments' = Closed /\ recorded' = at  BY DEF RecordFailure
<1>2. DOMAIN segments' = 1 .. Len(segments) /\ DOMAIN segments = 1 .. Len(segments)
  BY <1>1, ClosedSegments, LenProperties, SegmentTypes
<1>3. SegmentsApart'
  BY <1>1, <1>2, ClosedSegments, SegmentTypes DEF SegmentsOK, SegmentsApart
<1>4. SegmentsOK'  BY <1>1, <1>3, ClosedSegments DEF SegmentsOK
<1>5. Grows  BY <1>1, <1>2, ClosedSegments, SegmentTypes DEF Grows, SegmentsOK
<1>6. QED  BY <1>1, <1>2, <1>4, <1>5, ClosedSegments

LEMMA Extended ==
    ASSUME SegmentsOK, NEW at \in Nat, at > recorded, recorded' = at,
           NEW n \in DOMAIN segments, IsOpen(n), segments' = [segments EXCEPT ![n].last = at]
    PROVE  SegmentsOK' /\ Grows
<1>1. n \in 1 .. Len(segments) /\ DOMAIN segments = 1 .. Len(segments) /\ Len(segments) \in Nat
  BY SegmentTypes
<1>2. n = Len(segments) /\ segments[n].open  BY OpenIsLast
<1>3. PICK k \in Segments : k = segments[n]  BY <1>1, SegmentTypes
<1>4. PICK q : q = [k EXCEPT !.last = at]  OBVIOUS
<1>5. q \in Segments /\ q.start = k.start /\ q.last = at /\ q.open = k.open  BY <1>3, <1>4 DEF Segments
<1>6. segments \in Seq(Segments)  BY DEF SegmentsOK
<1>7. segments' = [segments EXCEPT ![n] = q]  BY <1>1, <1>3, <1>4, <1>6
<1>8. /\ segments' \in Seq(Segments) /\ Len(segments') = Len(segments)
      /\ \A j \in 1 .. Len(segments) : segments'[j] = IF j = n THEN q ELSE segments[j]
  BY <1>1, <1>5, <1>6, <1>7, ExceptSeq
<1>9. DOMAIN segments' = 1 .. Len(segments)  BY <1>8, LenProperties
<1>10. k.start <= k.last /\ k.last <= recorded  BY <1>1, <1>3 DEF SegmentsOK, SegmentsApart
<1>11. SegmentsApart'
  <2>1. \A j \in DOMAIN segments' : segments'[j].start <= segments'[j].last /\ segments'[j].last <= at
    BY <1>1, <1>3, <1>5, <1>8, <1>9, <1>10, SegmentTypes DEF SegmentsOK, SegmentsApart
  <2>2. ASSUME NEW m \in DOMAIN segments', NEW j \in DOMAIN segments', m < j
        PROVE  segments'[m].last < segments'[j].start /\ ~segments'[m].open
    <3>1. m # n /\ segments'[m] = segments[m]  BY <1>1, <1>2, <1>8, <1>9, <2>2
    <3>2. segments'[j].start = segments[j].start  BY <1>3, <1>5, <1>8, <1>9
    <3>3. QED  BY <1>1, <1>9, <2>2, <3>1, <3>2 DEF SegmentsOK, SegmentsApart
  <2>3. QED  BY <2>1, <2>2 DEF SegmentsApart
<1>12. Grows  BY <1>2, <1>3, <1>5, <1>8, <1>9, <1>1 DEF Grows, SegmentsOK
<1>13. QED  BY <1>8, <1>11, <1>12 DEF SegmentsOK

LEMMA Added ==
    ASSUME SegmentsOK, NEW at \in Nat, at > recorded, recorded' = at,
           segments' = Append(Closed, [start |-> at, last |-> at, open |-> TRUE])
    PROVE  SegmentsOK' /\ Grows
<1>1. DOMAIN segments = 1 .. Len(segments) /\ Len(segments) \in Nat  BY SegmentTypes
<1>2. PICK k : k = [start |-> at, last |-> at, open |-> TRUE]  OBVIOUS
<1>3. k \in Segments /\ k.start = at /\ k.last = at  BY <1>2 DEF Segments
<1>4. /\ segments' \in Seq(Segments) /\ Len(segments') = Len(segments) + 1
      /\ \A n \in 1 .. Len(segments) : segments'[n] = Closed[n]
      /\ segments'[Len(segments) + 1] = k
  BY <1>1, <1>2, <1>3, ClosedSegments
<1>5. DOMAIN segments' = 1 .. Len(segments) + 1  BY <1>4, LenProperties
<1>6. \A n \in DOMAIN segments' : n \in 1 .. Len(segments) \/ n = Len(segments) + 1  BY <1>1, <1>5
<1>7. \A n \in 1 .. Len(segments) :
         /\ segments'[n].start = segments[n].start /\ segments'[n].last = segments[n].last /\ ~segments'[n].open
         /\ segments[n].start <= segments[n].last /\ segments[n].last <= recorded
  BY <1>1, <1>4, ClosedSegments DEF SegmentsOK, SegmentsApart
<1>8. SegmentsApart'
  <2>1. \A n \in DOMAIN segments' : segments'[n].start <= segments'[n].last /\ segments'[n].last <= at
    BY <1>1, <1>3, <1>4, <1>6, <1>7, SegmentTypes DEF SegmentsOK
  <2>2. ASSUME NEW m \in DOMAIN segments', NEW n \in DOMAIN segments', m < n
        PROVE  segments'[m].last < segments'[n].start /\ ~segments'[m].open
    <3>1. m \in 1 .. Len(segments)  BY <1>1, <1>5, <2>2
    <3>2. CASE n = Len(segments) + 1
      BY <3>1, <3>2, <1>3, <1>4, <1>7, SegmentTypes DEF SegmentsOK
    <3>3. CASE n \in 1 .. Len(segments)
      BY <1>1, <3>1, <3>3, <1>7, <2>2 DEF SegmentsOK, SegmentsApart
    <3>4. QED  BY <1>6, <3>2, <3>3
  <2>3. QED  BY <2>1, <2>2 DEF SegmentsApart
<1>9. Grows  BY <1>1, <1>5, <1>7 DEF Grows, SegmentsOK
<1>10. QED  BY <1>4, <1>8, <1>9 DEF SegmentsOK

LEMMA SuccessRecorded ==
    ASSUME SegmentsOK, NEW at \in Nat, at > recorded, RecordSuccess(at)
    PROVE  SegmentsOK' /\ recorded' = at /\ Grows
  BY Extended, Added DEF RecordSuccess

LEMMA NothingRecorded ==
    ASSUME SegmentsOK, UNCHANGED <<segments, recorded>> PROVE SegmentsOK' /\ Grows
  BY DEF SegmentsOK, SegmentsApart, Grows

------------------------------------------------------------------------------
(* The invariant.  Nothing is of a time to come, and what a diagnosis is owed for, or was started *)
(* for, has happened to the alerts table.                                                        *)

ClockOK == now \in Nat /\ alert \in [Alerts -> [began : Nat, ended : Nat]]

BufferOK ==
    /\ epoch \in Nat /\ evicted \in Nat
    /\ buffer \in Seq(Items) /\ Len(buffer) <= BufferLen
    /\ \A i \in 1 .. Len(buffer) : buffer[i].at <= now

Polls == [at : Nat, passing : SUBSET Alerts, gone : SUBSET Alerts, new : SUBSET Alerts]

PollOK ==
    /\ known \subseteq admitted /\ admitted \subseteq Alerts
    /\ poll = NoPoll \/ poll \in Polls
    /\ poll # NoPoll => poll.at <= now /\ poll.passing \subseteq admitted
    /\ heard \in Nat /\ emitted \subseteq [item : Items, since : Nat] /\ unseen \subseteq Nat

ConsumerOK ==
    /\ cursor \in Cursors \cup {NoCursor} /\ after \in Cursors \cup {NoCursor}
    /\ page \in Seq(Items) /\ \A i \in 1 .. Len(page) : page[i].at <= now
    /\ outcome \subseteq Alerts \X Triggers

TablesOK ==
    /\ row \in [Alerts -> {"ABSENT", "FIRING", "RESOLVED"}]
    /\ SegmentsOK /\ recorded <= now

Owed(a, k) == IF <<a, k>> \in outcome THEN 1 ELSE 0

\* The change k has happened to the incident of a.
Happened(a, k) == row[a] # "ABSENT" /\ (k = "RESOLVED" => row[a] = "RESOLVED")

DiagnosesOK ==
    /\ started \in [Alerts -> [Triggers -> Nat]]
    /\ \A a \in Alerts, k \in Triggers : started[a][k] + Owed(a, k) <= IF Happened(a, k) THEN 1 ELSE 0

UsedOK == used \in [{"webhooks", "restarts", "crashes", "errors"} -> Nat]

IInv == ClockOK /\ BufferOK /\ PollOK /\ ConsumerOK /\ TablesOK /\ DiagnosesOK /\ UsedOK

LEMMA InitHolds == ASSUME Init PROVE IInv
<1>1. ClockOK
  <2>1. PICK k : k = [began |-> 0, ended |-> 0]  OBVIOUS
  <2>2. k \in [began : Nat, ended : Nat]  BY <2>1
  <2>3. alert = [a \in Alerts |-> k]  BY <2>1 DEF Init, Never
  <2>4. QED  BY <2>2, <2>3 DEF Init, ClockOK
<1>2. BufferOK /\ PollOK  BY ConstantsAssumption DEF Init, BufferOK, PollOK, Never
<1>3. ConsumerOK  BY DEF Init, ConsumerOK
<1>4. TablesOK  BY DEF Init, TablesOK, SegmentsOK, SegmentsApart, Never
<1>5. DiagnosesOK
  <2>1. \A a \in Alerts, k \in Triggers : started[a][k] = 0 /\ Owed(a, k) = 0  BY DEF Init, Owed
  <2>2. \A a \in Alerts : row[a] = "ABSENT"  BY DEF Init
  <2>3. QED  BY <2>1, <2>2 DEF Init, DiagnosesOK, Happened
<1>6. UsedOK  BY DEF Init, UsedOK
<1>7. QED  BY <1>1, <1>2, <1>3, <1>4, <1>5, <1>6 DEF IInv

\* Time passes for what is left alone.
LEMMA BufferStays ==
    ASSUME BufferOK, now \in Nat, now' \in Nat, now' >= now, UNCHANGED <<epoch, buffer, evicted>> PROVE BufferOK'
<1>1. \A i \in 1 .. Len(buffer) : buffer[i] \in Items  BY ElementOfSeq DEF BufferOK
<1>2. \A x \in Items : x.at \in Nat  BY DEF Items
<1>3. QED  BY <1>1, <1>2 DEF BufferOK

LEMMA PollStays ==
    ASSUME PollOK, now \in Nat, now' \in Nat, now' >= now, UNCHANGED <<known, admitted, poll, heard, emitted, unseen>>
    PROVE  PollOK'
  BY DEF PollOK, Polls

LEMMA ConsumerStays ==
    ASSUME ConsumerOK, now \in Nat, now' \in Nat, now' >= now, UNCHANGED consumer PROVE ConsumerOK'
<1>1. \A i \in 1 .. Len(page) : page[i] \in Items  BY ElementOfSeq DEF ConsumerOK
<1>2. \A x \in Items : x.at \in Nat  BY DEF Items
<1>3. QED  BY <1>1, <1>2 DEF ConsumerOK, consumer

LEMMA TablesStay ==
    ASSUME TablesOK, now \in Nat, now' \in Nat, now' >= now, UNCHANGED tables PROVE TablesOK'
<1>1. SegmentsOK' /\ recorded \in Nat  BY NothingRecorded DEF TablesOK, tables, SegmentsOK
<1>2. QED  BY <1>1 DEF TablesOK, tables

LEMMA DiagnosesStay == ASSUME DiagnosesOK, UNCHANGED <<started, outcome, row>> PROVE DiagnosesOK'
  BY DEF DiagnosesOK, Owed, Happened

LEMMA UsedStays == ASSUME UsedOK, UNCHANGED used PROVE UsedOK'
  BY DEF UsedOK

LEMMA Using ==
    ASSUME UsedOK, NEW b \in {"webhooks", "restarts", "crashes", "errors"}, NEW m \in Nat, Use(b, m)
    PROVE  UsedOK'
  BY DEF UsedOK, Use

\* A step of the connector or of Alertmanager changes nothing the control plane holds.
LEMMA ControlPlaneStays ==
    ASSUME IInv, now' \in Nat, now' >= now, UNCHANGED <<consumer, tables, started>>
    PROVE  ConsumerOK' /\ TablesOK' /\ DiagnosesOK'
<1>1. ConsumerOK' /\ TablesOK'  BY ConsumerStays, TablesStay DEF IInv, ClockOK
<1>2. DiagnosesOK'  BY DiagnosesStay DEF IInv, consumer, tables
<1>3. QED  BY <1>1, <1>2

\* A step of the control plane changes nothing the connector holds.
LEMMA ConnectorStays ==
    ASSUME IInv, now' \in Nat, now' >= now, UNCHANGED <<alert, connector>>
    PROVE  ClockOK' /\ BufferOK' /\ PollOK'
<1>1. BufferOK' /\ PollOK'  BY BufferStays, PollStays DEF IInv, ClockOK, connector
<1>2. ClockOK'  BY DEF IInv, ClockOK
<1>3. QED  BY <1>1, <1>2

LEMMA LaterIsLater == ASSUME ClockOK, Stamped PROVE now' = now + 1 /\ now' \in Nat /\ now' >= now
  BY DEF ClockOK, Stamped

------------------------------------------------------------------------------
(* Alertmanager and the connector. *)

LEMMA AlertChanges ==
    ASSUME IInv, NEW a \in Alerts, NEW r \in [began : Nat, ended : Nat], Stamped,
           alert' = [alert EXCEPT ![a] = r], UNCHANGED <<connector, consumer, tables, started, used>>
    PROVE  IInv'
<1>1. now' \in Nat /\ now' >= now  BY LaterIsLater DEF IInv
<1>2. ClockOK'  BY <1>1 DEF IInv, ClockOK
<1>3. BufferOK' /\ PollOK'  BY <1>1, BufferStays, PollStays DEF IInv, ClockOK, connector
<1>4. ConsumerOK' /\ TablesOK' /\ DiagnosesOK'  BY <1>1, ControlPlaneStays
<1>5. QED  BY <1>2, <1>3, <1>4, UsedStays DEF IInv

LEMMA BeginEndKeep == ASSUME IInv, NEW a \in Alerts, Begin(a) \/ End(a) PROVE IInv'
<1>1. PICK k \in [began : Nat, ended : Nat] : k = alert[a]  BY DEF IInv, ClockOK
<1>2. PICK n \in Nat : n = now' /\ Stamped  BY LaterIsLater DEF IInv, Begin, End
<1>3. CASE Begin(a)
  <2>1. PICK q : q = [k EXCEPT !.began = n]  OBVIOUS
  <2>2. q \in [began : Nat, ended : Nat]  BY <2>1
  <2>3. alert' = [alert EXCEPT ![a] = q]  BY <1>1, <1>2, <1>3, <2>1 DEF Begin, IInv, ClockOK
  <2>4. QED  BY <1>2, <1>3, <2>2, <2>3, AlertChanges DEF Begin
<1>4. CASE End(a)
  <2>1. PICK q : q = [k EXCEPT !.ended = n]  OBVIOUS
  <2>2. q \in [began : Nat, ended : Nat]  BY <2>1
  <2>3. alert' = [alert EXCEPT ![a] = q]  BY <1>1, <1>2, <1>4, <2>1 DEF End, IInv, ClockOK
  <2>4. QED  BY <1>2, <1>4, <2>2, <2>3, AlertChanges DEF End
<1>5. QED  BY <1>3, <1>4

LEMMA ConnectorMoves ==
    ASSUME IInv, now' \in Nat, now' >= now, BufferOK', PollOK', UsedOK',
           UNCHANGED <<alert, consumer, tables, started>>
    PROVE  IInv'
<1>1. ConsumerOK' /\ TablesOK' /\ DiagnosesOK'  BY ControlPlaneStays
<1>2. ClockOK'  BY DEF IInv, ClockOK
<1>3. QED  BY <1>1, <1>2 DEF IInv

LEMMA BufferTakes ==
    ASSUME BufferOK, now \in Nat, NEW n \in Nat, n = now', n >= now, UNCHANGED epoch,
           NEW items \in Seq(Items), \A i \in 1 .. Len(items) : items[i].at <= n, Buffered(items)
    PROVE  BufferOK'
<1>1. \A i \in 1 .. Len(buffer) : buffer[i] \in Items  BY ElementOfSeq DEF BufferOK
<1>2. \A x \in Items : x.at \in Nat  BY DEF Items
<1>3. \A i \in 1 .. Len(buffer) : buffer[i].at <= n  BY <1>1, <1>2 DEF BufferOK
<1>4. \A i \in 1 .. Len(buffer') : buffer'[i].at <= n  BY <1>3, BufferedKeepsTime DEF BufferOK
<1>5. QED  BY <1>4, BufferedKeepsEnd DEF BufferOK

LEMMA OneItem ==
    ASSUME NEW x \in Items, NEW n \in Nat, x.at <= n
    PROVE  <<x>> \in Seq(Items) /\ \A i \in 1 .. Len(<<x>>) : <<x>>[i].at <= n
  OBVIOUS

LEMMA FiringIsItem ==
    ASSUME NEW a \in Alerts, NEW at \in Nat
    PROVE  FiringItem(a, at) \in Items /\ FiringItem(a, at).at = at
  BY DEF FiringItem, Items, Never

LEMMA ResolvedIsItem ==
    ASSUME NEW a \in Alerts, NEW at \in Nat, NEW ended \in Nat
    PROVE  ResolvedItem(a, at, ended) \in Items /\ ResolvedItem(a, at, ended).at = at
  BY DEF ResolvedItem, Items

LEMMA HeartbeatsAreItems ==
    ASSUME NEW at \in Nat, NEW k \in {"ok", "failed", "gap"}
    PROVE  [kind |-> k, at |-> at] \in Items /\ [kind |-> k, at |-> at].at = at
  BY DEF Items

\* An occurrence item is put in the buffer.
LEMMA PutTakes ==
    ASSUME BufferOK, PollOK, now \in Nat, NEW n \in Nat, n = now', n >= now, UNCHANGED epoch,
           NEW x \in Items, x.at <= n, Put(x)
    PROVE  BufferOK' /\ emitted' \subseteq [item : Items, since : Nat]
<1>1. BufferOK'  BY OneItem, BufferTakes DEF Put
<1>2. [item |-> x, since |-> heard] \in [item : Items, since : Nat]  BY DEF PollOK
<1>3. QED  BY <1>1, <1>2 DEF Put, PollOK

LEMMA PollKeeps == ASSUME IInv, Poll PROVE IInv'
<1>1. PICK n \in Nat : n = now' /\ n >= now  BY LaterIsLater DEF IInv, Poll
<1>2. BufferOK'  BY <1>1, BufferStays DEF IInv, ClockOK, Poll
<1>3. PICK passing \in SUBSET Alerts, gone \in SUBSET Alerts, new \in SUBSET Alerts :
          /\ admitted' = admitted \cup passing
          /\ poll' = [at |-> n, passing |-> passing, gone |-> gone, new |-> new]
  BY <1>1 DEF IInv, PollOK, Poll
<1>4. poll' \in Polls /\ poll'.at = n /\ poll'.passing = passing  BY <1>3 DEF Polls
<1>5. PollOK'  BY <1>1, <1>3, <1>4 DEF IInv, PollOK, Poll
<1>6. UNCHANGED <<alert, consumer, tables, started>> /\ UsedOK'  BY UsedStays DEF IInv, Poll
<1>7. QED  BY <1>1, <1>2, <1>5, <1>6, ConnectorMoves

LEMMA PollFailsKeeps == ASSUME IInv, PollFails PROVE IInv'
<1>1. PICK n \in Nat : n = now' /\ n >= now  BY LaterIsLater DEF IInv, PollFails
<1>2. PICK x \in Items : x = [kind |-> "failed", at |-> n] /\ x.at = n  BY HeartbeatsAreItems
<1>3. PICK y \in Items : y = [kind |-> "gap", at |-> n] /\ y.at = n  BY HeartbeatsAreItems
<1>4. Buffered(<<x, y>>) /\ unseen' = unseen \cup {n}
      /\ UNCHANGED <<alert, epoch, known, admitted, poll, heard, emitted, consumer, tables, started>>
  BY <1>1, <1>2, <1>3 DEF PollFails
<1>5. <<x, y>> \in Seq(Items) /\ \A i \in 1 .. Len(<<x, y>>) : <<x, y>>[i].at <= n  BY <1>2, <1>3
<1>6. BufferOK'  BY <1>1, <1>4, <1>5, BufferTakes DEF IInv, ClockOK
<1>7. PollOK'  BY <1>1, <1>4 DEF IInv, ClockOK, PollOK, Polls
<1>8. UsedOK'  BY Using, ConstantsAssumption DEF IInv, PollFails
<1>9. QED  BY <1>1, <1>4, <1>6, <1>7, <1>8, ConnectorMoves

LEMMA PollPutsKeep == ASSUME IInv, PutGone \/ PutNew PROVE IInv'
<1>1. /\ poll \in Polls /\ poll.at \in Nat /\ poll.at <= now /\ now' = now /\ now \in Nat /\ poll.passing \subseteq admitted
      /\ UNCHANGED <<clock, epoch, known, admitted, heard, unseen, consumer, tables, started, used>>
  BY DEF IInv, ClockOK, PollOK, Polls, PutGone, PutNew, clock
<1>2. PICK a \in Alerts, x \in Items :
         /\ x.at = poll.at /\ Put(x)
         /\ poll' = [poll EXCEPT !.gone = @ \ {a}] \/ poll' = [poll EXCEPT !.new = @ \ {a}]
  <2>1. CASE PutGone
    <3>1. PICK a \in poll.gone :
             /\ Put(ResolvedItem(a, poll.at, poll.at)) /\ poll' = [poll EXCEPT !.gone = @ \ {a}]
      BY <2>1 DEF PutGone
    <3>2. a \in Alerts  BY <1>1 DEF Polls
    <3>3. QED  BY <1>1, <3>1, <3>2, ResolvedIsItem
  <2>2. CASE PutNew
    <3>1. PICK a \in poll.new : Put(FiringItem(a, poll.at)) /\ poll' = [poll EXCEPT !.new = @ \ {a}]
      BY <2>2 DEF PutNew
    <3>2. a \in Alerts  BY <1>1 DEF Polls
    <3>3. QED  BY <1>1, <3>1, <3>2, FiringIsItem
  <2>3. QED  BY <2>1, <2>2
<1>3. BufferOK' /\ emitted' \subseteq [item : Items, since : Nat]
  BY <1>1, <1>2, PutTakes DEF IInv
<1>4. poll' \in Polls /\ poll'.at = poll.at /\ poll'.passing = poll.passing
  BY <1>1, <1>2 DEF Polls
<1>5. PollOK'  BY <1>1, <1>3, <1>4 DEF IInv, PollOK
<1>6. UsedOK' /\ UNCHANGED alert  BY <1>1, UsedStays DEF IInv, clock
<1>7. QED  BY <1>1, <1>3, <1>5, <1>6, ConnectorMoves

LEMMA PutHeartbeatKeeps == ASSUME IInv, PutHeartbeat PROVE IInv'
<1>1. /\ poll \in Polls /\ poll.at \in Nat /\ poll.at <= now /\ now' = now /\ now \in Nat /\ poll.passing \subseteq admitted
      /\ UNCHANGED <<alert, epoch, admitted, emitted, unseen, consumer, tables, started, used>>
  BY DEF IInv, ClockOK, PollOK, Polls, PutHeartbeat, clock
<1>2. PICK x \in Items : x = [kind |-> "ok", at |-> poll.at] /\ x.at = poll.at
  BY <1>1, HeartbeatsAreItems
<1>3. Buffered(<<x>>)  BY <1>2 DEF PutHeartbeat
<1>4. BufferOK'
  <2>1. PICK n \in Nat : n = now /\ n = now' /\ x.at <= n  BY <1>1, <1>2
  <2>2. PICK items \in Seq(Items) : Buffered(items) /\ \A i \in 1 .. Len(items) : items[i].at <= n
    BY <1>3, <2>1, OneItem
  <2>3. BufferOK /\ n >= now  BY <2>1 DEF IInv
  <2>4. QED  BY <1>1, <2>1, <2>2, <2>3, BufferTakes
<1>5. PollOK'  BY <1>1 DEF IInv, PollOK, PutHeartbeat
<1>6. UsedOK'  BY <1>1, UsedStays DEF IInv
<1>7. QED  BY <1>1, <1>4, <1>5, <1>6, ConnectorMoves

LEMMA WebhookKeeps == ASSUME IInv, NEW a \in Alerts, Webhook(a) PROVE IInv'
<1>1. PICK n \in Nat : n = now' /\ n >= now  BY LaterIsLater DEF IInv, Webhook
<1>2. /\ UNCHANGED <<alert, epoch, known, poll, heard, unseen, consumer, tables, started>>
      /\ admitted' = admitted \cup {a}
  BY DEF Webhook
<1>3. PICK x \in Items : x.at = n /\ Put(x)
  <2>1. CASE Put(FiringItem(a, now'))  BY <1>1, <2>1, FiringIsItem
  <2>2. CASE Put(ResolvedItem(a, now', alert[a].ended))
    <3>1. alert[a].ended \in Nat  BY DEF IInv, ClockOK
    <3>2. QED  BY <1>1, <2>2, <3>1, ResolvedIsItem
  <2>3. QED  BY <2>1, <2>2 DEF Webhook
<1>4. BufferOK' /\ emitted' \subseteq [item : Items, since : Nat]
  BY <1>1, <1>2, <1>3, PutTakes DEF IInv, ClockOK
<1>5. PollOK'  BY <1>1, <1>2, <1>4 DEF IInv, ClockOK, PollOK, Polls
<1>6. UsedOK'  BY Using, ConstantsAssumption DEF IInv, Webhook
<1>7. QED  BY <1>1, <1>2, <1>4, <1>5, <1>6, ConnectorMoves

LEMMA RestartKeeps == ASSUME IInv, Restart PROVE IInv'
<1>1. now' = now /\ now \in Nat /\ UNCHANGED <<alert, heard, emitted, unseen, consumer, tables, started>>
  BY DEF IInv, ClockOK, Restart, clock
<1>2. BufferOK'  BY ConstantsAssumption DEF IInv, BufferOK, Restart
<1>3. PollOK'  BY <1>1 DEF IInv, PollOK, Restart
<1>4. UsedOK'  BY Using, ConstantsAssumption DEF IInv, Restart
<1>5. QED  BY <1>1, <1>2, <1>3, <1>4, ConnectorMoves

------------------------------------------------------------------------------
(* The consumer. *)

\* A step of the consumer.
LEMMA ConsumerMoves ==
    ASSUME IInv, now' \in Nat, now' >= now, UNCHANGED <<alert, connector>>,
           ConsumerOK', TablesOK', DiagnosesOK', UsedOK'
    PROVE  IInv'
  BY ConnectorStays DEF IInv

\* What the consumer is served: the items after its cursor, or the oldest.
LEMMA ServedItems ==
    ASSUME BufferOK, cursor \in Cursors \cup {NoCursor}
    PROVE  /\ Served \in Seq(Items) /\ ServedAfter \in Nat /\ ServedAfter >= evicted
           /\ ServedAfter + Len(Served) <= evicted + Len(buffer) \/ Len(Served) = 0
           /\ \A i \in 1 .. Len(Served) :
                 /\ ServedAfter - evicted + i \in 1 .. Len(buffer)
                 /\ Served[i] = buffer[ServedAfter - evicted + i]
<1>1. evicted \in Nat /\ buffer \in Seq(Items) /\ Len(buffer) \in Nat /\ PageLimit \in Nat
  BY LenProperties, ConstantsAssumption DEF BufferOK
<1>2. ServedAfter \in Nat /\ ServedAfter >= evicted
  BY <1>1 DEF ServedAfter, Resumes, Cursors
<1>3. PICK d \in Nat : d = ServedAfter - evicted  BY <1>1, <1>2
<1> DEFINE rest == SubSeq(buffer, d + 1, Len(buffer))
           count == IF Len(rest) > PageLimit THEN PageLimit ELSE Len(rest)
<1>4. \A i \in d + 1 .. Len(buffer) : i \in 1 .. Len(buffer) /\ buffer[i] \in Items
  BY <1>1, ElementOfSeq
<1>5. /\ rest \in Seq(Items) /\ Len(rest) = IF d + 1 <= Len(buffer) THEN Len(buffer) - (d + 1) + 1 ELSE 0
      /\ \A i \in 1 .. Len(buffer) - (d + 1) + 1 : rest[i] = buffer[d + 1 + i - 1]
  BY <1>1, <1>4, SubSeqProperties
<1>6. Len(rest) \in Nat /\ (Len(rest) # 0 => Len(rest) + d = Len(buffer))  BY <1>1, <1>5
<1>7. \A i \in 1 .. Len(rest) : rest[i] \in Items /\ d + i \in 1 .. Len(buffer) /\ rest[i] = buffer[d + i]
  <2> SUFFICES ASSUME NEW i \in 1 .. Len(rest)
               PROVE  rest[i] \in Items /\ d + i \in 1 .. Len(buffer) /\ rest[i] = buffer[d + i]
    OBVIOUS
  <2>1. d + 1 + i - 1 = d + i /\ i \in 1 .. Len(buffer) - (d + 1) + 1 /\ d + i \in 1 .. Len(buffer)
    BY <1>1, <1>5, <1>6
  <2>2. rest[i] = buffer[d + i]  BY <1>5, <2>1
  <2>3. QED  BY <1>5, <2>1, <2>2, ElementOfSeq
<1>8. Served = SubSeq(rest, 1, count)  BY <1>3 DEF Served
<1> HIDE DEF rest
<1>9. count \in Nat /\ count <= Len(rest)  BY <1>1, <1>6
<1> HIDE DEF count
<1>10. /\ SubSeq(rest, 1, count) \in Seq(Items)
       /\ Len(SubSeq(rest, 1, count)) = IF 1 <= count THEN count - 1 + 1 ELSE 0
       /\ \A i \in 1 .. count - 1 + 1 : SubSeq(rest, 1, count)[i] = rest[1 + i - 1]
  <2>1. \A i \in 1 .. count : rest[i] \in Items  BY <1>6, <1>7, <1>9
  <2>2. QED  BY <1>9, <2>1, SubSeqProperties
<1>11. Served \in Seq(Items) /\ Len(Served) = count /\ \A i \in 1 .. count : Served[i] = rest[i]
  <2>1. \A i \in 1 .. count : 1 + i - 1 = i /\ i \in 1 .. count - 1 + 1  BY <1>9
  <2>2. QED  BY <1>8, <1>9, <1>10, <2>1
<1>12. \A i \in 1 .. Len(Served) : d + i \in 1 .. Len(buffer) /\ Served[i] = buffer[d + i]
  BY <1>6, <1>7, <1>9, <1>11
<1>13. ServedAfter + Len(Served) <= evicted + Len(buffer) \/ Len(Served) = 0
  BY <1>1, <1>2, <1>3, <1>6, <1>9, <1>11
<1>14. QED  BY <1>2, <1>3, <1>11, <1>12, <1>13

LEMMA ReadKeeps == ASSUME IInv, Read PROVE IInv'
<1>1. PICK n \in Nat : n = now' /\ n >= now  BY LaterIsLater DEF IInv, ClockOK, Read
<1>2. UNCHANGED <<alert, connector, cursor, outcome, tables, started, used>>  BY DEF Read
<1>3. PICK served \in Seq(Items) : served = Served /\ \A i \in 1 .. Len(served) : served[i].at <= n
  <2>1. Served \in Seq(Items)  BY ServedItems DEF IInv, ConsumerOK
  <2>2. ASSUME NEW i \in 1 .. Len(Served) PROVE Served[i].at <= now /\ Served[i] \in Items
    <3>1. PICK j \in 1 .. Len(buffer) : Served[i] = buffer[j]
      BY ServedItems DEF IInv, ConsumerOK
    <3>2. QED  BY <2>1, <2>2, <3>1, ElementOfSeq DEF IInv, BufferOK
  <2>3. \A x \in Items : x.at \in Nat  BY DEF Items
  <2>4. QED  BY <1>1, <2>1, <2>2, <2>3 DEF IInv, ClockOK
<1>4. page' \in Seq(Items) /\ \A i \in 1 .. Len(page') : page'[i].at <= n
  <2>1. CASE page' = <<[kind |-> "gap", at |-> now']>> \o served
    <3>1. PICK x \in Items : x = [kind |-> "gap", at |-> now'] /\ x.at = n
      BY <1>1, HeartbeatsAreItems
    <3>2. page' = <<x>> \o served /\ <<x>> \in Seq(Items) /\ Len(<<x>>) = 1 /\ <<x>>[1] = x
      BY <2>1, <3>1
    <3>3. /\ page' \in Seq(Items) /\ Len(page') = 1 + Len(served) /\ Len(served) \in Nat
          /\ \A i \in 1 .. 1 + Len(served) : page'[i] = IF i <= 1 THEN <<x>>[i] ELSE served[i - 1]
      BY <3>2, ConcatProperties, LenProperties
    <3>4. \A i \in 1 .. 1 + Len(served) : page'[i].at <= n  BY <1>3, <3>1, <3>2, <3>3
    <3>5. QED  BY <3>3, <3>4
  <2>2. CASE page' = served  BY <1>3, <2>2
  <2>3. QED  BY <1>3, <2>1, <2>2 DEF Read
<1>5. after' \in Cursors
  <2>1. ServedAfter + Len(Served) \in Nat
    BY ServedItems, LenProperties DEF IInv, ConsumerOK
  <2>2. QED  BY <2>1 DEF Read, Cursors, IInv, BufferOK
<1>6. ConsumerOK'  BY <1>1, <1>2, <1>4, <1>5 DEF IInv, ConsumerOK
<1>7. TablesOK' /\ DiagnosesOK' /\ UsedOK'
  BY <1>1, <1>2, TablesStay, DiagnosesStay, UsedStays DEF IInv, ClockOK, tables
<1>8. QED  BY <1>1, <1>2, <1>6, <1>7, ConsumerMoves

LEMMA ConnectorLostKeeps == ASSUME IInv, ConnectorLost PROVE IInv' /\ Grows
<1>1. PICK n \in Nat : n = now' /\ n > now  BY LaterIsLater DEF IInv, ClockOK, ConnectorLost, Stamped
<1>2. UNCHANGED <<alert, connector, consumer, row, started>>  BY DEF ConnectorLost
<1>3. RecordFailure(n) \/ UNCHANGED <<segments, recorded>>  BY <1>1 DEF ConnectorLost
<1>4. SegmentsOK /\ recorded \in Nat /\ recorded <= n /\ recorded <= now
  BY <1>1 DEF IInv, ClockOK, TablesOK, SegmentsOK
<1>5. SegmentsOK' /\ Grows /\ recorded' <= n  BY <1>3, <1>4, FailureRecorded, NothingRecorded
<1>6. TablesOK'  BY <1>1, <1>2, <1>5 DEF IInv, TablesOK
<1>7. ConsumerOK' /\ DiagnosesOK' /\ UsedOK'
  BY <1>1, <1>2, ConsumerStays, DiagnosesStay, Using, ConstantsAssumption
  DEF IInv, ClockOK, ConnectorLost, consumer
<1>8. now' \in Nat /\ now' >= now  BY <1>1 DEF IInv, ClockOK
<1>9. QED  BY <1>2, <1>5, <1>6, <1>7, <1>8, ConsumerMoves

LEMMA NextItem ==
    ASSUME ConsumerOK, page # <<>>, page' = Tail(page), UNCHANGED <<now, cursor, after>>,
           outcome' \subseteq Alerts \X Triggers
    PROVE  /\ ConsumerOK'
           /\ Head(page) \in Items /\ Head(page).at <= now
           /\ Head(page).at \in Nat
           /\ Head(page).kind \in {"firing", "resolved"} =>
                 Head(page).alert \in Alerts /\ Head(page).ended \in Nat
<1>1. page \in Seq(Items) /\ Len(page) \in Nat /\ Len(page) # 0 /\ Head(page) = page[1]
  BY EmptySeq, LenProperties DEF ConsumerOK
<1>2. /\ Head(page) \in Items /\ page' \in Seq(Items) /\ Len(page') = Len(page) - 1
      /\ \A i \in 1 .. Len(page') : page'[i] = page[i + 1]
  BY <1>1, HeadTailProperties
<1>3. 1 \in 1 .. Len(page) /\ \A i \in 1 .. Len(page') : i + 1 \in 1 .. Len(page)  BY <1>1, <1>2
<1>4. Head(page).at <= now  BY <1>1, <1>3 DEF ConsumerOK
<1>5. \A i \in 1 .. Len(page') : page'[i].at <= now  BY <1>2, <1>3 DEF ConsumerOK
<1>6. ConsumerOK'  BY <1>2, <1>5 DEF ConsumerOK
<1>7. \A x \in Items : x.at \in Nat /\ (x.kind \in {"firing", "resolved"} => x.alert \in Alerts /\ x.ended \in Nat)
  BY DEF Items
<1>8. QED  BY <1>2, <1>4, <1>6, <1>7

\* An occurrence is stored or ends, or nothing happens to the alerts table.
RowStep ==
    \/ row' = row
    \/ \E a \in Alerts, state \in {"FIRING", "RESOLVED"} :
          row[a] = "ABSENT" /\ row' = [row EXCEPT ![a] = state]
    \/ \E a \in Alerts : row[a] = "FIRING" /\ row' = [row EXCEPT ![a] = "RESOLVED"]

\* One change of one row, reported as what it is.
LEMMA RowChanges ==
    ASSUME DiagnosesOK, row \in [Alerts -> {"ABSENT", "FIRING", "RESOLVED"}],
           NEW a \in Alerts, NEW state \in {"FIRING", "RESOLVED"}, NEW k \in Triggers,
           row' = [row EXCEPT ![a] = state], outcome' = outcome \cup {<<a, k>>},
           ~Happened(a, k), k = "RESOLVED" => state = "RESOLVED", row[a] # "RESOLVED",
           UNCHANGED started
    PROVE  DiagnosesOK'
<1>1. \A b \in Alerts : row'[b] = IF b = a THEN state ELSE row[b]  OBVIOUS
<1>2. \A b \in Alerts, j \in Triggers : Happened(b, j) => Happened(b, j)'  BY <1>1 DEF Happened
<1>3. Happened(a, k)'  BY <1>1 DEF Happened
<1>4. \A b \in Alerts, j \in Triggers : Owed(b, j)' = IF b = a /\ j = k THEN 1 ELSE Owed(b, j)
  BY DEF Owed
<1>5. \A b \in Alerts, j \in Triggers : started[b][j] \in Nat /\ Owed(b, j) \in {0, 1}
  BY DEF DiagnosesOK, Owed
<1>6. started[a][k] = 0  BY <1>5 DEF DiagnosesOK
<1>7. \A b \in Alerts, j \in Triggers : Happened(b, j)' <=> Happened(b, j) \/ (b = a /\ Happened(b, j)')
  BY <1>1 DEF Happened
<1>8. \A b \in Alerts, j \in Triggers :
         started[b][j] + (IF b = a /\ j = k THEN 1 ELSE Owed(b, j)) <= IF Happened(b, j)' THEN 1 ELSE 0
  BY <1>2, <1>3, <1>5, <1>6 DEF DiagnosesOK
<1>9. \A b \in Alerts, j \in Triggers : started'[b][j] + Owed(b, j)' <= IF Happened(b, j)' THEN 1 ELSE 0
  BY <1>4, <1>8
<1>10. QED  BY <1>9 DEF DiagnosesOK

LEMMA IngestKeeps ==
    ASSUME DiagnosesOK, row \in [Alerts -> {"ABSENT", "FIRING", "RESOLVED"}],
           NEW x, x.alert \in Alerts, x.kind \in {"firing", "resolved"}, Ingest(x), UNCHANGED started,
           outcome \subseteq Alerts \X Triggers
    PROVE  /\ DiagnosesOK' /\ RowStep
           /\ row' \in [Alerts -> {"ABSENT", "FIRING", "RESOLVED"}]
           /\ outcome' \subseteq Alerts \X Triggers
<1>1. PICK a \in Alerts : a = x.alert  OBVIOUS
<1>2. PICK state \in {"FIRING", "RESOLVED"} : state = Status(x)  BY DEF Status
<1>3. CASE row[a] = "ABSENT" /\ row' = [row EXCEPT ![a] = state] /\ outcome' = outcome \cup {<<a, "INITIAL">>}
  <2>1. ~Happened(a, "INITIAL") /\ "INITIAL" \in Triggers  BY <1>3 DEF Happened, Triggers
  <2>2. DiagnosesOK'  BY <1>3, <2>1, RowChanges
  <2>3. RowStep  BY <1>3 DEF RowStep
  <2>4. row' \in [Alerts -> {"ABSENT", "FIRING", "RESOLVED"}]  BY <1>3
  <2>5. outcome' \subseteq Alerts \X Triggers  BY <1>3, <2>1
  <2>6. QED  BY <2>2, <2>3, <2>4, <2>5
<1>4. CASE row[a] = "FIRING" /\ row' = [row EXCEPT ![a] = "RESOLVED"] /\ outcome' = outcome \cup {<<a, "RESOLVED">>}
  <2>1. ~Happened(a, "RESOLVED") /\ "RESOLVED" \in Triggers  BY <1>4 DEF Happened, Triggers
  <2>2. DiagnosesOK'  BY <1>4, <2>1, RowChanges
  <2>3. RowStep  BY <1>4 DEF RowStep
  <2>4. row' \in [Alerts -> {"ABSENT", "FIRING", "RESOLVED"}]  BY <1>4
  <2>5. outcome' \subseteq Alerts \X Triggers  BY <1>4, <2>1
  <2>6. QED  BY <2>2, <2>3, <2>4, <2>5
<1>5. CASE UNCHANGED <<row, outcome>>
  BY <1>5, DiagnosesStay DEF RowStep
<1>6. QED  BY <1>1, <1>2, <1>3, <1>4, <1>5 DEF Ingest

LEMMA ApplyOccurrenceKeeps == ASSUME IInv, ApplyOccurrence PROVE IInv' /\ RowStep
<1>1. /\ page # <<>> /\ page' = Tail(page) /\ Head(page).kind \in {"firing", "resolved"}
      /\ UNCHANGED <<clock, connector, cursor, after, segments, recorded, started, used>>
  BY DEF ApplyOccurrence, Apply
<1>2. now' = now /\ now \in Nat /\ UNCHANGED alert  BY <1>1 DEF IInv, ClockOK, clock
<1>3. PICK x : x = Head(page)  OBVIOUS
<1>4. page \in Seq(Items) /\ Head(page) \in Items
  BY <1>1, HeadTailProperties DEF IInv, ConsumerOK
<1>5. x.alert \in Alerts  BY <1>1, <1>3, <1>4 DEF Items
<1>6. /\ DiagnosesOK' /\ RowStep
      /\ row' \in [Alerts -> {"ABSENT", "FIRING", "RESOLVED"}]
      /\ outcome' \subseteq Alerts \X Triggers
  <2>1. DiagnosesOK /\ row \in [Alerts -> {"ABSENT", "FIRING", "RESOLVED"}]
        /\ outcome \subseteq Alerts \X Triggers
    BY DEF IInv, TablesOK, ConsumerOK
  <2>2. CASE Ingest(x)  BY <1>1, <1>3, <1>5, <2>1, <2>2, IngestKeeps
  <2>3. CASE UNCHANGED <<row, outcome>>  BY <1>1, <2>1, <2>3, DiagnosesStay DEF RowStep
  <2>4. QED  BY <1>3, <2>2, <2>3 DEF ApplyOccurrence
<1>7. ConsumerOK'  BY <1>1, <1>2, <1>6, NextItem DEF IInv
<1>8. TablesOK'  BY <1>1, <1>2, <1>6, NothingRecorded DEF IInv, TablesOK
<1>9. UsedOK'  BY <1>1, UsedStays DEF IInv
<1>10. now' \in Nat /\ now' >= now  BY <1>2
<1>11. QED  BY <1>1, <1>2, <1>6, <1>7, <1>8, <1>9, <1>10, ConsumerMoves

LEMMA HeartbeatKeeps == ASSUME IInv, ApplyPoll \/ ApplyGap PROVE IInv' /\ Grows
<1>1. /\ page # <<>> /\ page' = Tail(page)
      /\ UNCHANGED <<clock, connector, cursor, after, outcome, row, started, used>>
  BY DEF ApplyPoll, ApplyGap, Apply
<1>2. now' = now /\ now \in Nat /\ UNCHANGED alert  BY <1>1 DEF IInv, ClockOK, clock
<1>3. ConsumerOK' /\ Head(page).at \in Nat /\ Head(page).at <= now
  BY <1>1, <1>2, NextItem DEF IInv, ConsumerOK
<1>4. PICK at \in Nat : at = Head(page).at /\ at <= now  BY <1>3
<1>5. \/ UNCHANGED <<segments, recorded>>
      \/ at > recorded /\ (RecordSuccess(at) \/ RecordFailure(at))
  BY <1>4 DEF ApplyPoll, ApplyGap
<1>6. SegmentsOK /\ recorded \in Nat /\ recorded <= now  BY DEF IInv, TablesOK, SegmentsOK
<1>7. SegmentsOK' /\ Grows /\ recorded' <= now
  <2>1. CASE UNCHANGED <<segments, recorded>>  BY <1>6, <2>1, NothingRecorded
  <2>2. CASE at > recorded /\ RecordSuccess(at)  BY <1>4, <1>6, <2>2, SuccessRecorded
  <2>3. CASE at > recorded /\ RecordFailure(at)
    <3>1. at >= recorded  BY <1>6, <2>3
    <3>2. QED  BY <1>4, <1>6, <2>3, <3>1, FailureRecorded
  <2>4. QED  BY <1>5, <2>1, <2>2, <2>3
<1>8. TablesOK'  BY <1>1, <1>2, <1>7 DEF IInv, TablesOK
<1>9. DiagnosesOK' /\ UsedOK'  BY <1>1, DiagnosesStay, UsedStays DEF IInv
<1>10. now' \in Nat /\ now' >= now  BY <1>2
<1>11. QED  BY <1>1, <1>2, <1>3, <1>7, <1>8, <1>9, <1>10, ConsumerMoves

LEMMA FinishKeeps == ASSUME IInv, Finish PROVE IInv'
<1>1. UNCHANGED <<clock, connector, page, tables, used>> /\ cursor' = after /\ after' = NoCursor /\ outcome' = {}
  BY DEF Finish
<1>2. now' = now /\ now \in Nat /\ UNCHANGED alert  BY <1>1 DEF IInv, ClockOK, clock
<1>3. ConsumerOK'  BY <1>1, <1>2 DEF IInv, ConsumerOK
<1>4. DiagnosesOK'
  <2>1. \A a \in Alerts, k \in Triggers : started[a][k] \in Nat /\ Owed(a, k) \in Nat
    BY DEF IInv, DiagnosesOK, Owed
  <2>2. started' = [a \in Alerts |-> [k \in Triggers |-> started[a][k] + Owed(a, k)]]
    BY DEF Finish, Owed
  <2>3. \A a \in Alerts, k \in Triggers : Owed(a, k)' = 0 /\ Happened(a, k)' = Happened(a, k)
    BY <1>1 DEF Owed, Happened, tables
  <2>4. started' \in [Alerts -> [Triggers -> Nat]]  BY <2>1, <2>2
  <2>5. \A a \in Alerts, k \in Triggers : started'[a][k] = started[a][k] + Owed(a, k)  BY <2>2
  <2>6. QED  BY <2>1, <2>3, <2>4, <2>5 DEF IInv, DiagnosesOK
<1>5. now' \in Nat /\ now' >= now  BY <1>2
<1>6. TablesOK' /\ UsedOK'  BY <1>1, <1>2, <1>5, TablesStay, UsedStays DEF IInv
<1>7. QED  BY <1>1, <1>2, <1>3, <1>4, <1>5, <1>6, ConsumerMoves

LEMMA GiveUpKeeps == ASSUME IInv, Abandon \/ Crash PROVE IInv'
<1>1. /\ UNCHANGED <<clock, connector, tables, started>> /\ page' = <<>> /\ after' = NoCursor /\ outcome' = {}
      /\ cursor' \in {cursor, NoCursor} /\ Use("crashes", MaxCrashes)
  BY DEF Abandon, Crash
<1>2. now' = now /\ now \in Nat /\ UNCHANGED alert  BY <1>1 DEF IInv, ClockOK, clock
<1>3. ConsumerOK'  BY <1>1 DEF IInv, ConsumerOK
<1>4. DiagnosesOK'
  <2>1. \A a \in Alerts, k \in Triggers : started[a][k] \in Nat /\ Owed(a, k) \in {0, 1}
    BY DEF IInv, DiagnosesOK, Owed
  <2>2. \A a \in Alerts, k \in Triggers : Owed(a, k)' = 0 /\ Happened(a, k)' = Happened(a, k)
    BY <1>1 DEF Owed, Happened, tables
  <2>3. QED  BY <1>1, <2>1, <2>2 DEF IInv, DiagnosesOK
<1>5. now' \in Nat /\ now' >= now  BY <1>2
<1>6. TablesOK' /\ UsedOK'  BY <1>1, <1>2, <1>5, TablesStay, Using, ConstantsAssumption DEF IInv
<1>7. QED  BY <1>1, <1>2, <1>3, <1>4, <1>5, <1>6, ConsumerMoves

------------------------------------------------------------------------------
(* Every step. *)

\* A step that leaves the tables alone.
LEMMA TablesAlone == ASSUME IInv, UNCHANGED tables PROVE Grows /\ RowStep
<1>1. SegmentsOK /\ UNCHANGED <<segments, recorded>>  BY DEF IInv, TablesOK, tables
<1>2. Grows  BY <1>1, NothingRecorded
<1>3. RowStep  BY DEF tables, RowStep
<1>4. QED  BY <1>2, <1>3

LEMMA OutsideKeeps == ASSUME IInv, Alertmanager \/ Connector PROVE IInv' /\ Grows /\ RowStep
<1>1. UNCHANGED tables
  BY DEF Alertmanager, Connector, Begin, End, Webhook, Poll, PollFails, PutGone, PutNew, PutHeartbeat, Restart
<1>2. IInv'
  BY BeginEndKeep, WebhookKeeps, PollKeeps, PollFailsKeeps, PollPutsKeep, PutHeartbeatKeeps, RestartKeeps
  DEF Alertmanager, Connector
<1>3. QED  BY <1>1, <1>2, TablesAlone

LEMMA ConsumerKeeps == ASSUME IInv, Consumer PROVE IInv' /\ Grows /\ RowStep
<1>1. CASE Read \/ Finish \/ Abandon \/ Crash
  <2>1. UNCHANGED tables  BY <1>1 DEF Read, Finish, Abandon, Crash
  <2>2. IInv'  BY <1>1, ReadKeeps, FinishKeeps, GiveUpKeeps
  <2>3. QED  BY <2>1, <2>2, TablesAlone
<1>2. CASE ConnectorLost \/ ApplyPoll \/ ApplyGap
  <2>1. RowStep  BY <1>2 DEF ConnectorLost, ApplyPoll, ApplyGap, RowStep
  <2>2. QED  BY <1>2, <2>1, ConnectorLostKeeps, HeartbeatKeeps
<1>3. CASE ApplyOccurrence
  <2>1. SegmentsOK /\ UNCHANGED <<segments, recorded>>  BY <1>3 DEF IInv, TablesOK, ApplyOccurrence
  <2>2. QED  BY <1>3, <2>1, ApplyOccurrenceKeeps, NothingRecorded
<1>4. QED  BY <1>1, <1>2, <1>3 DEF Consumer

LEMMA NextKeeps == ASSUME IInv, [Next]_vars PROVE IInv' /\ Grows /\ RowStep
<1>1. CASE UNCHANGED vars
  <2>1. UNCHANGED <<connector, consumer, tables, started, used>> /\ UNCHANGED <<now, alert>>
    BY <1>1 DEF vars, clock
  <2>2. now' \in Nat /\ now' >= now  BY <2>1 DEF IInv, ClockOK
  <2>3. BufferOK' /\ PollOK' /\ ClockOK'  BY <2>1, <2>2, ConnectorStays
  <2>4. ConsumerOK' /\ TablesOK' /\ DiagnosesOK' /\ UsedOK'
    BY <2>1, <2>2, ControlPlaneStays, UsedStays DEF IInv
  <2>5. IInv'  BY <2>3, <2>4 DEF IInv
  <2>6. QED  BY <2>1, <2>5, TablesAlone
<1>2. CASE Next  BY <1>2, OutsideKeeps, ConsumerKeeps DEF Next
<1>3. QED  BY <1>1, <1>2

\* Whatever Alertmanager, the connector and the consumer do, in any order, IInv holds.
THEOREM Invariance == Spec => []IInv
<1>1. Init => IInv  BY InitHolds
<1>2. IInv /\ [Next]_vars => IInv'  BY NextKeeps
<1>3. QED  BY <1>1, <1>2, PTL DEF Spec

------------------------------------------------------------------------------
(* What follows. *)

\* What is buffered, read and recorded is of the shapes the two programs exchange, and the buffer
\* never exceeds its length (streams.py, StreamBuffer).
THEOREM ChannelTypeCorrect == Spec => []TypeOK
<1>1. ASSUME IInv PROVE TypeOK
  <2>1. poll = NoPoll \/ poll \in [at : Nat, passing : SUBSET Alerts, gone : SUBSET Alerts, new : SUBSET Alerts]
    BY <1>1 DEF IInv, PollOK, Polls
  <2>2. /\ segments \in Seq(Segments) /\ recorded \in Nat
        /\ row \in [Alerts -> {"ABSENT", "FIRING", "RESOLVED"}]
    BY <1>1 DEF IInv, TablesOK, SegmentsOK
  <2>3. QED  BY <1>1, <2>1, <2>2 DEF IInv, ClockOK, BufferOK, PollOK, ConsumerOK, DiagnosesOK, UsedOK, TypeOK
<1>2. QED  BY <1>1, Invariance, PTL

\* Whatever polls are replayed, lost or overtaken, segments are disjoint, in the order they were
\* observed, and only the last one is open (AlertCoverageRepository under connector_intake.py).
THEOREM SegmentsStayApart == Spec => []SegmentsApart
<1>1. IInv => SegmentsApart  BY DEF IInv, TablesOK, SegmentsOK
<1>2. QED  BY <1>1, Invariance, PTL

\* What coverage has claimed is never taken back, and a segment is only extended by a poll later
\* than everything recorded (record_success and record_failure).
THEOREM CoverageIsNotRewritten == Spec => CoverageOnlyGrows
<1>1. IInv /\ [Next]_vars => Grows  BY NextKeeps
<1>2. QED  BY <1>1, Invariance, PTL DEF Spec, CoverageOnlyGrows, Grows

\* Over all replays, crashes and restarts, no change of an incident starts two diagnoses
\* (AlertStreamConsumer.step: the changes of a page are dispatched once it is applied).
THEOREM NothingDiagnosedTwice == Spec => []DiagnosedOnce
<1>1. ASSUME IInv, NEW a \in Alerts, NEW k \in Triggers PROVE started[a][k] <= 1
  <2>1. started[a][k] \in Nat /\ Owed(a, k) \in {0, 1}  BY <1>1 DEF IInv, DiagnosesOK, Owed
  <2>2. started[a][k] + Owed(a, k) <= IF Happened(a, k) THEN 1 ELSE 0  BY <1>1 DEF IInv, DiagnosesOK
  <2>3. QED  BY <2>1, <2>2
<1>2. IInv => DiagnosedOnce  BY <1>1 DEF DiagnosedOnce
<1>3. QED  BY <1>2, Invariance, PTL

\* A change of the alerts table is one the promise of ingestion has, or none.
LEMMA RowStepPromised == ASSUME IInv, RowStep PROVE [Occurrences!Next]_Occ
<1>1. row \in [Alerts -> {"ABSENT", "FIRING", "RESOLVED"}]  BY DEF IInv, TablesOK
<1>2. \A a \in Alerts : a # 0  BY ConstantsAssumption
<1>3. CASE row' = row  BY <1>3 DEF Occ
<1>4. ASSUME NEW a \in Alerts, NEW state \in {"FIRING", "RESOLVED"},
             row[a] = "ABSENT", row' = [row EXCEPT ![a] = state]
      PROVE  Occurrences!Open(a, state)
  <2>1. Occ[a] = [incident |-> 0, state |-> "ABSENT"]  BY <1>4 DEF Occ
  <2>2. ~Occurrences!Stored(a)  BY <2>1 DEF Occurrences!Stored, Occurrences!Absent
  <2>3. \A b \in Alerts : row'[b] = IF b = a THEN state ELSE row[b]  BY <1>1, <1>4
  <2>4. Occ' = [Occ EXCEPT ![a] = [incident |-> a, state |-> state]]  BY <2>3 DEF Occ
  <2>5. QED  BY <2>2, <2>4 DEF Occurrences!Open
<1>5. ASSUME NEW a \in Alerts, row[a] = "FIRING", row' = [row EXCEPT ![a] = "RESOLVED"]
      PROVE  Occurrences!End(a)
  <2>1. Occ[a] = [incident |-> a, state |-> "FIRING"]  BY <1>5 DEF Occ
  <2>2. Occurrences!Stored(a)  BY <1>2, <2>1 DEF Occurrences!Stored, Occurrences!Absent
  <2>3. \A b \in Alerts : row'[b] = IF b = a THEN "RESOLVED" ELSE row[b]  BY <1>1, <1>5
  <2>4. Occ' = [Occ EXCEPT ![a] = [incident |-> a, state |-> "RESOLVED"]]  BY <2>3 DEF Occ
  <2>5. QED  BY <2>1, <2>2, <2>4 DEF Occurrences!End
<1>6. QED  BY <1>3, <1>4, <1>5 DEF RowStep, Occurrences!Next

\* Replay, reordering and loss between the cluster and the control plane leave the promise of
\* ingestion intact: an occurrence is stored once, ends once, and is never reopened or moved.
THEOREM ChannelKeepsPromise == Spec => ImplementsOccurrences
<1>1. Init => Occurrences!Init  BY DEF Init, Occurrences!Init, Occurrences!Absent, Occ
<1>2. IInv /\ [Next]_vars => [Occurrences!Next]_Occ  BY NextKeeps, RowStepPromised
<1>3. QED  BY <1>1, <1>2, Invariance, PTL DEF Spec, ImplementsOccurrences, Occurrences!Spec

------------------------------------------------------------------------------
(* Coverage can be believed.  As long as the consumer gave no page up and was not restarted,            *)
(* no occurrence that was reported between two polls of one segment is lost, and no failed poll lies    *)
(* inside a segment: for buffers and pages of any length, any number of webhooks, failed polls and      *)
(* reads, and restarts of the connector.  (The run channel_silent_loss has the counterexample with a    *)
(* restart of the control plane.)                                                                       *)

------------------------------------------------------------------------------
(* The invariant.  An item x that must not be lost is put after the poll at time s and before any *)
(* later one.  Until x is applied no segment goes on past s: either x is ahead of the consumer,    *)
(* with no later poll before it; or a gap is; or no segment that was open at s is open any more.   *)

\* The cursor the next page is read at.
Position == IF Reading THEN after ELSE cursor

\* The next page will go on there, without a gap.
Follows == Position # NoCursor /\ Position.epoch = epoch /\ Position.seq >= evicted

\* The polls up to item k of a sequence are not later than s, and those from there on are.
UpTo(items, k, s) == \A i \in 1 .. Len(items) : i < k /\ items[i].kind = "ok" => items[i].at <= s
From(items, k, s) == \A i \in 1 .. Len(items) : i > k /\ items[i].kind = "ok" => items[i].at > s
Splits(items, k, x, s) == items[k] = x /\ UpTo(items, k, s) /\ From(items, k, s)

\* Item x is in the buffer or was dropped, and everything up to it with it.
Buffers(x, s) == From(buffer, 0, s) \/ \E j \in 1 .. Len(buffer) : Splits(buffer, j, x, s)

\* No segment goes on past s, and what is recorded past s left none of before open.
Severed(s) == \A n \in DOMAIN segments : segments[n].open => segments[n].start > s
Uncovered(s) == ~Spans(s) /\ (recorded > s => Severed(s))

\* Where x is while it is not applied: in the page, in front of the consumer, or lost to it.
UnreadLater(s) ==
    Follows => \A i \in 1 .. Len(buffer) :
        evicted + i > Position.seq /\ buffer[i].kind = "ok" => buffer[i].at > s
InPage(x, s) == (\E k \in 1 .. Len(page) : Splits(page, k, x, s)) /\ UnreadLater(s)
InFront(x, s) ==
    /\ UpTo(page, Len(page) + 1, s)
    /\ Follows => \E j \in 1 .. Len(buffer) : evicted + j > Position.seq /\ Splits(buffer, j, x, s)
Parted(s) ==
    /\ Severed(s) \/ (page # <<>> /\ page[1].kind = "gap" /\ page[1].at > s)
    /\ From(page, 0, s) /\ UnreadLater(s)

Reached(x) ==
    /\ x.kind \in {"firing", "resolved"}
    /\ row[x.alert] \in {"RESOLVED", Status(x)} \/ (segments # <<>> /\ EndedBeforeCoverage(x))

Accounted(x, s) == Reached(x) \/ (Uncovered(s) /\ (InPage(x, s) \/ InFront(x, s) \/ Parted(s)))

\* x was put after the poll at s or a poll before it, and before any later one.
Mark(x, s) ==
    /\ s <= now /\ (poll # NoPoll => s < poll.at)
    /\ Buffers(x, s) /\ Accounted(x, s)

Failure(t) == [kind |-> "failed", at |-> t]
Marks ==
    /\ \A e \in emitted : e.item.kind \in {"firing", "resolved"} /\ Mark(e.item, e.since)
    /\ \A t \in unseen : t > 0 /\ Mark(Failure(t), t - 1)

\* Nothing was read before the first page, and the position is one of the buffer or of a run before.
PositionOK ==
    /\ ~Reading => page = <<>>
    /\ Position = NoCursor => segments = <<>>
    /\ Position # NoCursor =>
          /\ Position.epoch <= epoch
          /\ Position.epoch = epoch => Position.seq <= evicted + Len(buffer)

\* Nothing knows of a poll later than the latest that was reported.
HeardOK ==
    /\ heard <= now /\ (poll # NoPoll => heard < poll.at)
    /\ UpTo(buffer, Len(buffer) + 1, heard) /\ UpTo(page, Len(page) + 1, heard)
    /\ \A n \in DOMAIN segments : segments[n].last <= heard
    /\ recorded > heard => ~AnyOpen

CoverageInv == Marks /\ PositionOK /\ HeardOK

CInv == IInv /\ CoverageInv

------------------------------------------------------------------------------
(* The buffer. *)

\* What is kept of the buffer and of what came, by position.
LEMMA BufferedShifts ==
    ASSUME BufferOK, NEW items \in Seq(Items), Buffered(items)
    PROVE  \E d \in Nat :
              /\ evicted' = evicted + d /\ d <= Len(buffer) + Len(items)
              /\ buffer' \in Seq(Items) /\ Len(buffer') = Len(buffer) + Len(items) - d
              /\ \A i \in 1 .. Len(buffer') :
                    \/ i + d \in 1 .. Len(buffer) /\ buffer'[i] = buffer[i + d]
                    \/ /\ i + d > Len(buffer) /\ i + d - Len(buffer) \in 1 .. Len(items)
                       /\ buffer'[i] = items[i + d - Len(buffer)]
<1>1. evicted \in Nat /\ buffer \in Seq(Items) /\ Len(buffer) \in Nat /\ Len(items) \in Nat
  BY LenProperties DEF BufferOK
<1>2. /\ buffer' \in Seq(Items) /\ evicted' \in Nat /\ evicted' >= evicted
      /\ evicted' + Len(buffer') = evicted + Len(buffer) + Len(items)
      /\ \A i \in 1 .. Len(buffer') :
            /\ i + (evicted' - evicted) \in 1 .. Len(buffer) + Len(items)
            /\ buffer'[i] = (buffer \o items)[i + (evicted' - evicted)]
  BY BufferedKeepsEnd DEF BufferOK
<1>4. Len(buffer') \in Nat  BY <1>2, LenProperties
<1>3. PICK d \in Nat :
         /\ d = evicted' - evicted /\ evicted' = evicted + d
         /\ Len(buffer') = Len(buffer) + Len(items) - d /\ d <= Len(buffer) + Len(items)
  <2>1. PICK a \in Nat, b \in Nat : a = evicted /\ b = evicted' /\ b >= a  BY <1>1, <1>2
  <2>2. PICK l \in Nat, m \in Nat, k \in Nat : l = Len(buffer) /\ m = Len(items) /\ k = Len(buffer')
    BY <1>1, <1>4
  <2>3. b + k = a + l + m  BY <1>2, <2>1, <2>2
  <2>4. PICK e \in Nat : b = a + e /\ e = b - a
    <3>1. b >= a  BY <2>1
    <3>2. b - a \in Nat /\ b = a + (b - a)  BY <3>1
    <3>3. QED  BY <3>2
  <2>5. k = l + m - e /\ e <= l + m  BY <2>3, <2>4
  <2>6. QED  BY <2>1, <2>2, <2>4, <2>5
<1>5. evicted' = evicted + d /\ Len(buffer') = Len(buffer) + Len(items) - d /\ d <= Len(buffer) + Len(items)
  BY <1>3
<1>6. \A j \in 1 .. Len(buffer) + Len(items) :
         (buffer \o items)[j] = IF j <= Len(buffer) THEN buffer[j] ELSE items[j - Len(buffer)]
  BY <1>1, ConcatProperties
<1>7. \A i \in 1 .. Len(buffer') : i + d \in 1 .. Len(buffer) + Len(items) /\ buffer'[i] = (buffer \o items)[i + d]
  BY <1>2, <1>3
<1>8. ASSUME NEW i \in 1 .. Len(buffer')
      PROVE  \/ i + d \in 1 .. Len(buffer) /\ buffer'[i] = buffer[i + d]
             \/ /\ i + d > Len(buffer) /\ i + d - Len(buffer) \in 1 .. Len(items)
                /\ buffer'[i] = items[i + d - Len(buffer)]
  BY <1>1, <1>4, <1>6, <1>7
<1>9. QED  BY <1>2, <1>5, <1>8

\* What x has in the buffer is kept when items come of which no poll is at s or before.
LEMMA TakenKeeps ==
    ASSUME BufferOK, NEW items \in Seq(Items), Buffered(items), NEW x, NEW s \in Nat,
           \A i \in 1 .. Len(items) : items[i].kind = "ok" => items[i].at > s,
           cursor \in Cursors \cup {NoCursor}, after \in Cursors \cup {NoCursor},
           UNCHANGED <<epoch, cursor, after>>
    PROVE  /\ Position' = Position /\ (Follows' => Follows)
           /\ Buffers(x, s) => Buffers(x, s)'
           /\ UnreadLater(s) => UnreadLater(s)'
           /\ (Follows => \E j \in 1 .. Len(buffer) : evicted + j > Position.seq /\ Splits(buffer, j, x, s))
              => (Follows => \E j \in 1 .. Len(buffer) : evicted + j > Position.seq /\ Splits(buffer, j, x, s))'
<1>1. PICK d \in Nat :
              /\ evicted' = evicted + d /\ d <= Len(buffer) + Len(items)
              /\ buffer' \in Seq(Items) /\ Len(buffer') = Len(buffer) + Len(items) - d
              /\ \A i \in 1 .. Len(buffer') :
                    \/ i + d \in 1 .. Len(buffer) /\ buffer'[i] = buffer[i + d]
                    \/ /\ i + d > Len(buffer) /\ i + d - Len(buffer) \in 1 .. Len(items)
                       /\ buffer'[i] = items[i + d - Len(buffer)]
  BY BufferedShifts
<1>2. evicted \in Nat /\ Len(buffer) \in Nat /\ Len(items) \in Nat /\ Len(buffer') \in Nat
  BY <1>1, LenProperties DEF BufferOK
<1>3. Position' = Position /\ (Position # NoCursor => Position.seq \in Nat)
  BY DEF Position, Reading, Cursors
<1>4. Follows' => Follows /\ Position.seq >= evicted + d
  BY <1>1, <1>2, <1>3 DEF Follows
<1>5. \A i \in 1 .. Len(buffer') : buffer'[i].kind = "ok" =>
         buffer'[i].at > s \/ (i + d \in 1 .. Len(buffer) /\ buffer'[i] = buffer[i + d])
  BY <1>1
<1>6. ASSUME NEW j \in 1 .. Len(buffer), Splits(buffer, j, x, s), j > d
      PROVE  j - d \in 1 .. Len(buffer') /\ Splits(buffer', j - d, x, s)
  <2>1. j - d \in 1 .. Len(buffer')  BY <1>1, <1>2, <1>6
  <2>2. buffer'[j - d] = x
    <3>1. j - d + d = j  BY <1>2
    <3>2. QED  BY <1>1, <1>2, <1>6, <2>1, <3>1 DEF Splits
  <2>3. UpTo(buffer', j - d, s)
    <3> SUFFICES ASSUME NEW i \in 1 .. Len(buffer'), i < j - d, buffer'[i].kind = "ok" PROVE buffer'[i].at <= s
      BY DEF UpTo
    <3>1. i + d < j /\ i + d \in 1 .. Len(buffer)  BY <1>2
    <3>2. buffer'[i] = buffer[i + d]  BY <1>1, <1>2, <3>1
    <3>3. QED  BY <1>6, <3>1, <3>2 DEF Splits, UpTo
  <2>4. From(buffer', j - d, s)
    <3> SUFFICES ASSUME NEW i \in 1 .. Len(buffer'), i > j - d, buffer'[i].kind = "ok" PROVE buffer'[i].at > s
      BY DEF From
    <3>1. i + d > j  BY <1>2
    <3>2. QED  BY <1>5, <1>6, <3>1 DEF Splits, From
  <2>5. QED  BY <2>1, <2>2, <2>3, <2>4 DEF Splits
<1>7. ASSUME Buffers(x, s) PROVE Buffers(x, s)'
  <2>1. CASE From(buffer, 0, s)
    <3>1. From(buffer', 0, s)  BY <1>2, <1>5, <2>1 DEF From
    <3>2. QED  BY <3>1 DEF Buffers
  <2>2. ASSUME NEW j \in 1 .. Len(buffer), Splits(buffer, j, x, s) PROVE Buffers(x, s)'
    <3>1. CASE j > d  BY <1>6, <2>2, <3>1 DEF Buffers
    <3>2. CASE j <= d
      <4>1. From(buffer', 0, s)
        <5> SUFFICES ASSUME NEW i \in 1 .. Len(buffer'), buffer'[i].kind = "ok" PROVE buffer'[i].at > s
          BY DEF From
        <5>1. i + d > j  BY <1>2, <3>2
        <5>2. QED  BY <1>5, <2>2, <5>1 DEF Splits, From
      <4>2. QED  BY <4>1 DEF Buffers
    <3>3. QED  BY <1>2, <3>1, <3>2
  <2>3. QED  BY <1>7, <2>1, <2>2 DEF Buffers
<1>8. ASSUME UnreadLater(s) PROVE UnreadLater(s)'
  <2> SUFFICES ASSUME Follows', NEW i \in 1 .. Len(buffer'),
                      evicted' + i > Position.seq, buffer'[i].kind = "ok"
               PROVE  buffer'[i].at > s
    BY <1>3 DEF UnreadLater
  <2>1. evicted + (i + d) > Position.seq  BY <1>1, <1>2
  <2>2. QED  BY <1>4, <1>5, <1>8, <2>1 DEF UnreadLater
<1>9. ASSUME Follows => \E j \in 1 .. Len(buffer) : evicted + j > Position.seq /\ Splits(buffer, j, x, s),
             Follows'
      PROVE  \E j \in 1 .. Len(buffer') : evicted' + j > Position.seq /\ Splits(buffer', j, x, s)
  <2>1. PICK j \in 1 .. Len(buffer) : evicted + j > Position.seq /\ Splits(buffer, j, x, s)
    BY <1>4, <1>9
  <2>2. j > d  BY <1>2, <1>3, <1>4, <1>9, <2>1 DEF Follows
  <2>3. j - d \in 1 .. Len(buffer') /\ Splits(buffer', j - d, x, s)  BY <1>6, <2>1, <2>2
  <2>4. evicted' + (j - d) > Position.seq  BY <1>1, <1>2, <2>1
  <2>5. QED  BY <2>3, <2>4
<1>10. (Follows => \E j \in 1 .. Len(buffer) : evicted + j > Position.seq /\ Splits(buffer, j, x, s))
       => (Follows => \E j \in 1 .. Len(buffer) : evicted + j > Position.seq /\ Splits(buffer, j, x, s))'
  BY <1>3, <1>9
<1>11. QED  BY <1>3, <1>4, <1>7, <1>8, <1>10

------------------------------------------------------------------------------
(* Marks while the connector works. *)

\* A mark that is kept: items come, none of them of a poll at s or before, or none at all.
LEMMA TakenMarks ==
    ASSUME CInv, NEW items \in Seq(Items), Buffered(items), NEW x, NEW s \in Nat, Mark(x, s),
           \A i \in 1 .. Len(items) : items[i].kind = "ok" => items[i].at > s,
           UNCHANGED <<epoch, consumer, tables>>, s <= now', poll' # NoPoll => s < poll'.at
    PROVE  Mark(x, s)'
<1>1. UNCHANGED <<cursor, page, after, row, segments, recorded>>  BY DEF consumer, tables
<1>2. /\ Position' = Position
      /\ Buffers(x, s)'
      /\ UnreadLater(s) => UnreadLater(s)'
      /\ (Follows => \E j \in 1 .. Len(buffer) : evicted + j > Position.seq /\ Splits(buffer, j, x, s))
         => (Follows => \E j \in 1 .. Len(buffer) : evicted + j > Position.seq /\ Splits(buffer, j, x, s))'
  <2>1. BufferOK /\ cursor \in Cursors \cup {NoCursor} /\ after \in Cursors \cup {NoCursor} /\ Buffers(x, s)
    BY DEF CInv, IInv, ConsumerOK, Mark
  <2>2. QED  BY <1>1, <2>1, TakenKeeps
<1>3. InPage(x, s) => InPage(x, s)'  BY <1>1, <1>2 DEF InPage, Splits, UpTo, From
<1>4. InFront(x, s) => InFront(x, s)'
  <2>1. UpTo(page, Len(page) + 1, s) => UpTo(page, Len(page) + 1, s)'  BY <1>1 DEF UpTo
  <2>2. QED  BY <1>2, <2>1 DEF InFront
<1>5. Parted(s) => Parted(s)'  BY <1>1, <1>2 DEF Parted, Severed, From
<1>6. Reached(x) => Reached(x)'  BY <1>1 DEF Reached, EndedBeforeCoverage, Status
<1>7. Uncovered(s) => Uncovered(s)'  BY <1>1 DEF Uncovered, Spans, Severed
<1>8. Accounted(x, s)'  BY <1>3, <1>4, <1>5, <1>6, <1>7 DEF Mark, Accounted
<1>9. QED  BY <1>2, <1>8 DEF Mark

LEMMA UntakenMarks ==
    ASSUME NEW x, NEW s \in Nat, Mark(x, s),
           UNCHANGED <<epoch, buffer, evicted, consumer, tables>>, s <= now', poll' # NoPoll => s < poll'.at
    PROVE  Mark(x, s)'
<1>1. UNCHANGED <<epoch, buffer, evicted, cursor, page, after, row, segments, recorded>>  BY DEF consumer, tables
<1>2. UNCHANGED <<Position, Follows>>  BY <1>1 DEF Position, Reading, Follows
<1>3. Buffers(x, s)'  BY <1>1 DEF Mark, Buffers, Splits, UpTo, From
<1>4. UnreadLater(s) => UnreadLater(s)'  BY <1>1, <1>2 DEF UnreadLater
<1>5. InPage(x, s) => InPage(x, s)'  BY <1>1, <1>4 DEF InPage, Splits, UpTo, From
<1>6. InFront(x, s) => InFront(x, s)'
  <2>1. UpTo(page, Len(page) + 1, s) => UpTo(page, Len(page) + 1, s)'  BY <1>1 DEF UpTo
  <2>2. QED  BY <1>1, <1>2, <2>1 DEF InFront, Splits, UpTo, From
<1>7. Parted(s) => Parted(s)'  BY <1>1, <1>4 DEF Parted, Severed, From
<1>8. Reached(x) => Reached(x)'  BY <1>1 DEF Reached, EndedBeforeCoverage, Status
<1>9. Uncovered(s) => Uncovered(s)'  BY <1>1 DEF Uncovered, Spans, Severed
<1>10. Accounted(x, s)'  BY <1>5, <1>6, <1>7, <1>8, <1>9 DEF Mark, Accounted
<1>11. QED  BY <1>3, <1>10 DEF Mark

\* A new mark: the item that comes first is put after every poll that anything knows of.
LEMMA NewMark ==
    ASSUME CInv, NEW items \in Seq(Items), Buffered(items), NEW x, NEW s \in Nat,
           Len(items) > 0, items[1] = x, \A i \in 1 .. Len(items) : items[i].kind # "ok",
           heard <= s, recorded > s => ~AnyOpen,
           UNCHANGED <<epoch, consumer, tables>>, s <= now', poll' # NoPoll => s < poll'.at
    PROVE  Mark(x, s)'
<1>1. UNCHANGED <<cursor, page, after, row, segments, recorded>>  BY DEF consumer, tables
<1>2. PICK d \in Nat :
              /\ evicted' = evicted + d /\ d <= Len(buffer) + Len(items)
              /\ buffer' \in Seq(Items) /\ Len(buffer') = Len(buffer) + Len(items) - d
              /\ \A i \in 1 .. Len(buffer') :
                    \/ i + d \in 1 .. Len(buffer) /\ buffer'[i] = buffer[i + d]
                    \/ /\ i + d > Len(buffer) /\ i + d - Len(buffer) \in 1 .. Len(items)
                       /\ buffer'[i] = items[i + d - Len(buffer)]
  BY BufferedShifts DEF CInv, IInv
<1>3. evicted \in Nat /\ Len(buffer) \in Nat /\ Len(items) \in Nat /\ Len(buffer') \in Nat /\ heard \in Nat
  BY <1>2, LenProperties DEF CInv, IInv, BufferOK, PollOK
<1>4. \A i \in 1 .. Len(buffer) : buffer[i].kind = "ok" => buffer[i].at <= s
  <2>1. \A i \in 1 .. Len(buffer) : i < Len(buffer) + 1 /\ buffer[i] \in Items
    BY <1>3, ElementOfSeq DEF CInv, IInv, BufferOK
  <2>2. \A y \in Items : y.at \in Nat  BY DEF Items
  <2>3. QED  BY <1>3, <2>1, <2>2 DEF CInv, CoverageInv, HeardOK, UpTo
<1>5. \A i \in 1 .. Len(page) : page[i].kind = "ok" => page[i].at <= s
  <2>1. Len(page) \in Nat  BY LenProperties DEF CInv, IInv, ConsumerOK
  <2>2. \A i \in 1 .. Len(page) : i < Len(page) + 1 /\ page[i] \in Items
    BY <2>1, ElementOfSeq DEF CInv, IInv, ConsumerOK
  <2>3. \A y \in Items : y.at \in Nat  BY DEF Items
  <2>4. QED  BY <1>3, <2>2, <2>3 DEF CInv, CoverageInv, HeardOK, UpTo
<1>6. ASSUME NEW i \in 1 .. Len(buffer'), buffer'[i].kind = "ok"
      PROVE  i + d <= Len(buffer) /\ buffer'[i].at <= s
  <2>1. CASE i + d \in 1 .. Len(buffer) /\ buffer'[i] = buffer[i + d]
    <3>1. i + d <= Len(buffer)  BY <1>3, <2>1
    <3>2. QED  BY <1>4, <1>6, <2>1, <3>1
  <2>2. CASE i + d - Len(buffer) \in 1 .. Len(items) /\ buffer'[i] = items[i + d - Len(buffer)]
    BY <1>6, <2>2
  <2>3. QED  BY <1>2, <2>1, <2>2
<1>7. ASSUME d <= Len(buffer)
      PROVE  Len(buffer) + 1 - d \in 1 .. Len(buffer') /\ Splits(buffer', Len(buffer) + 1 - d, x, s)
  <2>1. Len(buffer) + 1 - d \in 1 .. Len(buffer')  BY <1>2, <1>3, <1>7
  <2>2. buffer'[Len(buffer) + 1 - d] = x
    <3>1. PICK j \in 1 .. Len(buffer') : j = Len(buffer) + 1 - d  BY <2>1
    <3>2. j + d = Len(buffer) + 1 /\ j + d - Len(buffer) = 1 /\ j + d \notin 1 .. Len(buffer)  BY <1>3, <3>1
    <3>3. buffer'[j] = items[j + d - Len(buffer)]  BY <1>2, <3>2
    <3>4. QED  BY <3>1, <3>2, <3>3
  <2>4. UpTo(buffer', Len(buffer) + 1 - d, s)  BY <1>6 DEF UpTo
  <2>5. From(buffer', Len(buffer) + 1 - d, s)  BY <1>3, <1>6 DEF From
  <2>6. QED  BY <2>1, <2>2, <2>4, <2>5 DEF Splits
<1>8. Buffers(x, s)'
  <2>1. CASE d <= Len(buffer)  BY <1>7, <2>1 DEF Buffers
  <2>2. CASE d > Len(buffer)
    <3>1. From(buffer', 0, s)  BY <1>3, <1>6, <2>2 DEF From
    <3>2. QED  BY <3>1 DEF Buffers
  <2>3. QED  BY <1>3, <2>1, <2>2
<1>9. Position' = Position /\ (Position # NoCursor => Position.seq \in Nat)
  BY <1>1 DEF Position, Reading, CInv, IInv, ConsumerOK, Cursors
<1>10. InFront(x, s)'
  <2>1. UpTo(page, Len(page) + 1, s)'  BY <1>1, <1>5 DEF UpTo
  <2>2. ASSUME Follows' PROVE \E j \in 1 .. Len(buffer') : evicted' + j > Position.seq /\ Splits(buffer', j, x, s)
    <3>1. /\ Position # NoCursor /\ Position.epoch = epoch /\ Position.seq >= evicted + d
      BY <1>2, <1>9, <2>2 DEF Follows
    <3>2. Position.seq <= evicted + Len(buffer)  BY <3>1 DEF CInv, CoverageInv, PositionOK
    <3>3. d <= Len(buffer)  BY <1>3, <1>9, <3>1, <3>2
    <3>4. evicted' + (Len(buffer) + 1 - d) > Position.seq  BY <1>2, <1>3, <1>9, <3>1, <3>2
    <3>5. QED  BY <1>7, <3>3, <3>4
  <2>3. QED  BY <1>9, <2>1, <2>2 DEF InFront
<1>11. Uncovered(s)'
  <2>1. SegmentsOK  BY DEF CInv, IInv, TablesOK
  <2>2. \A n \in DOMAIN segments : segments[n].last \in Nat /\ segments[n].last <= heard
    BY <2>1, SegmentTypes DEF CInv, CoverageInv, HeardOK
  <2>3. ~Spans(s)  BY <1>3, <2>2 DEF Spans
  <2>4. recorded > s => Severed(s)  BY DEF Severed, AnyOpen
  <2>5. QED  BY <1>1, <2>3, <2>4 DEF Uncovered, Spans, Severed
<1>12. QED  BY <1>8, <1>10, <1>11 DEF Mark, Accounted

------------------------------------------------------------------------------
(* Alertmanager and the connector. *)

\* The consumer's position is still one of the buffer.
LEMMA PositionStays ==
    ASSUME CInv, UNCHANGED <<epoch, consumer, tables>>, evicted' \in Nat, Len(buffer') \in Nat,
           evicted' + Len(buffer') >= evicted + Len(buffer)
    PROVE  PositionOK'
<1>1. UNCHANGED <<cursor, page, after, segments>>  BY DEF consumer, tables
<1>2. Position' = Position /\ Reading' = Reading  BY <1>1 DEF Position, Reading
<1>3. evicted \in Nat /\ Len(buffer) \in Nat /\ (Position # NoCursor => Position.seq \in Nat)
  BY LenProperties DEF CInv, IInv, BufferOK, ConsumerOK, Position, Reading, Cursors
<1>4. PositionOK  BY DEF CInv, CoverageInv
<1>5. QED  BY <1>1, <1>2, <1>3, <1>4 DEF PositionOK

\* What is known of polls when items come: those of them that are polls are of the latest.
LEMMA HeardGrows ==
    ASSUME CInv, NEW items \in Seq(Items), Buffered(items), UNCHANGED <<consumer, tables>>,
           now' \in Nat, now' >= now, NEW h \in Nat, heard' = h, h >= heard, h <= now',
           poll' # NoPoll => h < poll'.at,
           \A i \in 1 .. Len(items) : items[i].kind = "ok" => items[i].at <= h
    PROVE  HeardOK'
<1>1. UNCHANGED <<page, segments, recorded>>  BY DEF consumer, tables
<1>2. heard \in Nat /\ HeardOK /\ SegmentsOK  BY DEF CInv, CoverageInv, IInv, PollOK, TablesOK
<1>3. \A y \in Items : y.at \in Nat  BY DEF Items
<1>4. UpTo(buffer', Len(buffer') + 1, h)
  <2> SUFFICES ASSUME NEW i \in 1 .. Len(buffer'), buffer'[i].kind = "ok" PROVE buffer'[i].at <= h
    BY DEF UpTo
  <2>1. PICK d \in Nat :
            \/ i + d \in 1 .. Len(buffer) /\ buffer'[i] = buffer[i + d]
            \/ i + d - Len(buffer) \in 1 .. Len(items) /\ buffer'[i] = items[i + d - Len(buffer)]
    BY BufferedShifts DEF CInv, IInv
  <2>2. CASE i + d \in 1 .. Len(buffer) /\ buffer'[i] = buffer[i + d]
    <3>1. Len(buffer) \in Nat /\ buffer[i + d] \in Items
      BY <2>2, ElementOfSeq, LenProperties DEF CInv, IInv, BufferOK
    <3>2. i + d < Len(buffer) + 1  BY <2>2, <3>1
    <3>3. buffer[i + d].at <= heard  BY <1>2, <2>2, <3>2 DEF HeardOK, UpTo
    <3>4. QED  BY <1>2, <1>3, <2>2, <3>1, <3>3
  <2>3. CASE i + d - Len(buffer) \in 1 .. Len(items) /\ buffer'[i] = items[i + d - Len(buffer)]
    BY <2>3
  <2>4. QED  BY <2>1, <2>2, <2>3
<1>5. UpTo(page, Len(page) + 1, h)
  <2>1. \A i \in 1 .. Len(page) : page[i] \in Items  BY ElementOfSeq DEF CInv, IInv, ConsumerOK
  <2>2. QED  BY <1>2, <1>3, <2>1 DEF HeardOK, UpTo
<1>6. \A n \in DOMAIN segments : segments[n].last <= h  BY <1>2, SegmentTypes DEF HeardOK
<1>7. recorded > h => ~AnyOpen  BY <1>2 DEF HeardOK, SegmentsOK
<1>8. QED  BY <1>1, <1>4, <1>5, <1>6, <1>7 DEF HeardOK, UpTo, AnyOpen

LEMMA MarkTypes ==
    ASSUME CInv
    PROVE  /\ \A e \in emitted : e.item \in Items /\ e.since \in Nat
           /\ \A t \in unseen : t \in Nat /\ (t > 0 => t - 1 \in Nat)
  BY DEF CInv, IInv, PollOK

LEMMA Lengths ==
    ASSUME BufferOK, NEW items \in Seq(Items), Buffered(items)
    PROVE  evicted' \in Nat /\ Len(buffer') \in Nat /\ evicted' + Len(buffer') >= evicted + Len(buffer)
<1>1. /\ evicted' \in Nat /\ buffer' \in Seq(Items)
      /\ evicted' + Len(buffer') = evicted + Len(buffer) + Len(items)
  BY BufferedKeepsEnd DEF BufferOK
<1>2. Len(buffer') \in Nat /\ Len(buffer) \in Nat /\ Len(items) \in Nat /\ evicted \in Nat
  BY <1>1, LenProperties DEF BufferOK
<1>3. QED  BY <1>1, <1>2

\* Items come that belong to no mark: none, or a heartbeat.
LEMMA MarksKept ==
    ASSUME CInv, UNCHANGED <<emitted, unseen>>,
           \A x : \A s \in Nat : Mark(x, s) => Mark(x, s)'
    PROVE  Marks'
<1>1. Marks  BY DEF CInv, CoverageInv
<1>2. ASSUME NEW e \in emitted PROVE e.item.kind \in {"firing", "resolved"} /\ Mark(e.item, e.since)'
  BY <1>1, MarkTypes DEF Marks
<1>3. ASSUME NEW t \in unseen PROVE t > 0 /\ Mark(Failure(t), t - 1)'
  BY <1>1, MarkTypes DEF Marks
<1>4. QED  BY <1>2, <1>3 DEF Marks, Failure

LEMMA ItemsOf ==
    ASSUME NEW x \in Items, NEW y \in Items
    PROVE  /\ <<x>> \in Seq(Items) /\ Len(<<x>>) = 1 /\ <<x>>[1] = x
           /\ <<x, y>> \in Seq(Items) /\ Len(<<x, y>>) = 2 /\ <<x, y>>[1] = x /\ <<x, y>>[2] = y
  OBVIOUS

LEMMA CoverageInit == ASSUME Init PROVE CoverageInv
<1>1. Marks  BY DEF Init, Marks
<1>2. PositionOK  BY DEF Init, PositionOK, Position, Reading
<1>3. HeardOK  BY DEF Init, HeardOK, UpTo, AnyOpen, Never
<1>4. QED  BY <1>1, <1>2, <1>3 DEF CoverageInv

\* No item comes: Alertmanager changes, or a poll begins.
LEMMA NoItemComes ==
    ASSUME CInv, UNCHANGED <<epoch, buffer, evicted, heard, emitted, unseen, consumer, tables>>,
           NEW n \in Nat, n = now', n >= now, poll' = poll \/ (poll'.at = n /\ n > now)
    PROVE  CoverageInv'
<1>1. now \in Nat /\ heard \in Nat /\ UNCHANGED <<cursor, page, after, segments, recorded>>
  BY DEF CInv, IInv, ClockOK, PollOK, consumer, tables
<1>2. Marks'
  <2>1. ASSUME NEW x, NEW s \in Nat, Mark(x, s) PROVE Mark(x, s)'
    <3>1. s <= now' /\ (poll' # NoPoll => s < poll'.at)  BY <1>1, <2>1 DEF Mark
    <3>2. QED  BY <2>1, <3>1, UntakenMarks
  <2>2. QED  BY <2>1, MarksKept
<1>3. PositionOK'
  BY <1>1 DEF CInv, CoverageInv, PositionOK, Position, Reading
<1>4. HeardOK'
  <2>1. heard <= n /\ (poll' # NoPoll => heard < poll'.at)
    BY <1>1 DEF CInv, CoverageInv, HeardOK
  <2>2. UpTo(buffer, Len(buffer) + 1, heard)' /\ UpTo(page, Len(page) + 1, heard)'
    BY <1>1 DEF CInv, CoverageInv, HeardOK, UpTo
  <2>3. QED  BY <1>1, <2>1, <2>2 DEF CInv, CoverageInv, HeardOK, AnyOpen
<1>5. QED  BY <1>2, <1>3, <1>4 DEF CoverageInv

\* An occurrence is reported: it comes after every poll that anything knows of.
LEMMA OccurrencePut ==
    ASSUME CInv, NEW x \in Items, x.kind \in {"firing", "resolved"}, Put(x),
           NEW n \in Nat, n = now', n >= now, UNCHANGED <<epoch, heard, unseen, consumer, tables>>,
           poll' # NoPoll => poll # NoPoll /\ poll'.at = poll.at
    PROVE  CoverageInv'
<1>1. now \in Nat /\ heard \in Nat /\ BufferOK  BY DEF CInv, IInv, ClockOK, PollOK
<1>2. PICK items \in Seq(Items) : Buffered(items) /\ Len(items) = 1 /\ items[1] = x
  BY ItemsOf DEF Put
<1>3. \A i \in 1 .. Len(items) : items[i].kind # "ok"  BY <1>2
<1>4. ASSUME NEW y, NEW s \in Nat, Mark(y, s) PROVE Mark(y, s)'
  <2>1. s <= now' /\ (poll' # NoPoll => s < poll'.at)  BY <1>1, <1>4 DEF Mark
  <2>2. QED  BY <1>2, <1>3, <1>4, <2>1, TakenMarks
<1>5. Mark(x, heard)'
  <2>1. PICK s \in Nat : s = heard /\ heard' = s  BY <1>1
  <2>2. /\ heard <= s /\ s <= now' /\ (poll' # NoPoll => s < poll'.at)
        /\ recorded > s => ~AnyOpen
    BY <1>1, <2>1 DEF CInv, CoverageInv, HeardOK
  <2>3. Len(items) > 0  BY <1>2
  <2>4. Mark(x, s)'  BY <1>2, <1>3, <2>2, <2>3, NewMark
  <2>5. QED  BY <2>1, <2>4
<1>6. Marks'
  <2>1. PICK new : new = [item |-> x, since |-> heard]  OBVIOUS
  <2>2. emitted' = emitted \cup {new} /\ new.item = x /\ new.since = heard /\ heard' = heard
    BY <2>1 DEF Put
  <2>3. ASSUME NEW e \in emitted' PROVE e.item.kind \in {"firing", "resolved"} /\ Mark(e.item, e.since)'
    <3>1. CASE e = new  BY <1>5, <2>2, <3>1
    <3>2. CASE e \in emitted  BY <1>4, <3>2, MarkTypes DEF CInv, CoverageInv, Marks
    <3>3. QED  BY <2>2, <3>1, <3>2
  <2>4. ASSUME NEW t \in unseen' PROVE t > 0 /\ Mark(Failure(t), t - 1)'
    BY <1>4, MarkTypes DEF CInv, CoverageInv, Marks
  <2>5. QED  BY <2>3, <2>4 DEF Marks, Failure
<1>7. PositionOK'  BY <1>1, <1>2, Lengths, PositionStays
<1>8. HeardOK'
  <2>1. PICK h \in Nat : h = heard /\ heard' = h  BY <1>1
  <2>2. h >= heard /\ h <= now' /\ (poll' # NoPoll => h < poll'.at)
    BY <1>1, <2>1 DEF CInv, CoverageInv, HeardOK
  <2>3. now' \in Nat /\ now' >= now  OBVIOUS
  <2>4. \A i \in 1 .. Len(items) : items[i].kind = "ok" => items[i].at <= h  BY <1>3
  <2>5. QED  BY <1>2, <2>1, <2>2, <2>3, <2>4, HeardGrows
<1>9. QED  BY <1>6, <1>7, <1>8 DEF CoverageInv

\* A poll fails: nothing that is recorded is later, and its heartbeat is followed by a gap.
LEMMA FailurePut == ASSUME CInv, PollFails PROVE CoverageInv'
<1>1. now \in Nat /\ heard \in Nat /\ recorded \in Nat /\ recorded <= now /\ heard <= now /\ BufferOK
  BY DEF CInv, CoverageInv, HeardOK, IInv, ClockOK, PollOK, TablesOK, SegmentsOK
<1>2. PICK n \in Nat : n = now' /\ n = now + 1  BY <1>1 DEF PollFails, Stamped
<1>3. /\ UNCHANGED <<alert, epoch, known, admitted, poll, heard, emitted, consumer, tables, started>>
      /\ poll = NoPoll /\ unseen' = unseen \cup {n}
  BY <1>2 DEF PollFails
<1>4. PICK x \in Items : x = [kind |-> "failed", at |-> n] /\ x.at = n  BY HeartbeatsAreItems
<1>5. PICK y \in Items : y = [kind |-> "gap", at |-> n] /\ y.at = n  BY HeartbeatsAreItems
<1>6. PICK items \in Seq(Items) : items = <<x, y>>  BY ItemsOf
<1>7. /\ Buffered(items) /\ Len(items) = 2 /\ items[1] = x /\ items[2] = y
      /\ x.kind = "failed" /\ y.kind = "gap"
  BY <1>2, <1>4, <1>5, <1>6 DEF PollFails
<1>8. \A i \in 1 .. Len(items) : items[i].kind # "ok"  BY <1>7
<1>9. ASSUME NEW z, NEW s \in Nat, Mark(z, s) PROVE Mark(z, s)'
  <2>1. s <= now' /\ poll' = NoPoll  BY <1>1, <1>2, <1>3, <1>9 DEF Mark
  <2>2. UNCHANGED <<epoch, consumer, tables>>  BY <1>3
  <2>3. QED  BY <1>7, <1>8, <1>9, <2>1, <2>2, TakenMarks
<1>10. Mark(Failure(n), n - 1)'
  <2>1. PICK s \in Nat : s = n - 1 /\ s = now /\ s <= n  BY <1>1, <1>2
  <2>2. heard <= s /\ (recorded > s => ~AnyOpen) /\ s <= now' /\ poll' = NoPoll /\ Len(items) > 0
    BY <1>1, <1>2, <1>3, <1>7, <2>1
  <2>3. UNCHANGED <<epoch, consumer, tables>>  BY <1>3
  <2>4. Mark(x, s)'  BY <1>7, <1>8, <2>2, <2>3, NewMark
  <2>5. QED  BY <1>4, <2>1, <2>4 DEF Failure
<1>11. Marks'
  <2>1. ASSUME NEW e \in emitted' PROVE e.item.kind \in {"firing", "resolved"} /\ Mark(e.item, e.since)'
    BY <1>3, <1>9, MarkTypes DEF CInv, CoverageInv, Marks
  <2>2. ASSUME NEW t \in unseen' PROVE t > 0 /\ Mark(Failure(t), t - 1)'
    <3>1. CASE t = n
      <4>1. n > 0  BY <1>1, <1>2
      <4>2. QED  BY <1>10, <3>1, <4>1
    <3>2. CASE t \in unseen  BY <1>9, <3>2, MarkTypes DEF CInv, CoverageInv, Marks
    <3>3. QED  BY <1>3, <3>1, <3>2
  <2>3. QED  BY <2>1, <2>2 DEF Marks, Failure
<1>12. PositionOK'
  <2>1. UNCHANGED <<epoch, consumer, tables>>  BY <1>3
  <2>2. QED  BY <1>1, <1>7, <2>1, Lengths, PositionStays
<1>13. HeardOK'
  <2>1. PICK h \in Nat : h = heard /\ heard' = h  BY <1>1, <1>3
  <2>2. h >= heard /\ h <= now' /\ poll' = NoPoll /\ now' \in Nat /\ now' >= now
    BY <1>1, <1>2, <1>3, <2>1
  <2>3. UNCHANGED <<consumer, tables>>  BY <1>3
  <2>4. \A i \in 1 .. Len(items) : items[i].kind = "ok" => items[i].at <= h  BY <1>8
  <2>5. QED  BY <1>7, <2>1, <2>2, <2>3, <2>4, HeardGrows
<1>14. QED  BY <1>11, <1>12, <1>13 DEF CoverageInv

\* The heartbeat of a poll that has put all it saw: a later one than any mark's.
LEMMA HeartbeatPut == ASSUME CInv, PutHeartbeat PROVE CoverageInv'
<1>1. /\ poll # NoPoll /\ poll' = NoPoll /\ heard' = poll.at /\ Buffered(<<[kind |-> "ok", at |-> poll.at]>>)
      /\ UNCHANGED <<clock, epoch, admitted, emitted, unseen, consumer, tables, started, used>>
  BY DEF PutHeartbeat
<1>2. PICK n \in Nat : n = now' /\ n = now  BY <1>1 DEF CInv, IInv, ClockOK, clock
<1>3. PICK h \in Nat : h = poll.at /\ h <= n /\ heard < h /\ heard \in Nat
  BY <1>1, <1>2 DEF CInv, IInv, PollOK, Polls, CoverageInv, HeardOK
<1>4. PICK x \in Items : x = [kind |-> "ok", at |-> h] /\ x.at = h  BY HeartbeatsAreItems
<1>5. PICK items \in Seq(Items) : Buffered(items) /\ Len(items) = 1 /\ items[1] = x
  <2>1. Buffered(<<x>>)  BY <1>1, <1>3, <1>4
  <2>2. QED  BY <2>1, ItemsOf
<1>6. BufferOK  BY DEF CInv, IInv
<1>7. Marks'
  <2>1. ASSUME NEW z, NEW s \in Nat, Mark(z, s) PROVE Mark(z, s)'
    <3>1. s <= now' /\ s < h  BY <1>1, <1>2, <1>3, <2>1 DEF Mark
    <3>2. \A i \in 1 .. Len(items) : items[i].kind = "ok" => items[i].at > s  BY <1>4, <1>5, <3>1
    <3>3. UNCHANGED <<epoch, consumer, tables>> /\ poll' = NoPoll  BY <1>1
    <3>4. QED  BY <1>5, <2>1, <3>1, <3>2, <3>3, TakenMarks
  <2>2. UNCHANGED <<emitted, unseen>>  BY <1>1
  <2>3. QED  BY <2>1, <2>2, MarksKept
<1>8. PositionOK'
  <2>1. UNCHANGED <<epoch, consumer, tables>>  BY <1>1
  <2>2. QED  BY <1>5, <1>6, <2>1, Lengths, PositionStays
<1>9. HeardOK'
  <2>1. heard' = h /\ h >= heard /\ h <= now' /\ poll' = NoPoll /\ now' \in Nat /\ now' >= now
    BY <1>1, <1>2, <1>3
  <2>2. UNCHANGED <<consumer, tables>>  BY <1>1
  <2>3. \A i \in 1 .. Len(items) : items[i].kind = "ok" => items[i].at <= h  BY <1>4, <1>5
  <2>4. QED  BY <1>5, <2>1, <2>2, <2>3, HeardGrows
<1>10. QED  BY <1>7, <1>8, <1>9 DEF CoverageInv

\* A restart of the connector: whoever had read of the run before will be told of a gap.
LEMMA RestartKeepsCoverage == ASSUME CInv, Restart PROVE CoverageInv'
<1>1. /\ UNCHANGED <<now, heard, emitted, unseen, cursor, page, after, row, segments, recorded>>
      /\ epoch' = epoch + 1 /\ buffer' = <<>> /\ evicted' = 0 /\ poll' = NoPoll
  BY DEF Restart, clock, consumer, tables
<1>2. epoch \in Nat /\ (Position # NoCursor => Position.epoch \in Nat /\ Position.seq \in Nat)
  BY DEF CInv, IInv, BufferOK, ConsumerOK, Position, Reading, Cursors
<1>3. Position' = Position /\ Reading' = Reading  BY <1>1 DEF Position, Reading
<1>4. ~Follows'  BY <1>1, <1>2, <1>3 DEF CInv, CoverageInv, PositionOK, Follows
<1>5. Marks'
  <2>1. ASSUME NEW x, NEW s \in Nat, Mark(x, s) PROVE Mark(x, s)'
    <3>1. Buffers(x, s)'
      <4>1. From(buffer', 0, s)  BY <1>1 DEF From
      <4>2. QED  BY <4>1 DEF Buffers
    <3>2. UnreadLater(s)'  BY <1>4 DEF UnreadLater
    <3>3. InPage(x, s) => InPage(x, s)'  BY <1>1, <3>2 DEF InPage, Splits, UpTo, From
    <3>4. InFront(x, s) => InFront(x, s)'
      <4>1. UpTo(page, Len(page) + 1, s) => UpTo(page, Len(page) + 1, s)'  BY <1>1 DEF UpTo
      <4>2. QED  BY <1>4, <4>1 DEF InFront
    <3>5. Parted(s) => Parted(s)'  BY <1>1, <3>2 DEF Parted, Severed, From
    <3>6. Reached(x) => Reached(x)'  BY <1>1 DEF Reached, EndedBeforeCoverage, Status
    <3>7. Uncovered(s) => Uncovered(s)'  BY <1>1 DEF Uncovered, Spans, Severed
    <3>8. Accounted(x, s)'  BY <2>1, <3>3, <3>4, <3>5, <3>6, <3>7 DEF Mark, Accounted
    <3>9. QED  BY <1>1, <2>1, <3>1, <3>8 DEF Mark
  <2>2. QED  BY <1>1, <2>1, MarksKept
<1>6. PositionOK'  BY <1>1, <1>2, <1>3 DEF CInv, CoverageInv, PositionOK
<1>7. HeardOK'
  <2>1. UpTo(buffer', Len(buffer') + 1, heard')  BY <1>1 DEF UpTo
  <2>2. UpTo(page, Len(page) + 1, heard)'  BY <1>1 DEF CInv, CoverageInv, HeardOK, UpTo
  <2>3. QED  BY <1>1, <2>1, <2>2 DEF CInv, CoverageInv, HeardOK, AnyOpen
<1>8. QED  BY <1>5, <1>6, <1>7 DEF CoverageInv

LEMMA OutsideKeepsCoverage == ASSUME CInv, Alertmanager \/ Connector PROVE CoverageInv'
<1>1. now \in Nat /\ (poll # NoPoll => poll \in Polls /\ poll.at \in Nat)
  BY DEF CInv, IInv, ClockOK, PollOK, Polls
<1>2. ASSUME NEW a \in Alerts, Begin(a) \/ End(a) PROVE CoverageInv'
  <2>1. UNCHANGED <<epoch, buffer, evicted, poll, heard, emitted, unseen, consumer, tables>>
    BY <1>2 DEF Begin, End, connector
  <2>2. PICK n \in Nat : n = now' /\ n >= now  BY <1>1, <1>2 DEF Begin, End, Stamped
  <2>3. QED  BY <2>1, <2>2, NoItemComes
<1>3. ASSUME NEW a \in Alerts, Webhook(a) PROVE CoverageInv'
  <2>1. PICK n \in Nat : n = now' /\ n >= now  BY <1>1, <1>3 DEF Webhook, Stamped
  <2>2. PICK x \in Items : x.kind \in {"firing", "resolved"} /\ Put(x)
    <3>1. CASE Put(FiringItem(a, now'))  BY <2>1, <3>1, FiringIsItem DEF FiringItem
    <3>2. CASE Put(ResolvedItem(a, now', alert[a].ended))
      <4>1. alert[a].ended \in Nat  BY DEF CInv, IInv, ClockOK
      <4>2. QED  BY <2>1, <3>2, <4>1, ResolvedIsItem DEF ResolvedItem
    <3>3. QED  BY <1>3, <3>1, <3>2 DEF Webhook
  <2>3. UNCHANGED <<epoch, heard, unseen, consumer, tables>> /\ poll' = poll  BY <1>3 DEF Webhook
  <2>4. QED  BY <2>1, <2>2, <2>3, OccurrencePut
<1>4. CASE Poll
  <2>1. UNCHANGED <<epoch, buffer, evicted, heard, emitted, unseen, consumer, tables>>  BY <1>4 DEF Poll
  <2>2. PICK n \in Nat : n = now' /\ n > now /\ n >= now  BY <1>1, <1>4 DEF Poll, Stamped
  <2>3. poll'.at = n  BY <1>4, <2>2 DEF Poll
  <2>4. QED  BY <2>1, <2>2, <2>3, NoItemComes
<1>5. CASE PutGone \/ PutNew
  <2>1. /\ poll # NoPoll /\ poll \in Polls /\ poll.at \in Nat
        /\ UNCHANGED <<clock, epoch, known, admitted, heard, unseen, consumer, tables, started, used>>
    BY <1>1, <1>5 DEF PutGone, PutNew
  <2>2. PICK n \in Nat : n = now' /\ n >= now  BY <1>1, <2>1 DEF clock
  <2>3. PICK x \in Items :
           /\ x.kind \in {"firing", "resolved"} /\ Put(x)
           /\ poll'.at = poll.at
    <3>1. CASE PutGone
      <4>1. PICK a \in poll.gone :
               Put(ResolvedItem(a, poll.at, poll.at)) /\ poll' = [poll EXCEPT !.gone = @ \ {a}]
        BY <3>1 DEF PutGone
      <4>2. a \in Alerts /\ poll'.at = poll.at  BY <2>1, <4>1 DEF Polls
      <4>3. QED  BY <2>1, <4>1, <4>2, ResolvedIsItem DEF ResolvedItem
    <3>2. CASE PutNew
      <4>1. PICK a \in poll.new : Put(FiringItem(a, poll.at)) /\ poll' = [poll EXCEPT !.new = @ \ {a}]
        BY <3>2 DEF PutNew
      <4>2. a \in Alerts /\ poll'.at = poll.at  BY <2>1, <4>1 DEF Polls
      <4>3. QED  BY <2>1, <4>1, <4>2, FiringIsItem DEF FiringItem
    <3>3. QED  BY <1>5, <3>1, <3>2
  <2>4. QED  BY <2>1, <2>2, <2>3, OccurrencePut
<1>6. QED  BY <1>2, <1>3, <1>4, <1>5, FailurePut, HeartbeatPut, RestartKeepsCoverage
           DEF Alertmanager, Connector

------------------------------------------------------------------------------
(* The consumer. *)

\* What marks are for: an occurrence, or the failed poll right after s.
Marked(x, s) == x \in Items /\ (x.kind \in {"firing", "resolved"} \/ x = Failure(s + 1))

LEMMA MarksAccounted ==
    ASSUME CInv, UNCHANGED connector, now' \in Nat, now' >= now,
           \A x : \A s \in Nat : Marked(x, s) /\ Mark(x, s) => Accounted(x, s)'
    PROVE  Marks'
<1>1. UNCHANGED <<buffer, poll, emitted, unseen>>  BY DEF connector
<1>2. ASSUME NEW x, NEW s \in Nat, Marked(x, s), Mark(x, s) PROVE Mark(x, s)'
  <2>1. s <= now' /\ (poll' # NoPoll => s < poll'.at)
    BY <1>1, <1>2 DEF Mark, CInv, IInv, ClockOK
  <2>2. Buffers(x, s)'  BY <1>1, <1>2 DEF Mark, Buffers, Splits, UpTo, From
  <2>3. QED  BY <1>2, <2>1, <2>2 DEF Mark
<1>3. Marks  BY DEF CInv, CoverageInv
<1>4. ASSUME NEW e \in emitted PROVE e.item.kind \in {"firing", "resolved"} /\ Mark(e.item, e.since)'
  BY <1>2, <1>3, MarkTypes DEF Marks, Marked
<1>5. ASSUME NEW t \in unseen PROVE t > 0 /\ Mark(Failure(t), t - 1)'
  <2>1. t > 0 /\ t \in Nat /\ Mark(Failure(t), t - 1)  BY <1>3, MarkTypes DEF Marks
  <2>2. PICK s \in Nat : s = t - 1 /\ t = s + 1  BY <2>1
  <2>3. Failure(t) \in Items  BY <2>1, HeartbeatsAreItems DEF Failure
  <2>4. Marked(Failure(t), s)  BY <2>2, <2>3 DEF Marked
  <2>5. Mark(Failure(t), s)'
    <3>1. PICK x : x = Failure(t)  OBVIOUS
    <3>2. Mark(x, s)'  BY <1>2, <2>1, <2>2, <2>4, <3>1
    <3>3. QED  BY <3>1, <3>2 DEF Failure
  <2>6. QED  BY <2>1, <2>2, <2>5
<1>6. QED  BY <1>1, <1>4, <1>5 DEF Marks, Failure

\* What has reached the alerts table stays there.
LEMMA ReachedStays ==
    ASSUME IInv, Grows, RowStep, NEW x \in Items, Reached(x) PROVE Reached(x)'
<1>1. x.alert \in Alerts /\ x.kind \in {"firing", "resolved"}  BY DEF Reached, Items
<1>2. CASE row[x.alert] \in {"RESOLVED", Status(x)}
  <2>1. row \in [Alerts -> {"ABSENT", "FIRING", "RESOLVED"}]  BY DEF IInv, TablesOK
  <2>2. Status(x) \in {"FIRING", "RESOLVED"}  BY DEF Status
  <2>3. row'[x.alert] \in {"RESOLVED", Status(x)}  BY <1>1, <1>2, <2>1, <2>2 DEF RowStep
  <2>4. QED  BY <1>1, <2>3 DEF Reached, Status
<1>3. CASE segments # <<>> /\ EndedBeforeCoverage(x)
  <2>1. SegmentsOK  BY DEF IInv, TablesOK
  <2>2. 1 \in DOMAIN segments
    BY <1>3, <2>1, SegmentTypes, EmptySeq DEF SegmentsOK
  <2>3. 1 \in DOMAIN segments' /\ segments'[1].start = segments[1].start  BY <2>2 DEF Grows
  <2>4. segments' # <<>>  BY <2>3
  <2>5. EndedBeforeCoverage(x)'  BY <1>3, <2>3 DEF EndedBeforeCoverage
  <2>6. QED  BY <1>1, <2>4, <2>5 DEF Reached
<1>4. QED  BY <1>2, <1>3 DEF Reached

\* One item of the page is done.
LEMMA PageMoves ==
    ASSUME ConsumerOK, page # <<>>, page' = Tail(page), UNCHANGED <<connector, cursor, after>>
    PROVE  /\ Position' = Position /\ (Reading' <=> Reading)
           /\ Head(page) = page[1] /\ Len(page) \in Nat /\ Len(page) > 0 /\ Head(page) \in Items
           /\ \A h : UpTo(page, Len(page) + 1, h) => UpTo(page, Len(page) + 1, h)'
           /\ \A s : From(page, 0, s) => From(page, 0, s)'
           /\ \A s : UnreadLater(s) => UnreadLater(s)'
           /\ \A x, s : InFront(x, s) => InFront(x, s)'
           /\ \A x, s : InPage(x, s) =>
                 \/ InPage(x, s)' /\ (Head(page).kind = "ok" => Head(page).at <= s)
                 \/ Head(page) = x /\ UnreadLater(s)' /\ From(page, 0, s)'
<1>1. page \in Seq(Items) /\ Len(page) \in Nat /\ Len(page) # 0 /\ Head(page) = page[1]
  BY EmptySeq, LenProperties DEF ConsumerOK
<1>2. /\ Head(page) \in Items /\ page' \in Seq(Items) /\ Len(page') = Len(page) - 1
      /\ \A i \in 1 .. Len(page') : page'[i] = page[i + 1]
  BY <1>1, HeadTailProperties
<1>3. /\ Len(page) > 0 /\ Len(page') \in Nat /\ 1 \in 1 .. Len(page)
      /\ \A i \in 1 .. Len(page') : i + 1 \in 1 .. Len(page) /\ i + 1 > 1
  BY <1>1, <1>2
<1>4. UNCHANGED <<epoch, buffer, evicted>>  BY DEF connector
<1>5. Position' = Position /\ (Reading' <=> Reading)  BY DEF Position, Reading
<1>6. Follows' <=> Follows  BY <1>4, <1>5 DEF Follows
<1>7. ASSUME NEW h, UpTo(page, Len(page) + 1, h) PROVE UpTo(page, Len(page) + 1, h)'
  <2>1. ASSUME NEW i \in 1 .. Len(page'), page'[i].kind = "ok" PROVE page'[i].at <= h
    <3>1. i + 1 \in 1 .. Len(page) /\ i + 1 < Len(page) + 1  BY <1>1, <1>3
    <3>2. QED  BY <1>2, <1>7, <2>1, <3>1 DEF UpTo
  <2>2. QED  BY <2>1 DEF UpTo
<1>8. ASSUME NEW s, NEW k \in 0 .. 1, From(page, k, s) PROVE From(page, 0, s)'
  <2>1. ASSUME NEW i \in 1 .. Len(page'), page'[i].kind = "ok" PROVE page'[i].at > s
    <3>1. i + 1 \in 1 .. Len(page) /\ i + 1 > k  BY <1>3
    <3>2. QED  BY <1>2, <1>8, <2>1, <3>1 DEF From
  <2>2. QED  BY <2>1 DEF From
<1>9. ASSUME NEW s, UnreadLater(s) PROVE UnreadLater(s)'  BY <1>4, <1>5, <1>6, <1>9 DEF UnreadLater
<1>10. ASSUME NEW x, NEW s, InFront(x, s) PROVE InFront(x, s)'
  <2>1. UpTo(page, Len(page) + 1, s)'  BY <1>7, <1>10 DEF InFront
  <2>2. QED  BY <1>4, <1>5, <1>6, <1>10, <2>1 DEF InFront, Splits, UpTo, From
<1>11. ASSUME NEW x, NEW s, InPage(x, s)
       PROVE  \/ InPage(x, s)' /\ (Head(page).kind = "ok" => Head(page).at <= s)
              \/ Head(page) = x /\ UnreadLater(s)' /\ From(page, 0, s)'
  <2>1. PICK k \in 1 .. Len(page) : Splits(page, k, x, s)  BY <1>11 DEF InPage
  <2>2. UnreadLater(s)'  BY <1>9, <1>11 DEF InPage
  <2>3. CASE k = 1
    <3>1. 1 \in 0 .. 1 /\ From(page, 1, s) /\ page[1] = x  BY <2>1, <2>3 DEF Splits
    <3>2. From(page, 0, s)'  BY <1>8, <3>1
    <3>3. QED  BY <1>1, <2>2, <3>1, <3>2
  <2>4. CASE k > 1
    <3>1. PICK j \in Nat : j = k - 1 /\ j + 1 = k /\ j \in 1 .. Len(page')  BY <1>1, <1>2, <2>4
    <3>2. page'[j] = x  BY <1>2, <2>1, <3>1 DEF Splits
    <3>3. UpTo(page', j, s)
      <4>1. ASSUME NEW i \in 1 .. Len(page'), i < j, page'[i].kind = "ok" PROVE page'[i].at <= s
        <5>1. i + 1 \in 1 .. Len(page) /\ i + 1 < k  BY <1>3, <3>1, <4>1
        <5>2. QED  BY <1>2, <2>1, <4>1, <5>1 DEF Splits, UpTo
      <4>2. QED  BY <4>1 DEF UpTo
    <3>4. From(page', j, s)
      <4>1. ASSUME NEW i \in 1 .. Len(page'), i > j, page'[i].kind = "ok" PROVE page'[i].at > s
        <5>1. i + 1 \in 1 .. Len(page) /\ i + 1 > k  BY <1>3, <3>1, <4>1
        <5>2. QED  BY <1>2, <2>1, <4>1, <5>1 DEF Splits, From
      <4>2. QED  BY <4>1 DEF From
    <3>5. Splits(page', j, x, s)  BY <3>2, <3>3, <3>4 DEF Splits
    <3>6. InPage(x, s)'
      <4>1. (\E i \in 1 .. Len(page) : Splits(page, i, x, s))'
        BY <3>1, <3>5 DEF Splits, UpTo, From
      <4>2. QED  BY <2>2, <4>1 DEF InPage
    <3>7. Head(page).kind = "ok" => Head(page).at <= s
      <4>1. 1 < k /\ 1 \in 1 .. Len(page)  BY <1>3, <2>4
      <4>2. QED  BY <1>1, <2>1, <4>1 DEF Splits, UpTo
    <3>8. QED  BY <3>6, <3>7
  <2>5. QED  BY <2>3, <2>4
<1>12. \A s : From(page, 0, s) => From(page, 0, s)'
  <2>1. 0 \in 0 .. 1  OBVIOUS
  <2>2. QED  BY <1>8, <2>1
<1>13. QED  BY <1>1, <1>2, <1>3, <1>5, <1>7, <1>9, <1>10, <1>11, <1>12

\* The segments after a failure: all are closed, and reach as far as they did.
LEMMA FailureSevers ==
    ASSUME SegmentsOK, NEW at, RecordFailure(at)
    PROVE  /\ \A s : Severed(s)' /\ (Uncovered(s) => Uncovered(s)')
           /\ DOMAIN segments' = DOMAIN segments
           /\ \A n \in DOMAIN segments : segments'[n].last = segments[n].last /\ ~segments'[n].open
<1>1. segments' = Closed  BY DEF RecordFailure
<1>2. DOMAIN segments' = 1 .. Len(segments) /\ DOMAIN segments = 1 .. Len(segments)
  BY <1>1, ClosedSegments, LenProperties, SegmentTypes
<1>3. \A n \in DOMAIN segments :
         segments'[n].start = segments[n].start /\ segments'[n].last = segments[n].last /\ ~segments'[n].open
  BY <1>1, <1>2, ClosedSegments
<1>4. \A s : Severed(s)'  BY <1>2, <1>3 DEF Severed
<1>5. \A s : Uncovered(s) => Uncovered(s)'  BY <1>2, <1>3, <1>4 DEF Uncovered, Spans
<1>6. QED  BY <1>2, <1>3, <1>4, <1>5

\* The segments after a success: one that was open or is new goes on until then.
LEMMA SuccessReaches ==
    ASSUME SegmentsOK, NEW at \in Nat, RecordSuccess(at)
    PROVE  \A m \in DOMAIN segments' :
              \/ /\ m \in DOMAIN segments /\ segments'[m].start = segments[m].start
                 /\ segments'[m].last = segments[m].last \/ (segments'[m].last = at /\ segments[m].open)
                 /\ segments'[m].open => segments[m].open
              \/ segments'[m].start = at /\ segments'[m].last = at
<1>1. DOMAIN segments = 1 .. Len(segments) /\ Len(segments) \in Nat /\ segments \in Seq(Segments)
  BY SegmentTypes DEF SegmentsOK
<1>2. ASSUME NEW n \in DOMAIN segments, IsOpen(n), segments' = [segments EXCEPT ![n].last = at],
             NEW m \in DOMAIN segments'
      PROVE  /\ m \in DOMAIN segments /\ segments'[m].start = segments[m].start
             /\ segments'[m].last = segments[m].last \/ (segments'[m].last = at /\ segments[m].open)
             /\ segments'[m].open => segments[m].open
  <2>1. PICK k \in Segments : k = segments[n]  BY <1>1, SegmentTypes
  <2>2. PICK q : q = [k EXCEPT !.last = at]  OBVIOUS
  <2>3. q.start = k.start /\ q.last = at /\ q.open = k.open  BY <2>1, <2>2 DEF Segments
  <2>4. segments' = [segments EXCEPT ![n] = q]  BY <1>1, <1>2, <2>1, <2>2
  <2>5. m \in DOMAIN segments /\ segments'[m] = IF m = n THEN q ELSE segments[m]  BY <1>1, <1>2, <2>4
  <2>6. segments[n].open  BY <1>2, OpenIsLast
  <2>7. QED  BY <2>1, <2>3, <2>5, <2>6
<1>3. ASSUME segments' = Append(Closed, [start |-> at, last |-> at, open |-> TRUE]), NEW m \in DOMAIN segments'
      PROVE  \/ /\ m \in DOMAIN segments /\ segments'[m].start = segments[m].start
                /\ segments'[m].last = segments[m].last
                /\ ~segments'[m].open
             \/ segments'[m].start = at /\ segments'[m].last = at
  <2>0. PICK k : k = [start |-> at, last |-> at, open |-> TRUE]  OBVIOUS
  <2>1. k \in Segments /\ k.start = at /\ k.last = at  BY <2>0 DEF Segments
  <2>2. /\ segments' \in Seq(Segments) /\ Len(segments') = Len(segments) + 1
        /\ \A n \in 1 .. Len(segments) : segments'[n] = Closed[n]
        /\ segments'[Len(segments) + 1] = k
    BY <1>1, <1>3, <2>0, <2>1, ClosedSegments
  <2>3. m \in 1 .. Len(segments) \/ m = Len(segments) + 1  BY <1>1, <1>3, <2>2, LenProperties
  <2>4. QED  BY <1>1, <2>1, <2>2, <2>3, ClosedSegments
<1>4. QED  BY <1>2, <1>3 DEF RecordSuccess

\* A poll at s or before leaves s uncovered; one after s does when nothing of before is open.
LEMMA SuccessUncovers ==
    ASSUME SegmentsOK, NEW at \in Nat, RecordSuccess(at), recorded' = at, SegmentsOK',
           NEW s \in Nat, Uncovered(s), at <= s \/ Severed(s)
    PROVE  Uncovered(s)' /\ (Severed(s) /\ at > s => Severed(s)')
<1>1. \A n \in DOMAIN segments : segments[n].start \in Nat /\ segments[n].last \in Nat  BY SegmentTypes
<1>2. \A n \in DOMAIN segments : ~(segments[n].start <= s /\ s < segments[n].last)  BY DEF Uncovered, Spans
<1>3. ASSUME NEW m \in DOMAIN segments' PROVE ~(segments'[m].start <= s /\ s < segments'[m].last)
  <2>1. CASE m \in DOMAIN segments /\ segments'[m].start = segments[m].start /\ segments'[m].last = segments[m].last
    BY <1>2, <2>1
  <2>2. CASE m \in DOMAIN segments /\ segments'[m].start = segments[m].start /\ segments'[m].last = at /\ segments[m].open
    BY <1>1, <2>2 DEF Severed
  <2>3. CASE segments'[m].start = at /\ segments'[m].last = at  BY <2>3
  <2>4. QED  BY <2>1, <2>2, <2>3, SuccessReaches
<1>4. ~Spans(s)'  BY <1>3 DEF Spans
<1>5. ASSUME Severed(s), at > s PROVE Severed(s)'
  BY <1>5, SuccessReaches DEF Severed
<1>6. recorded' > s => Severed(s)'  BY <1>5
<1>7. QED  BY <1>4, <1>5, <1>6 DEF Uncovered

\* A step that applies one item accounts for every mark when it does so for those it is about.
LEMMA ItemAccounts ==
    ASSUME CInv, page # <<>>, page' = Tail(page), UNCHANGED <<connector, cursor, after>>, Grows, RowStep,
           NEW x, NEW s \in Nat, Marked(x, s), Mark(x, s),
           \* the mark stays uncovered
           Uncovered(s) => Uncovered(s)',
           \* its item is applied
           Head(page) = x /\ Uncovered(s) => Severed(s)' \/ Reached(x)',
           \* the gap is applied, or what was severed stays so
           Uncovered(s) /\ Parted(s) => Severed(s)'
    PROVE  Accounted(x, s)'
<1>1. ConsumerOK /\ IInv  BY DEF CInv, IInv
<1>2. CASE Reached(x)
  BY <1>1, <1>2, ReachedStays DEF Marked, Accounted
<1>3. CASE Uncovered(s) /\ InPage(x, s)
  <2>1. CASE InPage(x, s)' /\ (Head(page).kind = "ok" => Head(page).at <= s)
    BY <1>3, <2>1 DEF Accounted
  <2>2. CASE Head(page) = x /\ UnreadLater(s)' /\ From(page, 0, s)'
    <3>1. CASE Reached(x)'  BY <3>1 DEF Accounted
    <3>2. CASE Severed(s)'
      <4>1. Parted(s)'  BY <2>2, <3>2 DEF Parted
      <4>2. x.kind # "ok"  BY DEF Marked, Failure
      <4>3. Uncovered(s)'  BY <1>3, <2>2, <4>2
      <4>4. QED  BY <4>1, <4>3 DEF Accounted
    <3>3. QED  BY <1>3, <2>2, <3>1, <3>2
  <2>3. QED  BY <1>1, <1>3, <2>1, <2>2, PageMoves
<1>4. CASE Uncovered(s) /\ InFront(x, s)
  <2>1. InFront(x, s)'  BY <1>1, <1>4, PageMoves
  <2>2. QED  BY <1>4, <2>1 DEF Accounted
<1>5. CASE Uncovered(s) /\ Parted(s)
  <2>1. Parted(s)'  BY <1>1, <1>5, PageMoves DEF Parted
  <2>2. QED  BY <1>5, <2>1 DEF Accounted
<1>6. QED  BY <1>2, <1>3, <1>4, <1>5 DEF Mark, Accounted

\* The position and what is known of polls, when an item is applied.
LEMMA ItemPosition ==
    ASSUME CInv, page # <<>>, page' = Tail(page), UNCHANGED <<connector, cursor, after>>,
           segments = <<>> => segments' = <<>> \/ Position # NoCursor
    PROVE  PositionOK'
<1>1. ConsumerOK  BY DEF CInv, IInv
<1>2. Position' = Position /\ (Reading' <=> Reading)  BY <1>1, PageMoves
<1>3. PositionOK  BY DEF CInv, CoverageInv
<1>4. Reading  BY <1>3 DEF PositionOK
<1>5. UNCHANGED <<epoch, buffer, evicted>>  BY DEF connector
<1>6. Position # NoCursor  BY <1>4 DEF Position, Reading
<1>7. QED  BY <1>2, <1>3, <1>4, <1>5, <1>6 DEF PositionOK

LEMMA ItemHeard ==
    ASSUME CInv, page # <<>>, page' = Tail(page), UNCHANGED <<now, connector, cursor, after>>,
           \A n \in DOMAIN segments' : segments'[n].last <= heard,
           recorded' > heard => ~AnyOpen'
    PROVE  HeardOK'
<1>1. ConsumerOK /\ HeardOK  BY DEF CInv, IInv, CoverageInv
<1>2. UNCHANGED <<buffer, heard, poll>>  BY DEF connector
<1>3. UpTo(page, Len(page) + 1, heard)'
  <2>1. PICK h : h = heard /\ heard' = h  BY <1>2
  <2>2. UpTo(page, Len(page) + 1, h)  BY <1>1, <2>1 DEF HeardOK
  <2>3. UpTo(page, Len(page) + 1, h)'  BY <1>1, <2>2, PageMoves
  <2>4. QED  BY <2>1, <2>3 DEF UpTo
<1>4. UpTo(buffer, Len(buffer) + 1, heard)'  BY <1>1, <1>2 DEF HeardOK, UpTo
<1>5. QED  BY <1>1, <1>2, <1>3, <1>4 DEF HeardOK

LEMMA OccurrenceApplied == ASSUME CInv, ApplyOccurrence PROVE CoverageInv'
<1>1. /\ page # <<>> /\ page' = Tail(page) /\ Head(page).kind \in {"firing", "resolved"}
      /\ UNCHANGED <<clock, connector, cursor, after, segments, recorded, started, used>>
  BY DEF ApplyOccurrence, Apply
<1>2. IInv /\ ConsumerOK /\ now' = now /\ now \in Nat  BY <1>1 DEF CInv, IInv, ClockOK, clock
<1>3. RowStep  BY <1>2, ApplyOccurrenceKeeps
<1>4. Grows
  <2>1. SegmentsOK  BY <1>2 DEF IInv, TablesOK
  <2>2. QED  BY <1>1, <2>1, NothingRecorded
<1>5. Head(page) \in Items /\ Head(page) = page[1]  BY <1>1, <1>2, PageMoves
<1>6. ASSUME NEW x, NEW s \in Nat, Marked(x, s), Mark(x, s) PROVE Accounted(x, s)'
  <2>1. (Uncovered(s) <=> Uncovered(s)') /\ (Severed(s) <=> Severed(s)')
    BY <1>1 DEF Uncovered, Spans, Severed
  <2>2. ASSUME Head(page) = x PROVE Severed(s)' \/ Reached(x)'
    <3>1. x.alert \in Alerts /\ x.kind \in {"firing", "resolved"}  BY <1>1, <1>5, <2>2 DEF Items
    <3>2. CASE BeforeFirstCoverage(x)
      <4>1. CASE segments = <<>>  BY <1>1, <4>1 DEF Severed
      <4>2. CASE segments # <<>>
        <5>1. EndedBeforeCoverage(x)'  BY <1>1, <3>2 DEF BeforeFirstCoverage, EndedBeforeCoverage
        <5>2. QED  BY <1>1, <3>1, <4>2, <5>1 DEF Reached
      <4>3. QED  BY <4>1, <4>2
    <3>3. CASE Ingest(x)
      <4>1. row \in [Alerts -> {"ABSENT", "FIRING", "RESOLVED"}]  BY <1>2 DEF IInv, TablesOK
      <4>2. row'[x.alert] \in {"RESOLVED", Status(x)}  BY <3>1, <3>3, <4>1 DEF Ingest
      <4>3. QED  BY <3>1, <4>2 DEF Reached, Status
    <3>4. QED  BY <2>2, <3>2, <3>3 DEF ApplyOccurrence
  <2>3. Parted(s) => Severed(s)'  BY <1>1, <1>5, <2>1 DEF Parted
  <2>4. QED  BY <1>1, <1>3, <1>4, <1>6, <2>1, <2>2, <2>3, ItemAccounts
<1>7. Marks'
  <2>1. now' \in Nat /\ now' >= now  BY <1>2
  <2>2. QED  BY <1>1, <1>6, <2>1, MarksAccounted
<1>8. PositionOK'  BY <1>1, ItemPosition
<1>9. HeardOK'
  <2>1. UNCHANGED heard  BY <1>1 DEF connector
  <2>2. /\ \A n \in DOMAIN segments' : segments'[n].last <= heard
        /\ recorded' > heard => ~AnyOpen'
    BY <1>1 DEF CInv, CoverageInv, HeardOK, AnyOpen
  <2>3. QED  BY <1>1, <1>2, <2>2, ItemHeard
<1>10. QED  BY <1>7, <1>8, <1>9 DEF CoverageInv

\* A poll or a gap, whatever it does to the segments.
LEMMA HeartbeatApplied == ASSUME CInv, ApplyPoll \/ ApplyGap PROVE CoverageInv'
<1>1. /\ page # <<>> /\ page' = Tail(page) /\ Head(page).kind \in {"ok", "failed", "gap"}
      /\ UNCHANGED <<clock, connector, cursor, after, outcome, row, started, used>>
  BY DEF ApplyPoll, ApplyGap, Apply
<1>2. IInv /\ ConsumerOK /\ now' = now /\ now \in Nat /\ heard' = heard /\ heard \in Nat
  BY <1>1 DEF CInv, IInv, ClockOK, PollOK, clock, connector
<1>3. Grows /\ IInv' /\ RowStep  BY <1>1, <1>2, HeartbeatKeeps DEF RowStep
<1>4. SegmentsOK /\ SegmentsOK' /\ recorded \in Nat  BY <1>2, <1>3 DEF IInv, TablesOK, SegmentsOK
<1>5. Head(page) = page[1] /\ Len(page) > 0 /\ Len(page) \in Nat  BY <1>1, <1>2, PageMoves
<1>6. PICK at \in Nat : at = Head(page).at
  BY <1>1, <1>2, NextItem DEF IInv, ConsumerOK
<1>7. \/ /\ UNCHANGED <<segments, recorded>>
         /\ at <= recorded \/ (Head(page).kind = "gap" /\ ~AnyOpen)
      \/ Head(page).kind # "ok" /\ at > recorded /\ RecordFailure(at)
      \/ Head(page).kind = "ok" /\ at > recorded /\ RecordSuccess(at)
  BY <1>6, <1>4 DEF ApplyPoll, ApplyGap, Apply
<1>8. ASSUME NEW s \in Nat, Parted(s)
      PROVE  /\ Head(page).kind = "ok" => at > s /\ Severed(s)
             /\ ~Severed(s) => Head(page).kind = "gap" /\ at > s
  <2>1. 1 \in 1 .. Len(page) /\ 1 > 0  BY <1>5
  <2>2. QED  BY <1>5, <1>6, <1>8, <2>1 DEF Parted, From
<1>9. ASSUME NEW s \in Nat, Uncovered(s)
      PROVE  /\ Uncovered(s)' \/ (Head(page).kind = "ok" /\ at > s /\ ~Severed(s))
             /\ Parted(s) => Severed(s)'
             /\ Head(page) = Failure(s + 1) => Severed(s)'
  <2>1. CASE UNCHANGED <<segments, recorded>> /\ (at <= recorded \/ (Head(page).kind = "gap" /\ ~AnyOpen))
    <3>1. Uncovered(s)' /\ (Severed(s) => Severed(s)')  BY <1>9, <2>1 DEF Uncovered, Spans, Severed
    <3>2. at <= recorded /\ at > s => Severed(s)  BY <1>4, <1>9 DEF Uncovered
    <3>3. ~AnyOpen => Severed(s)  BY DEF AnyOpen, Severed
    <3>4. Head(page) = Failure(s + 1) => Head(page).kind = "failed" /\ at > s  BY <1>6 DEF Failure
    <3>5. QED  BY <1>8, <2>1, <3>1, <3>2, <3>3, <3>4
  <2>2. CASE Head(page).kind # "ok" /\ RecordFailure(at)
    BY <1>4, <1>9, <2>2, FailureSevers
  <2>3. CASE Head(page).kind = "ok" /\ at > recorded /\ RecordSuccess(at)
    <3>1. recorded' = at  BY <2>3 DEF RecordSuccess
    <3>2. at <= s \/ Severed(s) => Uncovered(s)'  BY <1>4, <1>9, <2>3, <3>1, SuccessUncovers
    <3>3. Severed(s) /\ at > s => Severed(s)'  BY <1>4, <1>9, <2>3, <3>1, SuccessUncovers
    <3>4. Head(page) # Failure(s + 1)  BY <2>3 DEF Failure
    <3>5. QED  BY <1>8, <2>3, <3>2, <3>3, <3>4
  <2>4. QED  BY <1>7, <2>1, <2>2, <2>3
<1>10. ASSUME NEW x, NEW s \in Nat, Marked(x, s), Mark(x, s) PROVE Accounted(x, s)'
  <2>1. Head(page) = x => x = Failure(s + 1)  BY <1>1, <1>10 DEF Marked
  <2>2. Uncovered(s) => \/ Uncovered(s)'
                        \/ Head(page).kind = "ok" /\ at > s /\ ~Severed(s)
    BY <1>9
  <2>4. Uncovered(s) /\ Parted(s) => Severed(s)'  BY <1>9
  <2>5. Head(page) = x /\ Uncovered(s) => Severed(s)'  BY <1>9, <2>1
  <2>6. CASE Uncovered(s) => Uncovered(s)'
    BY <1>1, <1>3, <1>6, <1>10, <2>4, <2>5, <2>6, ItemAccounts
  <2>7. CASE Head(page).kind = "ok" /\ at > s /\ ~Severed(s) /\ Uncovered(s)
    \* A later poll is applied only when the item has been.
    <3>1. ~InFront(x, s)
      <4>1. 1 \in 1 .. Len(page) /\ 1 < Len(page) + 1  BY <1>5
      <4>2. QED  BY <1>5, <1>6, <2>7, <4>1 DEF InFront, UpTo
    <3>2. ~Parted(s)  BY <1>8, <2>7
    <3>3. ~InPage(x, s)
      <4>1. ASSUME InPage(x, s) PROVE FALSE
        <5>1. PICK k \in 1 .. Len(page) : Splits(page, k, x, s)  BY <4>1 DEF InPage
        <5>2. k # 1  BY <1>5, <1>10, <2>7, <5>1 DEF Splits, Marked, Failure
        <5>3. 1 < k /\ 1 \in 1 .. Len(page)  BY <1>5, <5>2
        <5>4. QED  BY <1>5, <1>6, <2>7, <5>1, <5>3 DEF Splits, UpTo
      <4>2. QED  BY <4>1
    <3>4. Reached(x)  BY <1>10, <3>1, <3>2, <3>3 DEF Mark, Accounted
    <3>5. QED  BY <1>2, <1>3, <1>10, <3>4, ReachedStays DEF Marked, Accounted
  <2>8. QED  BY <2>2, <2>6, <2>7
<1>11. Marks'
  <2>1. now' \in Nat /\ now' >= now  BY <1>2
  <2>2. QED  BY <1>1, <1>10, <2>1, MarksAccounted
<1>12. PositionOK'
  <2>1. Position # NoCursor  BY <1>1 DEF CInv, CoverageInv, PositionOK, Position, Reading
  <2>2. QED  BY <1>1, <2>1, ItemPosition
<1>13. HeardOK'
  <2>1. HeardOK  BY DEF CInv, CoverageInv
  <2>2. /\ \A n \in DOMAIN segments' : segments'[n].last <= heard
        /\ recorded' > heard => ~AnyOpen'
    <3>1. CASE UNCHANGED <<segments, recorded>>  BY <2>1, <3>1 DEF HeardOK, AnyOpen
    <3>2. CASE RecordFailure(at)  BY <1>4, <2>1, <3>2, FailureSevers DEF HeardOK, AnyOpen
    <3>3. CASE Head(page).kind = "ok" /\ RecordSuccess(at)
      <4>1. 1 \in 1 .. Len(page) /\ 1 < Len(page) + 1  BY <1>5
      <4>2. at <= heard  BY <1>5, <1>6, <2>1, <3>3, <4>1 DEF HeardOK, UpTo
      <4>3. recorded' = at  BY <3>3 DEF RecordSuccess
      <4>4. \A n \in DOMAIN segments' : segments'[n].last <= heard
        BY <1>4, <2>1, <3>3, <4>2, SuccessReaches DEF HeardOK
      <4>5. QED  BY <1>2, <4>2, <4>3, <4>4
    <3>4. QED  BY <1>7, <3>1, <3>2, <3>3
  <2>3. QED  BY <1>1, <1>2, <2>2, ItemHeard
<1>14. QED  BY <1>11, <1>12, <1>13 DEF CoverageInv

\* The connector cannot be reached: what is open is closed, and the consumer stays where it is.
LEMMA LossKept == ASSUME CInv, ConnectorLost PROVE CoverageInv'
<1>1. UNCHANGED <<alert, connector, cursor, page, after, row, started>> /\ ~Reading
  BY DEF ConnectorLost, consumer
<1>2. IInv /\ now' \in Nat /\ now' >= now
  BY LaterIsLater DEF CInv, IInv, ConnectorLost
<1>3. Grows /\ RowStep /\ SegmentsOK
  BY <1>1, <1>2, ConnectorLostKeeps DEF RowStep, IInv, TablesOK
<1>4. UNCHANGED <<epoch, buffer, evicted, poll, heard>>  BY <1>1 DEF connector
<1>5. UNCHANGED <<Position, Reading, Follows>>  BY <1>1, <1>4 DEF Position, Reading, Follows
<1>6. \/ UNCHANGED <<segments, recorded>>
      \/ RecordFailure(now') /\ AnyOpen
  BY DEF ConnectorLost
<1>7. PositionOK /\ page = <<>>  BY <1>1 DEF CInv, CoverageInv, PositionOK
<1>8. ASSUME NEW x, NEW s \in Nat, Marked(x, s), Mark(x, s) PROVE Accounted(x, s)'
  <2>1. Reached(x) => Reached(x)'  BY <1>2, <1>3, <1>8, ReachedStays DEF Marked
  <2>2. (Uncovered(s) => Uncovered(s)') /\ (Severed(s) => Severed(s)')
    <3>1. CASE UNCHANGED <<segments, recorded>>  BY <3>1 DEF Uncovered, Spans, Severed
    <3>2. CASE RecordFailure(now')  BY <1>3, <3>2, FailureSevers
    <3>3. QED  BY <1>6, <3>1, <3>2
  <2>3. ~InPage(x, s)  BY <1>7 DEF InPage
  <2>4. UnreadLater(s) => UnreadLater(s)'  BY <1>4, <1>5 DEF UnreadLater
  <2>5. InFront(x, s) => InFront(x, s)'
    <3>1. UpTo(page, Len(page) + 1, s) => UpTo(page, Len(page) + 1, s)'  BY <1>1 DEF UpTo
    <3>2. QED  BY <1>4, <1>5, <3>1 DEF InFront, Splits, UpTo, From
  <2>6. Parted(s) => Parted(s)'  BY <1>1, <1>7, <2>2, <2>4 DEF Parted, From
  <2>7. QED  BY <1>8, <2>1, <2>2, <2>3, <2>5, <2>6 DEF Mark, Accounted
<1>9. Marks'  BY <1>1, <1>2, <1>8, MarksAccounted
<1>10. PositionOK'
  <2>1. segments = <<>> => segments' = <<>>  BY <1>6 DEF AnyOpen
  <2>2. QED  BY <1>1, <1>4, <1>5, <1>7, <2>1 DEF PositionOK
<1>11. HeardOK'
  <2>1. HeardOK /\ now \in Nat /\ heard \in Nat  BY <1>2 DEF CInv, CoverageInv, IInv, ClockOK, PollOK
  <2>2. /\ \A n \in DOMAIN segments' : segments'[n].last <= heard
        /\ recorded' > heard => ~AnyOpen'
    <3>1. CASE UNCHANGED <<segments, recorded>>  BY <2>1, <3>1 DEF HeardOK, AnyOpen
    <3>2. CASE RecordFailure(now')  BY <1>3, <2>1, <3>2, FailureSevers DEF HeardOK, AnyOpen
    <3>3. QED  BY <1>6, <3>1, <3>2
  <2>3. heard <= now' /\ (poll # NoPoll => heard < poll.at)  BY <1>2, <2>1 DEF HeardOK
  <2>4. UpTo(buffer, Len(buffer) + 1, heard)' /\ UpTo(page, Len(page) + 1, heard)'
    BY <1>1, <1>4, <2>1 DEF HeardOK, UpTo
  <2>5. QED  BY <1>4, <2>2, <2>3, <2>4 DEF HeardOK
<1>12. QED  BY <1>9, <1>10, <1>11 DEF CoverageInv

\* The page is done: the position is the same, now that of the cursor.
LEMMA FinishKept == ASSUME CInv, Finish PROVE CoverageInv'
<1>1. /\ UNCHANGED <<now, connector, page, row, segments, recorded>>
      /\ cursor' = after /\ after' = NoCursor /\ Reading /\ page = <<>>
  BY DEF Finish, clock, tables
<1>2. UNCHANGED <<epoch, buffer, evicted, poll, heard>>  BY <1>1 DEF connector
<1>3. ~Reading' /\ UNCHANGED <<Position, Follows>>  BY <1>1, <1>2 DEF Position, Reading, Follows
<1>4. ASSUME NEW x, NEW s \in Nat, Marked(x, s), Mark(x, s) PROVE Accounted(x, s)'
  <2>1. UnreadLater(s) => UnreadLater(s)'  BY <1>2, <1>3 DEF UnreadLater
  <2>2. InPage(x, s) => InPage(x, s)'  BY <1>1, <2>1 DEF InPage, Splits, UpTo, From
  <2>3. InFront(x, s) => InFront(x, s)'
    <3>1. UpTo(page, Len(page) + 1, s) => UpTo(page, Len(page) + 1, s)'  BY <1>1 DEF UpTo
    <3>2. QED  BY <1>2, <1>3, <3>1 DEF InFront, Splits, UpTo, From
  <2>4. Parted(s) => Parted(s)'  BY <1>1, <2>1 DEF Parted, Severed, From
  <2>5. Reached(x) => Reached(x)'  BY <1>1 DEF Reached, EndedBeforeCoverage, Status
  <2>6. Uncovered(s) => Uncovered(s)'  BY <1>1 DEF Uncovered, Spans, Severed
  <2>7. QED  BY <1>4, <2>2, <2>3, <2>4, <2>5, <2>6 DEF Mark, Accounted
<1>5. Marks'
  <2>1. now' \in Nat /\ now' >= now  BY <1>1 DEF CInv, IInv, ClockOK
  <2>2. QED  BY <1>1, <1>4, <2>1, MarksAccounted
<1>6. PositionOK'  BY <1>1, <1>2, <1>3 DEF CInv, CoverageInv, PositionOK
<1>7. HeardOK'
  <2>1. UpTo(buffer, Len(buffer) + 1, heard)' /\ UpTo(page, Len(page) + 1, heard)'
    BY <1>1, <1>2 DEF CInv, CoverageInv, HeardOK, UpTo
  <2>2. QED  BY <1>1, <1>2, <2>1 DEF CInv, CoverageInv, HeardOK, AnyOpen
<1>8. QED  BY <1>5, <1>6, <1>7 DEF CoverageInv

\* A page is read: d items of the buffer are behind it, and q gaps at its head.
LEMMA PageRead ==
    ASSUME CInv, Read
    PROVE  /\ page = <<>> /\ ~Reading /\ Position = cursor
           /\ Reading' /\ Position' = after' /\ after' \in Cursors /\ after'.epoch = epoch
           /\ \E d \in Nat, q \in 0 .. 1, l \in Nat :
                 /\ Len(page') = l + q /\ d + l <= Len(buffer)
                 /\ after'.seq = evicted + (d + l)
                 /\ \A i \in 1 .. Len(page') :
                       \/ i > q /\ i - q + d \in 1 .. Len(buffer) /\ page'[i] = buffer[i - q + d]
                       \/ i <= q /\ page'[i].kind = "gap"
                 /\ q = 1 => page'[1].kind = "gap" /\ page'[1].at = now' /\ now' > now
                 /\ Follows => evicted + d = cursor.seq
                 /\ ~Follows => d = 0 /\ (cursor # NoCursor => q = 1)
<1>1. ~Reading /\ page = <<>> /\ Position = cursor  BY DEF Read, CInv, CoverageInv, PositionOK, Position
<1>2. BufferOK /\ cursor \in Cursors \cup {NoCursor} /\ now \in Nat
  BY DEF CInv, IInv, ConsumerOK, ClockOK
<1>3. evicted \in Nat /\ Len(buffer) \in Nat /\ epoch \in Nat  BY <1>2, LenProperties DEF BufferOK
<1>4. Resumes <=> Follows  BY <1>1 DEF Resumes, Follows
<1>5. PICK d \in Nat, l \in Nat :
         /\ ServedAfter = evicted + d /\ l = Len(Served) /\ Served \in Seq(Items)
         /\ d + l <= Len(buffer)
         /\ \A i \in 1 .. l : i + d \in 1 .. Len(buffer) /\ Served[i] = buffer[i + d]
         /\ Follows => evicted + d = cursor.seq
         /\ ~Follows => d = 0
  <2>1. PICK l \in Nat : l = Len(Served) /\ Served \in Seq(Items)
    BY <1>2, ServedItems, LenProperties
  <2>2. ServedAfter \in Nat /\ ServedAfter >= evicted  BY <1>2, ServedItems
  <2>3. PICK d \in Nat : d = ServedAfter - evicted /\ ServedAfter = evicted + d  BY <1>3, <2>2
  <2>4. \A i \in 1 .. l : i + d \in 1 .. Len(buffer) /\ Served[i] = buffer[i + d]
    <3>1. \A i \in 1 .. l : d + i = i + d  OBVIOUS
    <3>2. \A i \in 1 .. Len(Served) : d + i \in 1 .. Len(buffer) /\ Served[i] = buffer[d + i]
      BY <1>2, <2>3, ServedItems
    <3>3. QED  BY <2>1, <3>1, <3>2
  <2>5. Follows => evicted + d = cursor.seq
    BY <1>1, <1>2, <1>3, <1>4, <2>3 DEF ServedAfter, Follows, Cursors
  <2>6. ~Follows => d = 0  BY <1>3, <1>4, <2>3 DEF ServedAfter
  <2>7. d <= Len(buffer)
    <3>1. Follows => cursor.seq <= evicted + Len(buffer)
      BY <1>1 DEF Follows, CInv, CoverageInv, PositionOK
    <3>2. QED  BY <1>3, <2>5, <2>6, <3>1
  <2>8. d + l <= Len(buffer)
    <3>1. CASE l = 0  BY <2>7, <3>1
    <3>2. CASE l # 0
      <4>1. l \in 1 .. l  BY <3>2
      <4>2. l + d \in 1 .. Len(buffer)  BY <2>4, <4>1
      <4>3. QED  BY <1>3, <4>2
    <3>3. QED  BY <3>1, <3>2
  <2>9. QED  BY <2>1, <2>3, <2>4, <2>5, <2>6, <2>8
<1>6. PICK c \in Cursors : c = after' /\ c.epoch = epoch /\ c.seq = evicted + (d + l)
  <2>1. after' = [epoch |-> epoch, seq |-> ServedAfter + Len(Served)]  BY DEF Read
  <2>2. ServedAfter + Len(Served) = evicted + (d + l) /\ evicted + (d + l) \in Nat  BY <1>3, <1>5
  <2>3. QED  BY <1>3, <2>1, <2>2 DEF Cursors
<1>7. Reading' /\ Position' = after'  BY <1>6, NullAssumption DEF Reading, Position, Cursors
<1>8. PICK q \in 0 .. 1 :
         /\ Len(page') = l + q
         /\ \A i \in 1 .. Len(page') : IF i <= q THEN page'[i].kind = "gap" ELSE i - q \in 1 .. l /\ page'[i] = Served[i - q]
         /\ q = 1 => page'[1].kind = "gap" /\ page'[1].at = now' /\ now' > now
         /\ cursor # NoCursor /\ ~Resumes => q = 1
  <2>1. CASE cursor # NoCursor /\ ~Resumes
    <3>1. PICK n \in Nat : n = now' /\ n > now  BY <1>2, <2>1 DEF Read, Stamped
    <3>2. PICK x \in Items : x = [kind |-> "gap", at |-> n] /\ x.at = n  BY HeartbeatsAreItems
    <3>3. PICK head \in Seq(Items) : head = <<x>> /\ Len(head) = 1 /\ head[1] = x  BY ItemsOf
    <3>4. page' = head \o Served /\ x.kind = "gap"  BY <2>1, <3>1, <3>2, <3>3 DEF Read
    <3>5. /\ Len(page') = 1 + l
          /\ \A i \in 1 .. 1 + l : page'[i] = IF i <= 1 THEN head[i] ELSE Served[i - 1]
      BY <1>5, <3>3, <3>4, ConcatProperties
    <3>6. 1 \in 0 .. 1 /\ Len(page') = l + 1 /\ 1 \in 1 .. 1 + l  BY <3>5
    <3>7. \A i \in 1 .. Len(page') :
             IF i <= 1 THEN page'[i].kind = "gap" ELSE i - 1 \in 1 .. l /\ page'[i] = Served[i - 1]
      BY <3>3, <3>4, <3>5
    <3>8. page'[1] = x  BY <3>3, <3>5, <3>6
    <3>9. page'[1].kind = "gap" /\ page'[1].at = now' /\ now' > now  BY <3>1, <3>2, <3>4, <3>8
    <3>10. QED  BY <3>6, <3>7, <3>9
  <2>2. CASE ~(cursor # NoCursor /\ ~Resumes)
    <3>1. page' = Served  BY <2>2 DEF Read
    <3>2. 0 \in 0 .. 1 /\ Len(page') = l + 0  BY <1>5, <3>1
    <3>3. \A i \in 1 .. Len(page') :
             IF i <= 0 THEN page'[i].kind = "gap" ELSE i - 0 \in 1 .. l /\ page'[i] = Served[i - 0]
      BY <3>1, <3>2
    <3>4. QED  BY <2>2, <3>2, <3>3
  <2>3. QED  BY <2>1, <2>2
<1>9. \A i \in 1 .. Len(page') :
         \/ i > q /\ i - q + d \in 1 .. Len(buffer) /\ page'[i] = buffer[i - q + d]
         \/ i <= q /\ page'[i].kind = "gap"
  BY <1>5, <1>8
<1>10. QED  BY <1>1, <1>4, <1>5, <1>6, <1>7, <1>8, <1>9

LEMMA ReadKept == ASSUME CInv, Read PROVE CoverageInv'
<1>1. /\ UNCHANGED <<alert, connector, cursor, row, segments, recorded>>
      /\ now \in Nat /\ now' \in Nat /\ now' >= now /\ IInv
  BY LaterIsLater DEF Read, tables, CInv, IInv, ClockOK
<1>2. UNCHANGED <<epoch, buffer, evicted, poll, heard>>  BY <1>1 DEF connector
<1>3. evicted \in Nat /\ Len(buffer) \in Nat /\ epoch \in Nat
  BY LenProperties DEF CInv, IInv, BufferOK
<1>4. /\ page = <<>> /\ ~Reading /\ Position = cursor
      /\ Reading' /\ Position' = after' /\ after' \in Cursors /\ after'.epoch = epoch
  BY PageRead
<1>5. PICK d \in Nat, q \in 0 .. 1, l \in Nat :
         /\ Len(page') = l + q /\ d + l <= Len(buffer)
         /\ after'.seq = evicted + (d + l)
         /\ \A i \in 1 .. Len(page') :
               \/ i > q /\ i - q + d \in 1 .. Len(buffer) /\ page'[i] = buffer[i - q + d]
               \/ i <= q /\ page'[i].kind = "gap"
         /\ q = 1 => page'[1].kind = "gap" /\ page'[1].at = now' /\ now' > now
         /\ Follows => evicted + d = cursor.seq
         /\ ~Follows => d = 0 /\ (cursor # NoCursor => q = 1)
  BY PageRead
<1>6. after' # NoCursor  BY <1>4, NullAssumption DEF Cursors
<1>7. \A i \in 1 .. Len(page') : page'[i].kind = "ok" =>
         i > q /\ i - q + d \in 1 .. Len(buffer) /\ page'[i] = buffer[i - q + d]
  BY <1>5
\* Where the item is in the buffer and not behind the page, it is in the page or after it.
<1>8. ASSUME NEW x, NEW s \in Nat, NEW j \in 1 .. Len(buffer), j > d, Splits(buffer, j, x, s)
      PROVE  InPage(x, s)' \/ InFront(x, s)'
  <2>1. \A i \in 1 .. Len(buffer) : buffer[i].kind = "ok" =>
           (i < j => buffer[i].at <= s) /\ (i > j => buffer[i].at > s)
    BY <1>8 DEF Splits, UpTo, From
  <2>2. CASE j <= d + l
    <3>1. PICK k \in Nat : k = j - d + q /\ k - q + d = j /\ k > q /\ k \in 1 .. l + q
      BY <1>3, <1>8, <2>2
    <3>2. k \in 1 .. Len(page')  BY <1>5, <3>1
    <3>3. page'[k] = x  BY <1>5, <1>8, <3>1, <3>2 DEF Splits
    <3>4. UpTo(page', k, s)
      <4>1. ASSUME NEW i \in 1 .. Len(page'), i < k, page'[i].kind = "ok" PROVE page'[i].at <= s
        <5>1. i - q + d < j  BY <3>1, <4>1
        <5>2. QED  BY <1>7, <2>1, <4>1, <5>1
      <4>2. QED  BY <4>1 DEF UpTo
    <3>5. From(page', k, s)
      <4>1. ASSUME NEW i \in 1 .. Len(page'), i > k, page'[i].kind = "ok" PROVE page'[i].at > s
        <5>1. i - q + d > j  BY <3>1, <4>1
        <5>2. QED  BY <1>7, <2>1, <4>1, <5>1
      <4>2. QED  BY <4>1 DEF From
    <3>6. UnreadLater(s)'
      <4>1. ASSUME NEW i \in 1 .. Len(buffer), evicted + i > evicted + (d + l), buffer[i].kind = "ok"
            PROVE  buffer[i].at > s
        <5>1. i > j  BY <1>3, <2>2, <4>1
        <5>2. QED  BY <2>1, <4>1, <5>1
      <4>2. QED  BY <1>2, <1>4, <1>5, <4>1 DEF UnreadLater
    <3>7. (\E i \in 1 .. Len(page) : Splits(page, i, x, s))'
      BY <3>2, <3>3, <3>4, <3>5 DEF Splits, UpTo, From
    <3>8. QED  BY <3>6, <3>7 DEF InPage
  <2>3. CASE j > d + l
    <3>1. UpTo(page, Len(page) + 1, s)'
      <4>1. ASSUME NEW i \in 1 .. Len(page'), page'[i].kind = "ok" PROVE page'[i].at <= s
        <5>1. i \in 1 .. l + q  BY <1>5
        <5>2. i - q + d < j  BY <2>3, <5>1
        <5>3. QED  BY <1>7, <2>1, <4>1, <5>2
      <4>2. QED  BY <4>1 DEF UpTo
    <3>2. evicted + j > evicted + (d + l)  BY <1>3, <2>3
    <3>3. Splits(buffer, j, x, s)'  BY <1>2, <1>8 DEF Splits, UpTo, From
    <3>4. QED  BY <1>2, <1>4, <1>5, <3>1, <3>2, <3>3 DEF InFront
  <2>4. QED  BY <1>3, <2>2, <2>3
\* Where only later polls are ahead, a gap or a closed segment parts them from it.
<1>9. ASSUME NEW s \in Nat, s <= now, Severed(s) \/ q = 1,
             \A i \in 1 .. Len(buffer) : i > d /\ buffer[i].kind = "ok" => buffer[i].at > s
      PROVE  Parted(s)'
  <2>1. From(page, 0, s)'
    <3>1. ASSUME NEW i \in 1 .. Len(page'), page'[i].kind = "ok" PROVE page'[i].at > s
      <4>1. i > q /\ i - q + d \in 1 .. Len(buffer) /\ page'[i] = buffer[i - q + d]  BY <1>7, <3>1
      <4>2. i - q + d > d  BY <4>1
      <4>3. QED  BY <1>9, <3>1, <4>1, <4>2
    <3>2. QED  BY <3>1 DEF From
  <2>2. UnreadLater(s)'
    <3>1. \A i \in 1 .. Len(buffer) : evicted + i > evicted + (d + l) => i > d  BY <1>3
    <3>2. QED  BY <1>2, <1>4, <1>5, <1>9, <3>1 DEF UnreadLater
  <2>3. Severed(s)' \/ (page # <<>> /\ page[1].kind = "gap" /\ page[1].at > s)'
    <3>1. CASE Severed(s)  BY <1>1, <3>1 DEF Severed
    <3>2. CASE q = 1
      <4>1. Len(page') > 0  BY <1>5, <3>2
      <4>2. page' # <<>>  BY <4>1
      <4>3. now' > s  BY <1>1, <1>5, <1>9, <3>2
      <4>4. QED  BY <1>5, <3>2, <4>2, <4>3
    <3>3. QED  BY <1>9, <3>1, <3>2
  <2>4. QED  BY <2>1, <2>2, <2>3 DEF Parted
<1>10. ASSUME NEW x, NEW s \in Nat, Marked(x, s), Mark(x, s) PROVE Accounted(x, s)'
  <2>1. Reached(x) => Reached(x)'  BY <1>1 DEF Reached, EndedBeforeCoverage, Status
  <2>2. Uncovered(s) => Uncovered(s)'  BY <1>1 DEF Uncovered, Spans, Severed
  <2>3. ~InPage(x, s)  BY <1>4 DEF InPage
  <2>4. s <= now /\ Buffers(x, s)  BY <1>10 DEF Mark
  <2>5. CASE InFront(x, s) /\ Follows
    <3>1. PICK j \in 1 .. Len(buffer) : evicted + j > cursor.seq /\ Splits(buffer, j, x, s)
      BY <1>4, <2>5 DEF InFront
    <3>2. j > d  BY <1>3, <1>5, <2>5, <3>1
    <3>3. QED  BY <1>8, <1>10, <2>1, <2>2, <3>1, <3>2, <2>3, <2>5 DEF Mark, Accounted
  <2>6. CASE Parted(s) /\ Follows
    <3>1. Severed(s)  BY <1>4, <2>6 DEF Parted
    <3>2. \A i \in 1 .. Len(buffer) : i > d => evicted + i > cursor.seq  BY <1>3, <1>5, <2>6
    <3>3. \A i \in 1 .. Len(buffer) : i > d /\ buffer[i].kind = "ok" => buffer[i].at > s
      BY <1>4, <2>6, <3>2 DEF Parted, UnreadLater
    <3>4. Parted(s)'  BY <1>9, <2>4, <3>1, <3>3
    <3>5. QED  BY <1>10, <2>1, <2>2, <3>4 DEF Mark, Accounted
  <2>7. CASE ~Follows
    <3>1. d = 0 /\ (Severed(s) \/ q = 1)
      <4>1. cursor = NoCursor => segments = <<>>  BY <1>4 DEF CInv, CoverageInv, PositionOK
      <4>2. segments = <<>> => Severed(s)  BY DEF Severed
      <4>3. QED  BY <1>5, <2>7, <4>1, <4>2
    <3>2. CASE From(buffer, 0, s)
      <4>1. Parted(s)'  BY <1>9, <2>4, <3>1, <3>2 DEF From
      <4>2. QED  BY <1>10, <2>1, <2>2, <4>1 DEF Mark, Accounted
    <3>3. ASSUME NEW j \in 1 .. Len(buffer), Splits(buffer, j, x, s) PROVE Accounted(x, s)'
      <4>1. j > d  BY <3>1
      <4>2. QED  BY <1>8, <1>10, <2>1, <2>2, <3>3, <4>1 DEF Mark, Accounted
    <3>4. QED  BY <2>4, <3>2, <3>3 DEF Buffers
  <2>8. QED  BY <1>10, <2>1, <2>3, <2>5, <2>6, <2>7 DEF Mark, Accounted
<1>11. Marks'  BY <1>1, <1>10, MarksAccounted
<1>12. PositionOK'
  <2>1. after'.seq <= evicted + Len(buffer)  BY <1>3, <1>5
  <2>2. QED  BY <1>2, <1>3, <1>4, <1>6, <2>1 DEF PositionOK
<1>13. HeardOK'
  <2>1. HeardOK /\ heard \in Nat  BY DEF CInv, CoverageInv, IInv, PollOK
  <2>2. heard <= now' /\ (poll # NoPoll => heard < poll.at)  BY <1>1, <2>1 DEF HeardOK
  <2>3. UpTo(buffer, Len(buffer) + 1, heard)'  BY <1>2, <2>1 DEF HeardOK, UpTo
  <2>4. UpTo(page, Len(page) + 1, heard)'
    <3>1. ASSUME NEW i \in 1 .. Len(page'), page'[i].kind = "ok" PROVE page'[i].at <= heard
      <4>1. PICK j \in 1 .. Len(buffer) : page'[i] = buffer[j]  BY <1>7, <3>1
      <4>2. j < Len(buffer) + 1  BY <1>3
      <4>3. QED  BY <2>1, <3>1, <4>1, <4>2 DEF HeardOK, UpTo
    <3>2. QED  BY <1>2, <3>1 DEF UpTo
  <2>5. QED  BY <1>1, <1>2, <2>1, <2>2, <2>3, <2>4 DEF HeardOK, AnyOpen
<1>14. QED  BY <1>11, <1>12, <1>13 DEF CoverageInv

------------------------------------------------------------------------------
(* Every step. *)

LEMMA StutterKept == ASSUME CInv, UNCHANGED vars PROVE CoverageInv'
<1>1. /\ UNCHANGED <<epoch, buffer, evicted, poll, heard, emitted, unseen, consumer, tables>>
      /\ now' = now /\ now \in Nat
  BY DEF vars, clock, connector, CInv, IInv, ClockOK
<1>2. PICK n \in Nat : n = now' /\ n >= now  BY <1>1
<1>3. QED  BY <1>1, <1>2, NoItemComes

\* A consumer that keeps running has always done so.
LEMMA RunningBefore ==
    ASSUME UsedOK, [Next]_vars, KeepsRunning'
    PROVE  KeepsRunning /\ ~(Abandon \/ Crash)
<1>1. ASSUME Use("crashes", MaxCrashes) PROVE FALSE
  <2>1. used'["crashes"] = used["crashes"] + 1 /\ used["crashes"] \in Nat  BY <1>1 DEF Use, UsedOK
  <2>2. QED  BY <2>1 DEF KeepsRunning
<1>2. ~(Abandon \/ Crash)  BY <1>1 DEF Abandon, Crash
<1>3. ASSUME NEW b \in {"webhooks", "restarts", "errors"}, NEW m, Use(b, m) PROVE KeepsRunning
  BY <1>3 DEF Use, UsedOK, KeepsRunning
<1>4. ASSUME UNCHANGED used PROVE KeepsRunning  BY <1>4 DEF KeepsRunning
<1>5. CASE UNCHANGED vars
  <2>1. UNCHANGED used  BY <1>5 DEF vars
  <2>2. QED  BY <1>2, <1>4, <2>1
<1>6. CASE Alertmanager
  <2>1. ASSUME NEW a \in Alerts, Begin(a) \/ End(a) PROVE UNCHANGED used  BY <2>1 DEF Begin, End
  <2>2. ASSUME NEW a \in Alerts, Webhook(a) PROVE Use("webhooks", MaxWebhooks)  BY <2>2 DEF Webhook
  <2>3. QED  BY <1>2, <1>3, <1>4, <1>6, <2>1, <2>2 DEF Alertmanager
<1>7. CASE Connector
  <2>1. ASSUME Poll \/ PutGone \/ PutNew \/ PutHeartbeat PROVE UNCHANGED used
    BY <2>1 DEF Poll, PutGone, PutNew, PutHeartbeat
  <2>2. ASSUME PollFails PROVE Use("errors", MaxErrors)  BY <2>2 DEF PollFails
  <2>3. ASSUME Restart PROVE Use("restarts", MaxRestarts)  BY <2>3 DEF Restart
  <2>4. QED  BY <1>2, <1>3, <1>4, <1>7, <2>1, <2>2, <2>3 DEF Connector
<1>8. CASE Consumer
  <2>1. ASSUME Read \/ ApplyOccurrence \/ ApplyPoll \/ ApplyGap \/ Finish PROVE UNCHANGED used
    BY <2>1 DEF Read, ApplyOccurrence, ApplyPoll, ApplyGap, Finish
  <2>2. ASSUME ConnectorLost PROVE Use("errors", MaxErrors)  BY <2>2 DEF ConnectorLost
  <2>3. QED  BY <1>2, <1>3, <1>4, <1>8, <2>1, <2>2 DEF Consumer
<1>9. QED  BY <1>2, <1>5, <1>6, <1>7, <1>8 DEF Next

LEMMA CoverageKept ==
    ASSUME CInv, [Next]_vars, ~(Abandon \/ Crash) PROVE CoverageInv'
<1>1. IInv'  BY NextKeeps DEF CInv
<1>2. CASE Consumer
  <2>1. Read \/ ConnectorLost \/ ApplyOccurrence \/ ApplyPoll \/ ApplyGap \/ Finish  BY <1>2 DEF Consumer
  <2>2. QED  BY <2>1, ReadKept, LossKept, OccurrenceApplied, HeartbeatApplied, FinishKept
<1>3. CASE Alertmanager \/ Connector  BY <1>1, <1>3, OutsideKeepsCoverage DEF CInv
<1>4. CASE UNCHANGED vars  BY <1>4, StutterKept
<1>5. QED  BY <1>2, <1>3, <1>4 DEF Next

\* As long as no page was given up and the consumer was not restarted, CoverageInv holds.
KeptInv == IInv /\ (KeepsRunning => CoverageInv)

THEOREM CoverageInvariance == Spec => []KeptInv
<1>1. Init => KeptInv  BY InitHolds, CoverageInit DEF KeptInv
<1>2. ASSUME KeptInv, [Next]_vars PROVE KeptInv'
  <2>1. IInv'  BY <1>2, NextKeeps DEF KeptInv
  <2>2. ASSUME KeepsRunning' PROVE CoverageInv'
    <3>1. KeepsRunning /\ ~(Abandon \/ Crash)  BY <1>2, <2>2, RunningBefore DEF KeptInv, IInv
    <3>2. CInv  BY <1>2, <3>1 DEF KeptInv, CInv
    <3>3. QED  BY <1>2, <3>1, <3>2, CoverageKept
  <2>3. QED  BY <2>1, <2>2 DEF KeptInv
<1>3. QED  BY <1>1, <1>2, PTL DEF Spec

------------------------------------------------------------------------------
(* What follows. *)

\* While the consumer keeps the pages it read and its cursor: whatever the buffer drops, the gap it is
\* told of ends the segment, so an occurrence reported between two polls of one segment has reached the
\* alerts table ("exceeding the buffer is a Gap, not silent loss", StreamBuffer and connector_intake.py).
THEOREM NothingIsLost == Spec => []NothingLostWhileRunning
<1>1. ASSUME CInv, NEW e \in emitted, Spans(e.since)
      PROVE  row[e.item.alert] \in {"RESOLVED", Status(e.item)} \/ EndedBeforeCoverage(e.item)
  <2>1. Mark(e.item, e.since)  BY <1>1 DEF CInv, CoverageInv, Marks
  <2>2. Reached(e.item)  BY <1>1, <2>1 DEF Mark, Accounted, Uncovered
  <2>3. QED  BY <2>2 DEF Reached
<1>2. CInv => NothingLostInCoverage  BY <1>1 DEF NothingLostInCoverage
<1>3. KeptInv => NothingLostWhileRunning  BY <1>2 DEF KeptInv, CInv, NothingLostWhileRunning
<1>4. QED  BY <1>3, CoverageInvariance, PTL

\* Under the same condition no failed poll lies inside a segment, whether its heartbeat was read or
\* dropped with the gap that came with it (record_failure, and the gap of an unreachable Alertmanager).
THEOREM FailuresStayOutside == Spec => []NoFailureInCoverage
<1>1. ASSUME CInv, NEW t \in unseen PROVE ~Covered(t)
  <2>1. t > 0 /\ t \in Nat /\ Mark(Failure(t), t - 1)  BY <1>1, MarkTypes DEF CInv, CoverageInv, Marks
  <2>2. ~Reached(Failure(t))  BY DEF Reached, Failure
  <2>3. ~Spans(t - 1)  BY <2>1, <2>2 DEF Mark, Accounted, Uncovered
  <2>4. \A n \in DOMAIN segments : segments[n].start \in Nat /\ segments[n].last \in Nat
    BY <1>1, SegmentTypes DEF CInv, IInv, TablesOK
  <2>5. QED  BY <2>1, <2>3, <2>4 DEF Covered, Spans
<1>2. KeptInv => NoFailureInCoverage  BY <1>1 DEF KeptInv, CInv, NoFailureInCoverage
<1>3. QED  BY <1>2, CoverageInvariance, PTL
==============================================================================
