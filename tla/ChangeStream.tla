----------------------------- MODULE ChangeStream -----------------------------
(***************************************************************************)
(* The change stream from the cluster to the journal: the connector of       *)
(* ChangeFeed with the bounded buffer of items it fills                      *)
(* (packages/connector/streams.py), the mirror the control plane rebuilds    *)
(* from its pages (StreamedClusterReader in packages/connector/client.py),    *)
(* and the journal of object versions written from the mirror (ChangeWatcher  *)
(* in rca/live.py, ObjectVersionRepository).                                 *)
(*                                                                          *)
(* A page is read in one step and its items are applied in the next ones:    *)
(* the connector goes on meanwhile, and the reader holds its own lock.       *)
(***************************************************************************)
EXTENDS ChangeFeed, SequencesExt

CONSTANTS
    BufferLen,      \* changes_buffer_len
    PageLimit,      \* page_limit
    MaxReaders,     \* bound: restarts of the control plane
    Cluster,        \* the scope of an item about the whole cluster
    NoCursor,       \* a reader that has read nothing yet
    OldEpoch,       \* a cursor of an earlier connector run
    NoStaging       \* no snapshot is being read

ASSUME ClusterAssumption == Cluster \notin Scopes
\* _snapshot refuses one that is larger than the buffer.
ASSUME BufferAssumption == BufferLen \in Nat /\ BufferLen >= Cardinality(Scopes) + 2 /\ PageLimit \in Nat \ {0}
ASSUME FiniteAssumption == IsFiniteSet(Scopes)
ASSUME CursorAssumption == NoCursor \notin Int /\ OldEpoch \notin Int /\ NoCursor # OldEpoch
ASSUME StagingAssumption == NoStaging \notin [Scopes -> Nat] \cup [scope : Scopes, body : Nat]

VARIABLES
    buf, base,      \* the buffer, and where the latest global snapshot begins in it (0: nowhere)
    cursor,         \* how many of the buffered items the reader was given, or -1: not all before
    page,           \* what is still to be applied of the page read last
    mirror,         \* _objects and _events: scope -> body, 0 if it is not there
    staging,        \* _staging
    relisting,      \* _scope_staging: the scope and what was read of it
    completed, gapped, ready, blocked,
    drained,        \* the last page was short: nothing was left to read
    journal,        \* scope -> the last version recorded, and whether it was alive
    readers

bufferVars == <<buf, base, cursor>>
readerVars == <<mirror, staging, relisting, completed, gapped, ready, blocked, drained, page>>
streamVars == <<feedVars, bufferVars, readerVars, journal, readers>>

------------------------------------------------------------------------------
(* Items and the buffer. *)

Begin(s) == [kind |-> "begin", scope |-> s]
Object(s, body) == [kind |-> "object", scope |-> s, body |-> body]
Deleted(s) == [kind |-> "deleted", scope |-> s]
Gap(s, reason) == [kind |-> "gap", scope |-> s, reason |-> reason]
Heartbeat == [kind |-> "heartbeat", scope |-> Cluster]
Status(s, snapshot, complete) ==
    [kind |-> "status", scope |-> s, snapshot |-> snapshot, completed |-> complete]
BackendGap == Gap(Cluster, "BACKEND_UNREACHABLE")

Kept(items) == SubSeq(items, Max({1, Len(items) - BufferLen + 1}), Len(items))

\* A count of items from the left after `items` were appended and the oldest were dropped.
Moved(position, items) ==
    IF position \notin Nat THEN position
    ELSE Max({-1, position - (Len(buf \o items) - Len(Kept(buf \o items)))})

\* The items go into the buffer; a global snapshot among them becomes the baseline.
Buffer(items) ==
    /\ buf' = Kept(buf \o items)
    /\ base' = IF Begin(Cluster) \in ToSet(items)
               THEN Moved(Len(buf) + 1, items) ELSE Max({0, Moved(base, items)})

Put(items) == Buffer(items) /\ cursor' = Moved(cursor, items)

Objects(scopes) == LET of == SetToSeq(scopes) IN [i \in DOMAIN of |-> Object(of[i], Content(of[i], Now))]
Deletions(scopes) == LET of == SetToSeq(scopes) IN [i \in DOMAIN of |-> Deleted(of[i])]

SnapshotItems(failed) ==
    <<Begin(Cluster)>> \o Objects(Present(ObjectScopes \ failed)) \o Objects(Present(EventScopes \ failed))
        \o <<Status(Cluster, TRUE, ObjectScopes \ failed)>>

DeltaItems(failed) ==
    Objects(Changed(ObjectScopes \ failed)) \o Deletions(Vanished(failed))
        \o Objects(Changed(EventScopes \ failed)) \o <<Status(Cluster, FALSE, ObjectScopes \ failed)>>

\* What the change i, told by a watch, is turned into.
EventItems(s, i) ==
    IF ~Current(s) \/ versions[s] = NoVersion THEN <<>>
    ELSE IF log[i].there THEN IF seen[s] = i THEN <<>> ELSE <<Object(s, i)>>
    ELSE IF seen[s] = 0 THEN <<>> ELSE <<Deleted(s)>>

RelistItems(s) == <<Begin(s)>> \o Objects(Present({s})) \o <<Status(s, TRUE, {s})>>

\* Mutant of ExpiryItems: no gap where the relist succeeds at once.
ExpiryItemsQuiet(s, listed) == IF Current(s) /\ listed THEN RelistItems(s) ELSE <<>>

ExpiryItems(s, listed) ==
    IF ~Current(s) THEN <<>>
    ELSE <<Gap(s, "RESOURCE_VERSION_EXPIRED")>> \o (IF listed THEN RelistItems(s) ELSE <<>>)

\* One gap for an outage.
FailureItems(s) == IF Current(s) /\ ~degraded THEN <<BackendGap>> ELSE <<>>

------------------------------------------------------------------------------
(* The connector's steps with what they put into the stream. *)

\* poll_changes_once: a reconciliation, or a snapshot if the buffer has no baseline any more.
Reconcile(failed) ==
    \/ base = 0 /\ Snapshot(failed) /\ Put(SnapshotItems(failed))
    \/ base # 0 /\ Delta(failed) /\ Put(DeltaItems(failed))

\* retry_snapshot_once, when a snapshot is owed
RetrySnapshot(failed) == degraded /\ Snapshot(failed) /\ Put(SnapshotItems(failed))

Connector ==
    \/ \E s \in Scopes :
          \/ Silent(s) /\ UNCHANGED bufferVars
          \/ FailWatch(s) /\ Put(FailureItems(s))
          \/ \E i \in 1 .. Now : Deliver(s, i) /\ Put(EventItems(s, i))
          \/ \E listed \in BOOLEAN : Expire(s, listed) /\ Put(ExpiryItems(s, listed))
          \/ RetryRelist(s) /\ Put(RelistItems(s))
    \/ \E failed \in SUBSET Scopes : Reconcile(failed) \/ RetrySnapshot(failed)
    \/ PollFails /\ Put(<<BackendGap>>)
    \/ Beat /\ Put(<<Heartbeat>>)

\* A connector that is started again has an empty buffer and an epoch of its own.
RestartConnector ==
    /\ Restart
    /\ buf' = <<>> /\ base' = 0
    /\ cursor' = IF cursor = NoCursor THEN NoCursor ELSE OldEpoch

Reader == [mirror |-> mirror, staging |-> staging, relisting |-> relisting, completed |-> completed,
           gapped |-> gapped, ready |-> ready, blocked |-> blocked]

FreshReader == [mirror |-> [s \in Scopes |-> 0], staging |-> NoStaging, relisting |-> NoStaging,
                completed |-> {}, gapped |-> {}, ready |-> FALSE, blocked |-> FALSE]

------------------------------------------------------------------------------
(* _apply: what an item does to the reader r. *)

ApplyGap(r, i) ==
    IF i.scope # Cluster THEN [r EXCEPT !.gapped = @ \cup {i.scope}]
    ELSE IF i.reason = "BACKEND_UNREACHABLE" THEN [r EXCEPT !.blocked = TRUE]
    ELSE [r EXCEPT !.ready = FALSE]

ApplyBegin(r, i) ==
    IF i.scope = Cluster
    THEN [r EXCEPT !.staging = [s \in Scopes |-> 0], !.gapped = {}, !.relisting = NoStaging]
    ELSE [r EXCEPT !.relisting = [scope |-> i.scope, body |-> 0]]

ApplyObject(r, i) ==
    IF i.scope \in EventScopes THEN [r EXCEPT !.mirror[i.scope] = i.body]
    ELSE IF r.relisting # NoStaging /\ r.relisting.scope = i.scope THEN [r EXCEPT !.relisting.body = i.body]
    ELSE IF r.staging # NoStaging THEN [r EXCEPT !.staging[i.scope] = i.body]
    ELSE [r EXCEPT !.mirror[i.scope] = i.body]

\* Mutant of ApplyGlobalStatus: a snapshot is merged into the mirror instead of replacing it.
GlobalStatusMerges(r, i) ==
    IF (i.snapshot /\ r.staging = NoStaging) \/ (~i.snapshot /\ ~r.ready) THEN r
    ELSE [r EXCEPT !.completed = i.completed, !.ready = TRUE, !.blocked = FALSE,
                   !.staging = IF i.snapshot THEN NoStaging ELSE @,
                   !.mirror = IF i.snapshot
                              THEN [s \in Scopes |-> IF r.staging[s] = 0 THEN @[s] ELSE r.staging[s]] ELSE @]

\* The end of a global snapshot, or of a listing without one.
ApplyGlobalStatus(r, i) ==
    IF (i.snapshot /\ r.staging = NoStaging) \/ (~i.snapshot /\ ~r.ready) THEN r
    ELSE [r EXCEPT !.completed = i.completed, !.ready = TRUE, !.blocked = FALSE,
                   !.staging = IF i.snapshot THEN NoStaging ELSE @,
                   !.mirror = IF i.snapshot
                              THEN [s \in Scopes |-> IF s \in EventScopes THEN @[s] ELSE r.staging[s]] ELSE @]

\* _end_scope_snapshot: the scope is what was listed, and its gap is over.
ApplyScopeStatus(r, i) ==
    IF r.relisting = NoStaging \/ r.relisting.scope # i.scope THEN r
    ELSE [r EXCEPT !.relisting = NoStaging, !.gapped = @ \ {i.scope}, !.completed = @ \cup {i.scope},
                   !.mirror[i.scope] = IF i.scope \in EventScopes THEN @ ELSE r.relisting.body]

Apply(r, i) ==
    CASE i.kind = "gap" -> ApplyGap(r, i)
      [] i.kind = "begin" -> ApplyBegin(r, i)
      [] i.kind = "object" -> ApplyObject(r, i)
      [] i.kind = "deleted" -> [r EXCEPT !.mirror[i.scope] = 0]
      [] i.kind = "status" -> IF i.scope = Cluster THEN ApplyGlobalStatus(r, i) ELSE ApplyScopeStatus(r, i)
      [] OTHER -> r

------------------------------------------------------------------------------
(* Reading. *)

NeedsBaseline(c) == c \in {NoCursor, OldEpoch, -1}

PageGap(c) ==
    IF c = OldEpoch THEN <<Gap(Cluster, "CONNECTOR_RESTART")>>
    ELSE IF c = -1 THEN <<Gap(Cluster, "BUFFER_EXPIRED")>> ELSE <<>>

\* StreamBuffer.read: the reader gets a page after position c of the buffer b.
Take(c, b, from) ==
    LET start == IF NeedsBaseline(c) THEN from - 1 ELSE c
        end == Min({start + PageLimit, Len(b)})
    IN /\ NeedsBaseline(c) => from # 0
       /\ page' = PageGap(c) \o SubSeq(b, start + 1, end)
       /\ cursor' = end
       /\ drained' = (Len(page') < PageLimit)
       /\ UNCHANGED <<mirror, staging, relisting, completed, gapped, ready, blocked, journal, readers>>

\* _drain reads on when a page is applied that was not short.
Reads == page = <<>> /\ ~drained

\* _read_changes: a buffer without a baseline is given one first.
ReadPage ==
    /\ Reads
    /\ \/ /\ base # 0
          /\ Take(cursor, buf, base)
          /\ UNCHANGED <<feedVars, buf, base>>
       \/ /\ base = 0
          /\ \E failed \in SUBSET Scopes :
                /\ Snapshot(failed) /\ Buffer(SnapshotItems(failed))
                /\ Take(Moved(cursor, SnapshotItems(failed)), buf', base')

\* The listing for the missing baseline fails: a cursor that is still in the buffer reads on,
\* any other read is an error.  (The second attempt of such a read is the next read here.)
ReadWithoutBaseline ==
    /\ Reads /\ base = 0 /\ PollFails /\ Buffer(<<BackendGap>>)
    /\ LET c == Moved(cursor, <<BackendGap>>)
       IN IF NeedsBaseline(c) THEN cursor' = c /\ UNCHANGED <<readerVars, journal, readers>>
          ELSE Take(c, buf', 0)

\* _drain applies the next item of its page.
ApplyItem ==
    /\ page # <<>> /\ page' = Tail(page)
    /\ LET r == Apply(Reader, Head(page))
       IN /\ mirror' = r.mirror /\ staging' = r.staging /\ relisting' = r.relisting
          /\ completed' = r.completed /\ gapped' = r.gapped /\ ready' = r.ready /\ blocked' = r.blocked
    /\ UNCHANGED <<feedVars, bufferVars, drained, journal, readers>>

\* The control plane is started again: the mirror was its memory, the journal is stored.
RestartReader ==
    /\ readers < MaxReaders /\ readers' = readers + 1
    /\ mirror' = FreshReader.mirror /\ staging' = NoStaging /\ relisting' = NoStaging
    /\ completed' = {} /\ gapped' = {} /\ ready' = FALSE /\ blocked' = FALSE /\ drained' = FALSE
    /\ page' = <<>> /\ cursor' = NoCursor
    /\ UNCHANGED <<feedVars, buf, base, journal>>

\* _current: what was drained is served, unless it is known not to be the cluster.
Drained == page = <<>> /\ drained
Serves == Drained /\ ready /\ ~blocked /\ staging = NoStaging

\* Mutant of Absent: absence counts in every scope.
AbsentAnywhere(s) == mirror[s] = 0

\* Absence is meaningful only where the listing was complete.
Absent(s) == mirror[s] = 0 /\ s \in completed \ gapped

\* ChangeWatcher.snapshot_result: versions for what is listed, tombstones for what is absent.
\* A reader that serves nothing raises, and the stream is drained again.
Journal ==
    /\ Drained /\ drained' = FALSE
    /\ journal' = [s \in ObjectScopes |->
           IF Serves /\ mirror[s] # 0 THEN [body |-> mirror[s], there |-> TRUE]
           ELSE IF Serves /\ Absent(s) THEN [journal[s] EXCEPT !.there = FALSE] ELSE journal[s]]
    /\ UNCHANGED <<feedVars, bufferVars, mirror, staging, relisting, completed, gapped, ready, blocked, page, readers>>

StreamInit ==
    /\ Init
    /\ buf = <<>> /\ base = 0 /\ cursor = NoCursor
    /\ mirror = FreshReader.mirror /\ staging = NoStaging /\ relisting = NoStaging
    /\ completed = {} /\ gapped = {} /\ ready = FALSE /\ blocked = FALSE /\ drained = FALSE /\ page = <<>>
    /\ journal = [s \in ObjectScopes |-> [body |-> 0, there |-> FALSE]]
    /\ readers = 0

StreamNext ==
    \/ (Connector \/ RestartConnector) /\ UNCHANGED <<readerVars, journal, readers>>
    \/ ReadPage \/ ReadWithoutBaseline \/ ApplyItem \/ RestartReader \/ Journal

StreamSpec == StreamInit /\ [][StreamNext]_streamVars

------------------------------------------------------------------------------
(* Properties. *)

Reasons == {"BACKEND_UNREACHABLE", "RESOURCE_VERSION_EXPIRED", "CONNECTOR_RESTART", "BUFFER_EXPIRED"}
Items ==
    [kind : {"begin", "deleted", "heartbeat"}, scope : Scopes \cup {Cluster}]
        \cup [kind : {"object"}, scope : Scopes, body : Nat]
        \cup [kind : {"gap"}, scope : Scopes \cup {Cluster}, reason : Reasons]
        \cup [kind : {"status"}, scope : Scopes \cup {Cluster}, snapshot : BOOLEAN, completed : SUBSET Scopes]

ReaderStates ==
    [mirror : [Scopes -> Nat], staging : [Scopes -> Nat] \cup {NoStaging},
     relisting : [scope : Scopes, body : Nat] \cup {NoStaging},
     completed : SUBSET Scopes, gapped : SUBSET Scopes, ready : BOOLEAN, blocked : BOOLEAN]

\* The buffer keeps to its bound, and positions in it stay inside it.
StreamTypeOK ==
    /\ buf \in Seq(Items) /\ Len(buf) <= BufferLen /\ base \in 0 .. Len(buf)
    /\ cursor \in {NoCursor, OldEpoch} \cup (-1 .. Len(buf))
    /\ page \in Seq(Items) /\ drained \in BOOLEAN
    /\ Reader \in ReaderStates
    /\ journal \in [ObjectScopes -> [body : Nat, there : BOOLEAN]]

\* Everything was read, and the mirror answers.
CaughtUp == cursor = Len(buf) /\ Serves

\* The mirror shows of every scope it calls complete what the connector last saw of it, however
\* snapshots, relists, gaps and deltas were cut into pages and whichever were dropped unread.
MirrorAgrees ==
    CaughtUp => \A s \in completed \ gapped : s \in ObjectScopes => mirror[s] = seen[s]

\* A scope whose watch expired and that was not listed since is not called complete.
GapsHonoured == CaughtUp => pending \cap (completed \ gapped) = {}

\* Where the watch of a scope has told everything and the reader was given everything, what it
\* shows of a scope it calls complete is what the cluster has now (list_objects against the API
\* server, through watches, buffer and pages).
MirrorIsCluster ==
    CaughtUp => \A s \in ObjectScopes : s \in completed \ gapped =>
        (Current(s) /\ watch[s].open /\ Undelivered(s) = {} => mirror[s] = Content(s, Now))

Deletes(i, s) == log[i] = [scope |-> s, there |-> FALSE]

\* No tombstone without a deletion: what a failed or half-read listing, a dropped baseline, a gap or
\* a restart leaves out of the mirror is not recorded as deleted (snapshot_result of ChangeWatcher).
TombstonesHaveCause ==
    [][\A s \in ObjectScopes : journal[s].there /\ ~journal'[s].there => \E i \in 1 .. Now : Deletes(i, s)]_streamVars

\* What _apply_watch_event and its contract say of a tombstone: the very object recorded was deleted.
DeletionsHappened ==
    [][\A s \in ObjectScopes : journal[s].there /\ ~journal'[s].there =>
          \E i \in journal[s].body + 1 .. Now : Deletes(i, s)]_streamVars
==============================================================================
