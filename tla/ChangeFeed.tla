------------------------------ MODULE ChangeFeed ------------------------------
(***************************************************************************)
(* What the connector knows of the cluster (Connector in                     *)
(* packages/connector/service.py): the cluster is listed, and each scope is   *)
(* watched from the version of its listing.                                  *)
(*                                                                          *)
(* A scope is a kind in a namespace and holds one object here.  The cluster  *)
(* is a log of its changes, and a resource version is a position in it.  An  *)
(* action holds the connector's _changes_lock from its first to its last     *)
(* statement, so the threads of the watches, the run loop and the reading    *)
(* requests interleave between actions only.  The cluster's reader is one    *)
(* that can watch and list a single scope (rca/live.py).  What the actions   *)
(* put into the stream is said in ChangeStream.                              *)
(***************************************************************************)
EXTENDS Integers, Sequences, FiniteSets

CONSTANTS
    ObjectScopes,   \* scopes of objects
    EventScopes,    \* scopes of Events, one per namespace
    MaxChanges,     \* bound: changes of the cluster
    MaxFaults,      \* bound: failures, expiries, restarts and heartbeats
    NoVersion,      \* no resource version is known
    NoWatch         \* no watch is open

Scopes == ObjectScopes \cup EventScopes

ASSUME ScopesAssumption == ObjectScopes # {} /\ ObjectScopes \cap EventScopes = {}
ASSUME BoundsAssumption == MaxChanges \in Nat /\ MaxFaults \in Nat
ASSUME NullsAssumption == NoVersion \notin Nat
ASSUME WatchAssumption ==
    NoWatch \notin [current : BOOLEAN, at : Nat, open : BOOLEAN, closed : Nat, held : Nat \cup {NoVersion}]

VARIABLES
    log,            \* the changes of the cluster: scope, and whether the object is there after it
    versions,       \* _versions: where the next watch of a scope begins
    eventVersions,  \* the reader's event_resource_versions: the last listing of a scope's Events
    seen,           \* _seen, _events_seen: what was last seen of a scope's object
    pending,        \* _pending_relists
    degraded,       \* _degraded: a global snapshot is owed
    watch,          \* scope -> its open watch, as far as its thread has read it
    faults

feedVars == <<log, versions, eventVersions, seen, pending, degraded, watch, faults>>

Now == Len(log)

\* The change i of scope s is what the scope is like at version v.
Makes(i, s, v) ==
    /\ i \in 1 .. v /\ log[i].scope = s /\ log[i].there
    /\ \A j \in i + 1 .. v : log[j].scope # s

\* The object of scope s at version v: the change that made it, 0 if it is not there.
Content(s, v) == IF \E i \in 1 .. v : Makes(i, s, v) THEN CHOOSE i \in 1 .. v : Makes(i, s, v) ELSE 0

\* How far the server tells a watch: up to now, or up to where it closed it.
Told(s) == IF watch[s].open THEN Now ELSE watch[s].closed

\* The changes of its scope that a watch is still to tell.
Undelivered(s) == {i \in watch[s].at + 1 .. Told(s) : log[i].scope = s}

Current(s) == watch[s] # NoWatch /\ watch[s].current

\* An action in which something fails is counted; without a failure it is free.
Faulty(fails) ==
    /\ fails => faults < MaxFaults
    /\ faults' = IF fails THEN faults + 1 ELSE faults

Init ==
    /\ log = <<>>
    /\ versions = [s \in Scopes |-> NoVersion] /\ eventVersions = [s \in Scopes |-> NoVersion]
    /\ seen = [s \in Scopes |-> 0]
    /\ pending = {} /\ degraded = FALSE
    /\ watch = [s \in Scopes |-> NoWatch]
    /\ faults = 0

\* An object is written or deleted; an Event is only written.
Change(s) ==
    /\ Now < MaxChanges
    /\ \E there \in BOOLEAN :
          /\ there \/ (s \in ObjectScopes /\ Content(s, Now) # 0)
          /\ log' = Append(log, [scope |-> s, there |-> there])
    /\ UNCHANGED <<versions, eventVersions, seen, pending, degraded, watch, faults>>

------------------------------------------------------------------------------
(* Listings.  `failed` are the scopes whose LIST failed. *)

\* The reader never forgets the version of a listing of Events, also when the next one fails.
ListedEventVersions(failed) ==
    [s \in Scopes |-> IF s \in EventScopes \ failed THEN Now ELSE eventVersions[s]]

\* Mutant of ListedVersions: a scope is watched from now on also where its listing failed.
ListedVersionsAnyway(failed) == [s \in Scopes |-> IF s \in ObjectScopes THEN Now ELSE ListedEventVersions(failed)[s]]

ListedVersions(failed) ==
    [s \in Scopes |-> IF s \in ObjectScopes
                      THEN IF s \in failed THEN NoVersion ELSE Now
                      ELSE ListedEventVersions(failed)[s]]

Incomplete(failed) ==
    \/ failed \cap ObjectScopes # {}
    \/ /\ \E s \in EventScopes : ListedEventVersions(failed)[s] # NoVersion
       /\ \E s \in EventScopes : ListedEventVersions(failed)[s] = NoVersion

Replaced == [s \in Scopes |-> IF watch[s] = NoWatch THEN NoWatch ELSE [watch[s] EXCEPT !.current = FALSE]]

\* Mutant of Snapshot: what failed is left to the next reconciliation.
SnapshotOwesNothing(failed) ==
    /\ Faulty(failed # {})
    /\ versions' = ListedVersions(failed) /\ eventVersions' = ListedEventVersions(failed)
    /\ seen' = [s \in Scopes |-> IF s \in failed THEN 0 ELSE Content(s, Now)]
    /\ pending' = {} /\ degraded' = FALSE
    /\ watch' = Replaced
    /\ UNCHANGED log

\* _snapshot: everything is listed anew, and the watches of what it replaces are stale.
Snapshot(failed) ==
    /\ Faulty(failed # {})
    /\ versions' = ListedVersions(failed) /\ eventVersions' = ListedEventVersions(failed)
    /\ seen' = [s \in Scopes |-> IF s \in failed THEN 0 ELSE Content(s, Now)]
    /\ pending' = {} /\ degraded' = Incomplete(failed)
    /\ watch' = Replaced
    /\ UNCHANGED log

Present(scopes) == {s \in scopes : Content(s, Now) # 0}
Changed(scopes) == {s \in Present(scopes) : seen[s] # Content(s, Now)}

\* What a complete listing of a scope no longer shows.
Vanished(failed) == {s \in ObjectScopes \ failed : seen[s] # 0 /\ Content(s, Now) = 0}

\* Some listing succeeded since the start, or a snapshot is known to have failed.
SnapshotTaken == degraded \/ \E s \in Scopes : versions[s] # NoVersion

\* _delta: what changed since the last listing.  Versions move under watches that are open, and
\* these still tell what the lock kept them from applying: the changes before the listing too.
Delta(failed) ==
    /\ SnapshotTaken
    /\ Faulty(failed # {})
    /\ versions' = [s \in Scopes |-> IF ListedVersions(failed)[s] = NoVersion THEN versions[s] ELSE ListedVersions(failed)[s]]
    /\ eventVersions' = ListedEventVersions(failed)
    /\ seen' = [s \in Scopes |->
                    IF s \in Changed(Scopes \ failed) THEN Content(s, Now)
                    ELSE IF s \in Vanished(failed) THEN 0 ELSE seen[s]]
    /\ UNCHANGED <<log, pending, degraded, watch>>

\* poll_changes_once: the cluster cannot be read at all, or a heartbeat is due (change_heartbeat).
PollFails == Faulty(TRUE) /\ UNCHANGED <<log, versions, eventVersions, seen, pending, degraded, watch>>
Beat == Faulty(TRUE) /\ UNCHANGED <<log, versions, eventVersions, seen, pending, degraded, watch>>

------------------------------------------------------------------------------
(* Watches. *)

\* Mutant of OpenWatch: a watch begins with the cluster as it is now.
OpenWatchNow(s) ==
    /\ watch[s] = NoWatch
    /\ ~degraded /\ s \notin pending /\ versions[s] # NoVersion
    /\ watch' = [watch EXCEPT ![s] =
           [current |-> TRUE, at |-> Now, open |-> TRUE, closed |-> 0, held |-> NoVersion]]
    /\ UNCHANGED <<log, versions, eventVersions, seen, pending, degraded, faults>>

\* watch_scope_once, _watch_scope: the thread of a scope opens its watch.
OpenWatch(s) ==
    /\ watch[s] = NoWatch
    /\ ~degraded /\ s \notin pending /\ versions[s] # NoVersion
    /\ watch' = [watch EXCEPT ![s] =
           [current |-> TRUE, at |-> versions[s], open |-> TRUE, closed |-> 0, held |-> NoVersion]]
    /\ UNCHANGED <<log, versions, eventVersions, seen, pending, degraded, faults>>

\* The next event of a watch is change i, and it is applied.
ApplyEvent(s, i) ==
    /\ watch' = [watch EXCEPT ![s].at = i]
    /\ versions' = [versions EXCEPT ![s] = i]
    /\ seen' = [seen EXCEPT ![s] = IF log[i].there THEN i ELSE 0]

EndsUnseen(s) == watch' = [watch EXCEPT ![s] = NoWatch] /\ UNCHANGED <<versions, seen>>

\* _apply_watch_event: the next event of a watch; one of a replaced watch ends it instead.
Deliver(s, i) ==
    /\ watch[s] # NoWatch
    /\ i \in Undelivered(s) /\ \A j \in Undelivered(s) : i <= j
    /\ IF Current(s) /\ versions[s] # NoVersion THEN ApplyEvent(s, i) ELSE EndsUnseen(s)
    /\ UNCHANGED <<log, eventVersions, pending, degraded, faults>>

\* The next thing in a watch is a bookmark: what changed in its scope up to version n was told.
Bookmark(s) ==
    /\ s \in ObjectScopes /\ watch[s] # NoWatch
    /\ \E n \in watch[s].at + 1 .. Told(s) :
          /\ \A i \in Undelivered(s) : i > n
          /\ IF Current(s) /\ versions[s] # NoVersion
             THEN /\ versions' = [versions EXCEPT ![s] = n]
                  /\ watch' = [watch EXCEPT ![s].at = n]
                  /\ UNCHANGED seen
             ELSE EndsUnseen(s)
    /\ UNCHANGED <<log, eventVersions, pending, degraded, faults>>

\* Mutant of LearnVersion: the learned version is one too far.
LearnVersionNext(s) ==
    /\ s \in EventScopes /\ watch[s] # NoWatch
    /\ watch' = [watch EXCEPT ![s].held = Now + 1]
    /\ UNCHANGED <<log, versions, eventVersions, seen, pending, degraded, faults>>

\* refresh_bookmarks_once: a LIST while the thread of a scope of Events has its watch learns a
\* version for it, also when the server closed the watch and the thread did not notice yet.
LearnVersion(s) ==
    /\ s \in EventScopes /\ watch[s] # NoWatch
    /\ watch' = [watch EXCEPT ![s].held = Now]
    /\ UNCHANGED <<log, versions, eventVersions, seen, pending, degraded, faults>>

\* The server closes a watch; what it sent before may still have to be read.
CloseWatch(s) ==
    /\ watch[s] # NoWatch /\ watch[s].open
    /\ watch' = [watch EXCEPT ![s].open = FALSE, ![s].closed = Now]
    /\ UNCHANGED <<log, versions, eventVersions, seen, pending, degraded, faults>>

\* Mutant of EndWatch: a version learned for a watch is adopted also when a snapshot replaced it.
EndWatchStale(s) ==
    /\ watch[s] # NoWatch /\ ~watch[s].open /\ Undelivered(s) = {}
    /\ watch' = [watch EXCEPT ![s] = NoWatch]
    /\ versions' = [versions EXCEPT ![s] = IF watch[s].held = NoVersion THEN @ ELSE watch[s].held]
    /\ UNCHANGED <<log, eventVersions, seen, pending, degraded, faults>>

\* _watch_scope after the last event: a newer learned version is where the next watch begins.
EndWatch(s) ==
    /\ watch[s] # NoWatch /\ ~watch[s].open /\ Undelivered(s) = {}
    /\ watch' = [watch EXCEPT ![s] = NoWatch]
    /\ versions' = [versions EXCEPT ![s] =
           IF Current(s) /\ @ # NoVersion /\ watch[s].held # NoVersion /\ watch[s].held > @
           THEN watch[s].held ELSE @]
    /\ UNCHANGED <<log, eventVersions, seen, pending, degraded, faults>>

\* _relist_scope, for scopes whose LIST does not fail.  Of Events nothing is forgotten.
Relist(scopes) ==
    /\ versions' = [s \in Scopes |-> IF s \in scopes THEN Now ELSE versions[s]]
    /\ seen' = [s \in Scopes |->
           IF s \in scopes /\ (s \in ObjectScopes \/ Content(s, Now) # 0) THEN Content(s, Now) ELSE seen[s]]

\* ResourceVersionExpired: this scope alone has a gap and is listed again, or that is owed.
Expire(s, listed) ==
    /\ watch[s] # NoWatch /\ Faulty(TRUE)
    /\ watch' = [watch EXCEPT ![s] = NoWatch]
    /\ Relist(IF Current(s) /\ listed THEN {s} ELSE {})
    /\ pending' = IF ~Current(s) THEN pending ELSE IF listed THEN pending \ {s} ELSE pending \cup {s}
    /\ UNCHANGED <<log, eventVersions, degraded>>

\* Any other failure of a watch: a snapshot is owed.
FailWatch(s) ==
    /\ watch[s] # NoWatch /\ Faulty(TRUE)
    /\ watch' = [watch EXCEPT ![s] = NoWatch]
    /\ degraded' = (degraded \/ Current(s))
    /\ UNCHANGED <<log, versions, eventVersions, seen, pending>>

\* retry_snapshot_once without a snapshot owed: one round of its loop.  What lies between two rounds is
\* also what a retry leaves whose other listings failed; a scope whose LIST fails again stays owed.
RetryRelist(s) ==
    /\ ~degraded /\ s \in pending
    /\ Relist({s}) /\ pending' = pending \ {s}
    /\ UNCHANGED <<log, eventVersions, degraded, watch, faults>>

\* The connector is started again.
Restart ==
    /\ Faulty(TRUE)
    /\ versions' = [s \in Scopes |-> NoVersion] /\ eventVersions' = [s \in Scopes |-> NoVersion]
    /\ seen' = [s \in Scopes |-> 0]
    /\ pending' = {} /\ degraded' = FALSE
    /\ watch' = [s \in Scopes |-> NoWatch]
    /\ UNCHANGED log

\* The steps that put nothing into the stream.
Silent(s) ==
    Change(s) \/ OpenWatch(s) \/ Bookmark(s) \/ LearnVersion(s) \/ CloseWatch(s) \/ EndWatch(s)

Next ==
    \/ \E s \in Scopes :
          \/ Silent(s) \/ FailWatch(s) \/ RetryRelist(s)
          \/ \E i \in 1 .. Now : Deliver(s, i)
          \/ \E listed \in BOOLEAN : Expire(s, listed)
    \/ \E failed \in SUBSET Scopes : Snapshot(failed) \/ Delta(failed)
    \/ PollFails \/ Beat \/ Restart

\* The watch threads and the run loop go on, and the server closes a watch after its timeout.
\* A snapshot is owed after a failure (retry_snapshot_once) and before anything was listed (the
\* first poll, and every read of a stream without a baseline).  Reconciliations are not counted on.
SnapshotOwed == degraded \/ ~SnapshotTaken
Fairness ==
    /\ \A s \in Scopes :
          /\ WF_feedVars(OpenWatch(s)) /\ WF_feedVars(\E i \in 1 .. Now : Deliver(s, i))
          /\ WF_feedVars(CloseWatch(s)) /\ WF_feedVars(EndWatch(s)) /\ WF_feedVars(RetryRelist(s))
    /\ WF_feedVars(SnapshotOwed /\ Snapshot({}))

Spec == Init /\ [][Next]_feedVars /\ Fairness

------------------------------------------------------------------------------
(* Properties. *)

Versions == 0 .. Now \cup {NoVersion}
Watches == [current : BOOLEAN, at : 0 .. Now, open : BOOLEAN, closed : 0 .. Now, held : Versions]

\* Everything known is of a version the cluster has reached.
TypeOK ==
    /\ log \in Seq([scope : Scopes, there : BOOLEAN])
    /\ versions \in [Scopes -> Versions] /\ eventVersions \in [Scopes -> Versions]
    /\ seen \in [Scopes -> 0 .. Now]
    /\ pending \in SUBSET Scopes /\ degraded \in BOOLEAN
    /\ watch \in [Scopes -> Watches \cup {NoWatch}]
    /\ faults \in 0 .. MaxFaults

\* A scope that is to be watched from version v was seen as it was at v or later, so that no
\* change falls between what was seen and what the next watch will tell: across snapshots,
\* reconciliations, replaced watches, bookmarks and relists (_versions against _seen).
NothingSkipped ==
    \A s \in ObjectScopes : versions[s] # NoVersion =>
        \E v \in versions[s] .. Now : seen[s] = Content(s, v)

\* A watch still tells what came after its position, the next one what comes after its version.
TellsAfter(s) == IF Current(s) THEN watch[s].at ELSE versions[s]

\* No listing is owed, and an Event was seen as it was before all that will be told.  (Only what an
\* earlier listing gave is forgotten when the listing of a snapshot fails.)
EventSkipped(s) ==
    /\ versions[s] # NoVersion /\ ~degraded /\ s \notin pending
    /\ \A v \in TellsAfter(s) .. Now :
          /\ seen[s] # Content(s, v)
          /\ eventVersions[s] = NoVersion \/ seen[s] # 0 \/ Content(s, v) > eventVersions[s]

\* A version was learned for the watch of s after the server had closed it.
LearnedLate(s) == Current(s) /\ ~watch[s].open /\ watch[s].held # NoVersion /\ watch[s].held > watch[s].closed

\* The version of an earlier listing counts (again), although nothing was seen in this step.
Restored(s) == versions'[s] = eventVersions[s] /\ seen'[s] = seen[s]

\* There are two ways for an Event to be skipped: at the end of a watch for which a version was
\* learned late, and where the version of a listing counts although a watch told what was older
\* after it.  No other order of listings, relists, failures, replaced watches and learned versions
\* loses one (refresh_bookmarks_once and _delta against _watch_scope).
SkipsHaveCause ==
    [][\A s \in EventScopes : EventSkipped(s)' => EventSkipped(s) \/ LearnedLate(s) \/ Restored(s)]_feedVars

\* What the two looks of refresh_bookmarks_once at the open watch are to ensure: no Event is skipped.
\* It is not so, both ways of SkipsHaveCause happen.
NoEventSkipped == \A s \in EventScopes : ~EventSkipped(s)

\* Whatever expired, failed or was restarted, the connector gets to know every object as it is,
\* from watches, relists and owed snapshots alone: no scope is left unwatched for good.
ObjectsFollowed == \A s \in ObjectScopes : <>[](seen[s] = Content(s, Now))
==============================================================================
