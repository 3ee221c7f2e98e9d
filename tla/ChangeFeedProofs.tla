--------------------------- MODULE ChangeFeedProofs ---------------------------
(***************************************************************************)
(* No change of an object is skipped between what the connector has seen of   *)
(* it and where the next watch of its scope begins, and an Event is skipped in *)
(* two ways only: for any scopes, any number of changes and failures, and       *)
(* whatever the open watches have still to tell when a reconciliation lists.    *)
(***************************************************************************)
EXTENDS ChangeFeed, TLAPS

------------------------------------------------------------------------------
(* What a log makes of a scope. *)

\* Makes and Content for any log f, so that they can be said of the next one too.
MakesIn(f, i, s, v) ==
    /\ i \in 1 .. v /\ f[i].scope = s /\ f[i].there
    /\ \A j \in i + 1 .. v : f[j].scope # s

ContentIn(f, s, v) ==
    IF \E i \in 1 .. v : MakesIn(f, i, s, v) THEN CHOOSE i \in 1 .. v : MakesIn(f, i, s, v) ELSE 0

LEMMA ContentOfLog ==
    \A s, v : Content(s, v) = ContentIn(log, s, v) /\ Content(s, v)' = ContentIn(log', s, v)
  BY DEF Content, ContentIn, Makes, MakesIn

\* One change at most makes what a scope is like.
LEMMA MadeBy ==
    ASSUME NEW f, NEW s, NEW v \in Nat, NEW i \in 1 .. v, MakesIn(f, i, s, v)
    PROVE  ContentIn(f, s, v) = i
<1>1. ASSUME NEW j \in 1 .. v, MakesIn(f, j, s, v) PROVE j = i
  <2>1. CASE j < i
    <3>1. i \in j + 1 .. v  BY <2>1
    <3>2. QED  BY <1>1, <3>1 DEF MakesIn
  <2>2. CASE i < j
    <3>1. j \in i + 1 .. v  BY <2>2
    <3>2. QED  BY <1>1, <3>1 DEF MakesIn
  <2>3. QED  BY <2>1, <2>2
<1>2. QED  BY <1>1 DEF ContentIn

LEMMA MadeByNone ==
    ASSUME NEW f, NEW s, NEW v, \A i \in 1 .. v : ~MakesIn(f, i, s, v)
    PROVE  ContentIn(f, s, v) = 0
  BY DEF ContentIn

LEMMA ContentRange ==
    ASSUME NEW f, NEW s, NEW v \in Nat PROVE ContentIn(f, s, v) \in 0 .. v
<1>1. CASE \E i \in 1 .. v : MakesIn(f, i, s, v)  BY <1>1, MadeBy
<1>2. CASE \A i \in 1 .. v : ~MakesIn(f, i, s, v)  BY <1>2, MadeByNone
<1>3. QED  BY <1>1, <1>2

\* Logs that agree up to a version agree on what a scope is like there.
LEMMA SameContent ==
    ASSUME NEW f, NEW g, NEW s, NEW v \in Nat, \A i \in 1 .. v : f[i] = g[i]
    PROVE  ContentIn(f, s, v) = ContentIn(g, s, v)
<1>1. ASSUME NEW i \in 1 .. v PROVE MakesIn(f, i, s, v) <=> MakesIn(g, i, s, v)
  <2>1. \A j \in i + 1 .. v : f[j] = g[j]  OBVIOUS
  <2>2. QED  BY <2>1 DEF MakesIn
<1>2. CASE \E i \in 1 .. v : MakesIn(f, i, s, v)  BY <1>1, <1>2, MadeBy
<1>3. CASE \A i \in 1 .. v : ~MakesIn(f, i, s, v)  BY <1>1, <1>3, MadeByNone
<1>4. QED  BY <1>2, <1>3

\* A scope stays as it is where nothing changes in it.
LEMMA QuietContent ==
    ASSUME NEW f, NEW s, NEW v \in Nat, NEW w \in Nat, v <= w,
           \A j \in v + 1 .. w : f[j].scope # s
    PROVE  ContentIn(f, s, w) = ContentIn(f, s, v)
<1>1. CASE \E i \in 1 .. v : MakesIn(f, i, s, v)
  <2>1. PICK i \in 1 .. v : MakesIn(f, i, s, v)  BY <1>1
  <2>2. i \in 1 .. w  OBVIOUS
  <2>3. MakesIn(f, i, s, w)
    <3>1. ASSUME NEW j \in i + 1 .. w PROVE f[j].scope # s
      <4>1. j \in i + 1 .. v \/ j \in v + 1 .. w  OBVIOUS
      <4>2. QED  BY <2>1, <4>1 DEF MakesIn
    <3>2. QED  BY <2>1, <2>2, <3>1 DEF MakesIn
  <2>4. QED  BY <2>1, <2>2, <2>3, MadeBy
<1>2. CASE \A i \in 1 .. v : ~MakesIn(f, i, s, v)
  <2>1. ASSUME NEW i \in 1 .. w PROVE ~MakesIn(f, i, s, w)
    <3>1. CASE i \in 1 .. v
      <4>1. SUFFICES ASSUME MakesIn(f, i, s, w) PROVE MakesIn(f, i, s, v)  BY <1>2, <3>1
      <4>2. \A j \in i + 1 .. v : j \in i + 1 .. w  OBVIOUS
      <4>3. QED  BY <3>1, <4>1, <4>2 DEF MakesIn
    <3>2. CASE i \in v + 1 .. w  BY <3>2 DEF MakesIn
    <3>3. QED  BY <3>1, <3>2
  <2>2. QED  BY <1>2, <2>1, MadeByNone
<1>3. QED  BY <1>1, <1>2

\* Right after a change of it, a scope is what the change made it.
LEMMA ContentAtChange ==
    ASSUME NEW f, NEW i \in Nat \ {0}
    PROVE  ContentIn(f, f[i].scope, i) = IF f[i].there THEN i ELSE 0
<1>1. CASE f[i].there
  <2>1. MakesIn(f, i, f[i].scope, i)  BY <1>1 DEF MakesIn
  <2>2. QED  BY <1>1, <2>1, MadeBy
<1>2. CASE ~f[i].there
  <2>1. ASSUME NEW j \in 1 .. i PROVE ~MakesIn(f, j, f[i].scope, i)
    <3>1. CASE j = i  BY <1>2, <3>1 DEF MakesIn
    <3>2. CASE j # i
      <4>1. i \in j + 1 .. i  BY <3>2
      <4>2. QED  BY <4>1 DEF MakesIn
    <3>3. QED  BY <3>1, <3>2
  <2>2. QED  BY <1>2, <2>1, MadeByNone
<1>3. QED  BY <1>1, <1>2

------------------------------------------------------------------------------
(* The invariant: what an open watch was told is never ahead of the version its scope would    *)
(* be watched from again, and no version is learned for a watch of objects.                  *)

WatchesBehind ==
    \A s \in ObjectScopes : watch[s] # NoWatch =>
        /\ watch[s].held = NoVersion
        /\ watch[s].current /\ versions[s] # NoVersion => watch[s].at <= versions[s]

IInv == TypeOK /\ NothingSkipped /\ WatchesBehind

\* What was seen of scope s is what it was like at v, or later.
SeenFrom(s, v) == \E u \in v .. Now : seen[s] = Content(s, u)

LEMMA NowIsNat == TypeOK => Now \in Nat
  BY DEF TypeOK, Now

LEMMA ContentType == ASSUME TypeOK, NEW s, NEW v \in 0 .. Now PROVE Content(s, v) \in 0 .. Now
<1>1. v \in Nat /\ v <= Now  BY NowIsNat
<1>2. ContentIn(log, s, v) \in 0 .. v  BY <1>1, ContentRange
<1>3. QED  BY <1>1, <1>2, ContentOfLog, NowIsNat

\* While the cluster does not change, its content does not.
LEMMA SameLog ==
    ASSUME log' = log PROVE Now' = Now /\ \A s, v : Content(s, v)' = Content(s, v)
  BY ContentOfLog DEF Now

LEMMA VersionIsNat ==
    ASSUME TypeOK, NEW s \in Scopes, versions[s] # NoVersion PROVE versions[s] \in 0 .. Now
  BY DEF TypeOK, Versions

LEMMA WatchType ==
    ASSUME TypeOK, NEW s \in Scopes, watch[s] # NoWatch
    PROVE  /\ watch[s] \in Watches
           /\ watch[s].at \in 0 .. Now /\ Told(s) \in 0 .. Now
  BY NowIsNat DEF TypeOK, Watches, Told

\* A scope listed now is seen as it is now.
LEMMA ListedNow ==
    ASSUME TypeOK, log' = log, NEW s \in ObjectScopes, versions'[s] = Now, seen'[s] = Content(s, Now)
    PROVE  \E v \in versions'[s] .. Now' : seen'[s] = Content(s, v)'
  BY SameLog, NowIsNat

\* A scope nothing was read of is seen as it was.
LEMMA SeenAsBefore ==
    ASSUME NothingSkipped, log' = log, NEW s \in ObjectScopes,
           versions'[s] = versions[s], seen'[s] = seen[s], versions[s] # NoVersion
    PROVE  \E v \in versions'[s] .. Now' : seen'[s] = Content(s, v)'
  BY SameLog DEF NothingSkipped
------------------------------------------------------------------------------
(* The steps that list. *)

LEMMA ListedType ==
    ASSUME TypeOK, NEW failed
    PROVE  /\ ListedEventVersions(failed) \in [Scopes -> Versions]
           /\ ListedVersions(failed) \in [Scopes -> Versions]
           /\ \A s \in ObjectScopes : ListedVersions(failed)[s] = IF s \in failed THEN NoVersion ELSE Now
<1>1. Now \in Versions /\ NoVersion \in Versions  BY NowIsNat DEF Versions
<1>2. ListedEventVersions(failed) \in [Scopes -> Versions]
  BY <1>1 DEF TypeOK, ListedEventVersions
<1>3. QED  BY <1>1, <1>2 DEF ListedVersions, Scopes

LEMMA FaultsType == ASSUME TypeOK, NEW b, Faulty(b) PROVE faults' \in 0 .. MaxFaults
  BY BoundsAssumption DEF TypeOK, Faulty

LEMMA SeenType == ASSUME TypeOK, NEW s \in Scopes PROVE Content(s, Now) \in 0 .. Now /\ 0 \in 0 .. Now
  BY ContentType, NowIsNat

LEMMA SnapshotKeeps == ASSUME IInv, NEW failed, Snapshot(failed) PROVE IInv'
<1>1. TypeOK /\ log' = log  BY DEF IInv, Snapshot
<1>2. /\ versions' = ListedVersions(failed)
      /\ seen' = [s \in Scopes |-> IF s \in failed THEN 0 ELSE Content(s, Now)]
      /\ watch' = Replaced
  BY DEF Snapshot
<1>3. TypeOK'
  <2>1. versions' \in [Scopes -> Versions] /\ eventVersions' \in [Scopes -> Versions]
    BY <1>1, ListedType DEF Snapshot
  <2>2. seen' \in [Scopes -> 0 .. Now]  BY <1>1, <1>2, SeenType
  <2>3. watch' \in [Scopes -> Watches \cup {NoWatch}]  BY <1>1, <1>2 DEF Replaced, TypeOK, Watches
  <2>4. pending' \in SUBSET Scopes /\ degraded' \in BOOLEAN  BY DEF Snapshot, Incomplete
  <2>5. faults' \in 0 .. MaxFaults  BY <1>1, FaultsType DEF Snapshot
  <2>6. Now' = Now  BY <1>1, SameLog
  <2>7. Versions' = Versions /\ Watches' = Watches  BY <2>6 DEF Versions, Watches
  <2>8. QED  BY <1>1, <2>1, <2>2, <2>3, <2>4, <2>5, <2>6, <2>7 DEF TypeOK
<1>4. NothingSkipped'
  <2>1. SUFFICES ASSUME NEW s \in ObjectScopes, versions'[s] # NoVersion
                 PROVE  \E v \in versions'[s] .. Now' : seen'[s] = Content(s, v)'
    BY DEF NothingSkipped
  <2>2. s \notin failed /\ versions'[s] = Now  BY <1>1, <1>2, <2>1, ListedType
  <2>3. seen'[s] = Content(s, Now)  BY <1>2, <2>2 DEF Scopes
  <2>4. QED  BY <1>1, <2>2, <2>3, ListedNow
<1>5. WatchesBehind'
  <2>1. SUFFICES ASSUME NEW s \in ObjectScopes, watch'[s] # NoWatch
                 PROVE  watch'[s].held = NoVersion /\ ~watch'[s].current
    BY DEF WatchesBehind
  <2>2. watch[s] # NoWatch /\ watch'[s] = [watch[s] EXCEPT !.current = FALSE]
    BY <1>2, <2>1 DEF Replaced, Scopes
  <2>3. watch[s].held = NoVersion /\ watch[s] \in Watches
    BY <1>1, <2>2, WatchType DEF IInv, WatchesBehind, Scopes
  <2>4. QED  BY <2>2, <2>3 DEF Watches
<1>6. QED  BY <1>3, <1>4, <1>5 DEF IInv

LEMMA DeltaKeeps == ASSUME IInv, NEW failed, Delta(failed) PROVE IInv'
<1>1. TypeOK /\ NothingSkipped /\ log' = log /\ watch' = watch  BY DEF IInv, Delta
<1>2. /\ versions' = [s \in Scopes |-> IF ListedVersions(failed)[s] = NoVersion THEN versions[s] ELSE ListedVersions(failed)[s]]
      /\ seen' = [s \in Scopes |->
                      IF s \in Changed(Scopes \ failed) THEN Content(s, Now)
                      ELSE IF s \in Vanished(failed) THEN 0 ELSE seen[s]]
  BY DEF Delta
<1>3. Now' = Now /\ Now \in Nat /\ Now # NoVersion  BY <1>1, SameLog, NowIsNat, NullsAssumption
<1>4. TypeOK'
  <2>1. versions' \in [Scopes -> Versions] /\ eventVersions' \in [Scopes -> Versions]
    BY <1>1, <1>2, ListedType DEF Delta, TypeOK
  <2>2. seen' \in [Scopes -> 0 .. Now]  BY <1>1, <1>2, SeenType DEF TypeOK
  <2>3. faults' \in 0 .. MaxFaults  BY <1>1, FaultsType DEF Delta
  <2>4. Versions' = Versions /\ Watches' = Watches  BY <1>3 DEF Versions, Watches
  <2>5. QED  BY <1>1, <1>3, <2>1, <2>2, <2>3, <2>4 DEF TypeOK, Delta
<1>5. ASSUME NEW s \in ObjectScopes
      PROVE  IF s \in failed THEN versions'[s] = versions[s] /\ seen'[s] = seen[s]
             ELSE versions'[s] = Now /\ seen'[s] = Content(s, Now)
  <2>1. CASE s \in failed
    BY <1>1, <1>2, <2>1, ListedType DEF Scopes, Changed, Present, Vanished
  <2>2. CASE s \notin failed
    BY <1>1, <1>2, <1>3, <2>2, ListedType DEF Scopes, Changed, Present, Vanished
  <2>3. QED  BY <2>1, <2>2
<1>6. NothingSkipped'
  <2>1. SUFFICES ASSUME NEW s \in ObjectScopes, versions'[s] # NoVersion
                 PROVE  \E v \in versions'[s] .. Now' : seen'[s] = Content(s, v)'
    BY DEF NothingSkipped
  <2>2. CASE s \in failed  BY <1>1, <1>5, <2>1, <2>2, SeenAsBefore
  <2>3. CASE s \notin failed  BY <1>1, <1>5, <2>3, ListedNow
  <2>4. QED  BY <2>2, <2>3
<1>7. WatchesBehind'
  <2>1. SUFFICES ASSUME NEW s \in ObjectScopes, watch[s] # NoWatch
                 PROVE  /\ watch[s].held = NoVersion
                        /\ watch[s].current /\ versions'[s] # NoVersion => watch[s].at <= versions'[s]
    BY <1>1 DEF WatchesBehind
  <2>2. watch[s].at \in 0 .. Now  BY <1>1, <2>1, WatchType DEF Scopes
  <2>3. CASE s \in failed  BY <1>5, <2>1, <2>3 DEF IInv, WatchesBehind
  <2>4. CASE s \notin failed  BY <1>3, <1>5, <2>1, <2>2, <2>4 DEF IInv, WatchesBehind
  <2>5. QED  BY <2>3, <2>4
<1>8. QED  BY <1>4, <1>6, <1>7 DEF IInv

\* What a relist of some scopes leaves true of every scope of objects.
LEMMA RelistSees ==
    ASSUME TypeOK, NothingSkipped, log' = log, NEW scopes, Relist(scopes)
    PROVE  /\ NothingSkipped'
           /\ versions' \in [Scopes -> Versions] /\ seen' \in [Scopes -> 0 .. Now]
           /\ \A s \in Scopes : versions'[s] = IF s \in scopes THEN Now ELSE versions[s]
<1>1. Now \in Nat /\ Now \in Versions  BY NowIsNat DEF Versions
<1>2. /\ versions' = [s \in Scopes |-> IF s \in scopes THEN Now ELSE versions[s]]
      /\ seen' = [s \in Scopes |->
             IF s \in scopes /\ (s \in ObjectScopes \/ Content(s, Now) # 0) THEN Content(s, Now) ELSE seen[s]]
  BY DEF Relist
<1>3. versions' \in [Scopes -> Versions] /\ seen' \in [Scopes -> 0 .. Now]
  BY <1>1, <1>2, SeenType DEF TypeOK
<1>4. SUFFICES ASSUME NEW s \in ObjectScopes, versions'[s] # NoVersion
               PROVE  \E v \in versions'[s] .. Now' : seen'[s] = Content(s, v)'
  BY <1>2, <1>3 DEF NothingSkipped
<1>5. CASE s \in scopes  BY <1>2, <1>5, ListedNow DEF Scopes
<1>6. CASE s \notin scopes
  <2>1. versions'[s] = versions[s] /\ seen'[s] = seen[s]  BY <1>2, <1>6 DEF Scopes
  <2>2. QED  BY <1>4, <2>1, SeenAsBefore
<1>7. QED  BY <1>5, <1>6

LEMMA RetryKeeps == ASSUME IInv, NEW r \in Scopes, RetryRelist(r) PROVE IInv'
<1>1. /\ TypeOK /\ NothingSkipped /\ log' = log /\ watch' = watch
      /\ Relist({r}) /\ pending' = pending \ {r}
  BY DEF IInv, RetryRelist
<1>2. /\ NothingSkipped' /\ versions' \in [Scopes -> Versions] /\ seen' \in [Scopes -> 0 .. Now]
      /\ \A s \in Scopes : versions'[s] = IF s \in {r} THEN Now ELSE versions[s]
  BY <1>1, RelistSees
<1>3. Now' = Now /\ Now \in Nat  BY <1>1, SameLog, NowIsNat
<1>4. faults' \in 0 .. MaxFaults  BY <1>1 DEF TypeOK, RetryRelist
<1>5. TypeOK'
  <2>1. Versions' = Versions /\ Watches' = Watches  BY <1>3 DEF Versions, Watches
  <2>2. QED  BY <1>1, <1>2, <1>3, <1>4, <2>1 DEF TypeOK, RetryRelist
<1>6. WatchesBehind'
  <2>1. SUFFICES ASSUME NEW s \in ObjectScopes, watch[s] # NoWatch
                 PROVE  /\ watch[s].held = NoVersion
                        /\ watch[s].current /\ versions'[s] # NoVersion => watch[s].at <= versions'[s]
    BY <1>1 DEF WatchesBehind
  <2>2. watch[s].at \in 0 .. Now  BY <1>1, <2>1, WatchType DEF Scopes
  <2>3. versions'[s] = Now \/ versions'[s] = versions[s]  BY <1>2 DEF Scopes
  <2>4. QED  BY <1>3, <2>1, <2>2, <2>3 DEF IInv, WatchesBehind
<1>7. QED  BY <1>2, <1>5, <1>6 DEF IInv

------------------------------------------------------------------------------
(* The cluster, and the steps of the watches. *)

LEMMA ChangeKeeps == ASSUME IInv, NEW s \in Scopes, Change(s) PROVE IInv'
<1>1. /\ TypeOK /\ NothingSkipped /\ WatchesBehind
      /\ UNCHANGED <<versions, eventVersions, seen, pending, degraded, watch, faults>>
  BY DEF IInv, Change
<1>2. PICK there \in BOOLEAN : log' = Append(log, [scope |-> s, there |-> there])  BY DEF Change
<1>3. /\ log' \in Seq([scope : Scopes, there : BOOLEAN])
      /\ Now \in Nat /\ Now' = Now + 1 /\ \A i \in 1 .. Now : log'[i] = log[i]
  BY <1>1, <1>2 DEF TypeOK, Now
<1>4. TypeOK'
  <2>1. Versions \subseteq Versions' /\ 0 .. Now \subseteq 0 .. Now'  BY <1>3 DEF Versions
  <2>2. Watches \subseteq Watches'  BY <2>1 DEF Watches
  <2>3. QED  BY <1>1, <1>3, <2>1, <2>2 DEF TypeOK
<1>5. NothingSkipped'
  <2>1. SUFFICES ASSUME NEW o \in ObjectScopes, versions[o] # NoVersion
                 PROVE  \E v \in versions[o] .. Now' : seen[o] = Content(o, v)'
    BY <1>1 DEF NothingSkipped
  <2>2. PICK v \in versions[o] .. Now : seen[o] = Content(o, v)  BY <1>1, <2>1 DEF NothingSkipped
  <2>3. versions[o] \in Nat  BY <1>1, <1>3, <2>1, VersionIsNat DEF Scopes
  <2>4. v \in Nat /\ v <= Now /\ v \in versions[o] .. Now'  BY <1>3, <2>2, <2>3
  <2>5. ContentIn(log', o, v) = ContentIn(log, o, v)  BY <1>3, <2>4, SameContent
  <2>6. QED  BY <2>2, <2>4, <2>5, ContentOfLog
<1>6. WatchesBehind'  BY <1>1 DEF WatchesBehind
<1>7. QED  BY <1>4, <1>5, <1>6 DEF IInv

\* A step that learns nothing of the cluster keeps what is known, if it keeps the types and the watches.
LEMMA NothingLearned ==
    ASSUME IInv, UNCHANGED <<log, versions, eventVersions, seen>>,
           pending' \in SUBSET Scopes, degraded' \in BOOLEAN, faults' \in 0 .. MaxFaults,
           watch' \in [Scopes -> Watches \cup {NoWatch}], WatchesBehind'
    PROVE  IInv'
<1>1. Now' = Now /\ \A s, v : Content(s, v)' = Content(s, v)  BY SameLog
<1>2. TypeOK'
  <2>1. Versions' = Versions /\ Watches' = Watches  BY <1>1 DEF Versions, Watches
  <2>2. QED  BY <1>1, <2>1 DEF IInv, TypeOK
<1>3. NothingSkipped'
  <2>1. SUFFICES ASSUME NEW s \in ObjectScopes, versions[s] # NoVersion
                 PROVE  \E v \in versions[s] .. Now' : seen[s] = Content(s, v)'
    BY DEF NothingSkipped
  <2>2. QED  BY <1>1, <2>1 DEF IInv, NothingSkipped
<1>4. QED  BY <1>2, <1>3 DEF IInv

LEMMA OpenWatchKeeps == ASSUME IInv, NEW s \in Scopes, OpenWatch(s) PROVE IInv'
<1>1. /\ TypeOK /\ WatchesBehind /\ watch[s] = NoWatch /\ versions[s] # NoVersion
      /\ UNCHANGED <<log, versions, eventVersions, seen, pending, degraded, faults>>
  BY DEF IInv, OpenWatch
<1>2. PICK w :
        w = [current |-> TRUE, at |-> versions[s], open |-> TRUE, closed |-> 0, held |-> NoVersion] /\ watch' = [watch EXCEPT ![s] = w]
  BY DEF OpenWatch
<1>3. versions[s] \in 0 .. Now /\ Now \in Nat  BY <1>1, VersionIsNat, NowIsNat
<1>4. w \in Watches  BY <1>2, <1>3 DEF Watches, Versions
<1>5. watch' \in [Scopes -> Watches \cup {NoWatch}]  BY <1>1, <1>2, <1>4 DEF TypeOK
<1>6. WatchesBehind'
  <2>1. SUFFICES ASSUME NEW o \in ObjectScopes, watch'[o] # NoWatch
                 PROVE  /\ watch'[o].held = NoVersion
                        /\ watch'[o].current /\ versions[o] # NoVersion => watch'[o].at <= versions[o]
    BY <1>1 DEF WatchesBehind
  <2>2. CASE o = s  BY <1>1, <1>2, <1>3, <2>2 DEF TypeOK
  <2>3. CASE o # s  BY <1>1, <1>2, <2>1, <2>3 DEF TypeOK, WatchesBehind, Scopes
  <2>4. QED  BY <2>2, <2>3
<1>7. QED  BY <1>1, <1>5, <1>6, NothingLearned DEF TypeOK

\* A watch that is given up or replaced by one no less behind keeps WatchesBehind.
LEMMA WatchMoves ==
    ASSUME IInv, NEW s \in Scopes, NEW w \in Watches \cup {NoWatch}, watch' = [watch EXCEPT ![s] = w],
           versions' \in [Scopes -> Versions],
           \A o \in ObjectScopes : o # s => versions'[o] = versions[o],
           s \in ObjectScopes /\ w # NoWatch =>
               /\ w.held = NoVersion
               /\ w.current /\ versions'[s] # NoVersion => w.at <= versions'[s]
    PROVE  watch' \in [Scopes -> Watches \cup {NoWatch}] /\ WatchesBehind'
<1>1. watch \in [Scopes -> Watches \cup {NoWatch}]  BY DEF IInv, TypeOK
<1>2. SUFFICES ASSUME NEW o \in ObjectScopes, watch'[o] # NoWatch
               PROVE  /\ watch'[o].held = NoVersion
                      /\ watch'[o].current /\ versions'[o] # NoVersion => watch'[o].at <= versions'[o]
  BY <1>1 DEF WatchesBehind
<1>3. CASE o = s  BY <1>1, <1>2, <1>3
<1>4. CASE o # s
  <2>1. watch'[o] = watch[o] /\ versions'[o] = versions[o]  BY <1>1, <1>4 DEF Scopes
  <2>2. QED  BY <1>2, <2>1 DEF IInv, WatchesBehind
<1>5. QED  BY <1>3, <1>4

\* So it is if no version moves.
LEMMA WatchMovesOnly ==
    ASSUME IInv, NEW s \in Scopes, NEW w \in Watches \cup {NoWatch}, watch' = [watch EXCEPT ![s] = w],
           UNCHANGED <<log, versions, eventVersions, seen>>,
           pending' \in SUBSET Scopes, degraded' \in BOOLEAN, faults' \in 0 .. MaxFaults,
           s \in ObjectScopes /\ w # NoWatch =>
               /\ w.held = NoVersion
               /\ w.current /\ versions[s] # NoVersion => w.at <= versions[s]
    PROVE  IInv'
<1>1. versions' \in [Scopes -> Versions]  BY DEF IInv, TypeOK
<1>2. watch' \in [Scopes -> Watches \cup {NoWatch}] /\ WatchesBehind'  BY <1>1, WatchMoves
<1>3. QED  BY <1>2, NothingLearned

LEMMA LearnVersionKeeps == ASSUME IInv, NEW s \in Scopes, LearnVersion(s) PROVE IInv'
<1>1. /\ TypeOK /\ s \in EventScopes /\ watch[s] # NoWatch
      /\ UNCHANGED <<log, versions, eventVersions, seen, pending, degraded, faults>>
  BY DEF IInv, LearnVersion
<1>2. PICK w : w = [watch[s] EXCEPT !.held = Now] /\ watch' = [watch EXCEPT ![s] = w]  BY DEF LearnVersion
<1>3. w \in Watches  BY <1>1, <1>2, WatchType, NowIsNat DEF Watches, Versions
<1>4. s \notin ObjectScopes  BY <1>1, ScopesAssumption
<1>5. QED  BY <1>1, <1>2, <1>3, <1>4, WatchMovesOnly DEF TypeOK

LEMMA CloseWatchKeeps == ASSUME IInv, NEW s \in Scopes, CloseWatch(s) PROVE IInv'
<1>1. /\ TypeOK /\ watch[s] # NoWatch
      /\ UNCHANGED <<log, versions, eventVersions, seen, pending, degraded, faults>>
  BY DEF IInv, CloseWatch
<1>2. PICK w : w = [watch[s] EXCEPT !.open = FALSE, !.closed = Now] /\ watch' = [watch EXCEPT ![s] = w]
  BY DEF CloseWatch
<1>3. watch[s] \in Watches  BY <1>1, WatchType
<1>4. w \in Watches
  <2>1. Now \in 0 .. Now  BY <1>1, NowIsNat
  <2>2. PICK o : o = [watch[s] EXCEPT !.open = FALSE]  OBVIOUS
  <2>3. o \in Watches  BY <1>3, <2>2 DEF Watches
  <2>4. w = [o EXCEPT !.closed = Now]  BY <1>2, <2>2
  <2>5. QED  BY <2>1, <2>3, <2>4 DEF Watches
<1>5. w.held = watch[s].held /\ w.current = watch[s].current /\ w.at = watch[s].at  BY <1>2, <1>3 DEF Watches
<1>6. QED  BY <1>1, <1>2, <1>4, <1>5, WatchMovesOnly DEF TypeOK, IInv, WatchesBehind

\* A watch that ends without a word.
LEMMA WatchEnds ==
    ASSUME IInv, NEW s \in Scopes, watch' = [watch EXCEPT ![s] = NoWatch],
           UNCHANGED <<log, versions, eventVersions, seen>>,
           pending' \in SUBSET Scopes, degraded' \in BOOLEAN, faults' \in 0 .. MaxFaults
    PROVE  IInv'
  BY WatchMovesOnly

LEMMA FailWatchKeeps == ASSUME IInv, NEW s \in Scopes, FailWatch(s) PROVE IInv'
<1>1. faults' \in 0 .. MaxFaults  BY FaultsType DEF IInv, FailWatch
<1>2. watch' = [watch EXCEPT ![s] = NoWatch] /\ UNCHANGED <<log, versions, eventVersions, seen, pending>>
  BY DEF FailWatch
<1>3. degraded' \in BOOLEAN /\ pending' \in SUBSET Scopes
  BY <1>2 DEF IInv, TypeOK, FailWatch
<1>4. QED  BY <1>1, <1>2, <1>3, WatchEnds

\* A version learned for a watch is one of Events: what is adopted moves no version of objects.
LEMMA EndWatchKeeps == ASSUME IInv, NEW s \in Scopes, EndWatch(s) PROVE IInv'
<1>1. /\ TypeOK /\ watch[s] # NoWatch
      /\ watch' = [watch EXCEPT ![s] = NoWatch]
      /\ UNCHANGED <<log, eventVersions, seen, pending, degraded, faults>>
  BY DEF IInv, EndWatch
<1>2. PICK n : n = IF Current(s) /\ versions[s] # NoVersion /\ watch[s].held # NoVersion /\ watch[s].held > versions[s]
                  THEN watch[s].held ELSE versions[s]
  OBVIOUS
<1>3. versions' = [versions EXCEPT ![s] = n]  BY <1>1, <1>2 DEF EndWatch, TypeOK
<1>4. watch[s].held \in Versions  BY <1>1, WatchType DEF Watches
<1>5. n \in Versions  BY <1>1, <1>2, <1>4 DEF TypeOK
<1>6. versions' \in [Scopes -> Versions]  BY <1>1, <1>3, <1>5 DEF TypeOK
<1>7. \A o \in ObjectScopes : versions'[o] = versions[o]
  <2>1. TAKE o \in ObjectScopes
  <2>2. CASE o = s
    <3>1. watch[s].held = NoVersion  BY <1>1, <2>2 DEF IInv, WatchesBehind
    <3>2. n = versions[s]  BY <1>2, <3>1
    <3>3. QED  BY <1>1, <1>3, <2>2, <3>2 DEF TypeOK
  <2>3. CASE o # s  BY <1>1, <1>3, <2>3 DEF TypeOK, Scopes
  <2>4. QED  BY <2>2, <2>3
<1>8. watch' \in [Scopes -> Watches \cup {NoWatch}] /\ WatchesBehind'
  BY <1>1, <1>6, <1>7, WatchMoves
<1>9. Now' = Now  BY <1>1, SameLog
<1>10. TypeOK'
  <2>1. Versions' = Versions /\ Watches' = Watches  BY <1>9 DEF Versions, Watches
  <2>2. QED  BY <1>1, <1>6, <1>8, <1>9, <2>1 DEF TypeOK
<1>11. NothingSkipped'
  <2>1. SUFFICES ASSUME NEW o \in ObjectScopes, versions'[o] # NoVersion
                 PROVE  \E v \in versions'[o] .. Now' : seen'[o] = Content(o, v)'
    BY DEF NothingSkipped
  <2>2. QED  BY <1>1, <1>7, <2>1, SeenAsBefore DEF IInv
<1>12. QED  BY <1>8, <1>10, <1>11 DEF IInv

\* A watch that read up to version n, where its scope is as it was seen then.
LEMMA WatchReads ==
    ASSUME IInv, NEW s \in Scopes, watch[s] # NoWatch, NEW n \in 0 .. Now,
           watch' = [watch EXCEPT ![s].at = n], versions' = [versions EXCEPT ![s] = n],
           seen' \in [Scopes -> 0 .. Now], \A o \in ObjectScopes : o # s => seen'[o] = seen[o],
           s \in ObjectScopes => \E u \in n .. Now : seen'[s] = Content(s, u),
           UNCHANGED <<log, eventVersions, pending, degraded, faults>>
    PROVE  IInv'
<1>1. TypeOK /\ NothingSkipped  BY DEF IInv
<1>2. Now' = Now /\ Now \in Nat /\ \A o, v : Content(o, v)' = Content(o, v)  BY <1>1, SameLog, NowIsNat
<1>3. watch[s] \in Watches  BY <1>1, WatchType
<1>4. PICK w : w = [watch[s] EXCEPT !.at = n]  OBVIOUS
<1>5. watch' = [watch EXCEPT ![s] = w]  BY <1>1, <1>4 DEF TypeOK
<1>6. w \in Watches /\ w.held = watch[s].held /\ w.at = n  BY <1>3, <1>4 DEF Watches
<1>7. versions' \in [Scopes -> Versions]  BY <1>1 DEF TypeOK, Versions
<1>8. versions'[s] = n /\ \A o \in ObjectScopes : o # s => versions'[o] = versions[o]
  BY <1>1 DEF TypeOK, Scopes
<1>9. s \in ObjectScopes => w.held = NoVersion /\ w.at <= versions'[s]
  BY <1>2, <1>6, <1>8 DEF IInv, WatchesBehind
<1>10. watch' \in [Scopes -> Watches \cup {NoWatch}] /\ WatchesBehind'
  BY <1>5, <1>6, <1>7, <1>8, <1>9, WatchMoves
<1>11. TypeOK'
  <2>1. Versions' = Versions /\ Watches' = Watches  BY <1>2 DEF Versions, Watches
  <2>2. QED  BY <1>1, <1>2, <1>7, <1>10, <2>1 DEF TypeOK
<1>12. NothingSkipped'
  <2>1. SUFFICES ASSUME NEW o \in ObjectScopes, versions'[o] # NoVersion
                 PROVE  \E v \in versions'[o] .. Now' : seen'[o] = Content(o, v)'
    BY DEF NothingSkipped
  <2>2. CASE o = s  BY <1>2, <1>8, <2>2
  <2>3. CASE o # s  BY <1>1, <1>8, <2>1, <2>3, SeenAsBefore
  <2>4. QED  BY <2>2, <2>3
<1>13. QED  BY <1>10, <1>11, <1>12 DEF IInv

\* The next event of a watch is the only change of its scope since the last one it was told.
LEMMA DeliverKeeps == ASSUME IInv, NEW s \in Scopes, NEW i \in 1 .. Now, Deliver(s, i) PROVE IInv'
<1>1. TypeOK /\ watch[s] # NoWatch /\ i \in Undelivered(s)  BY DEF IInv, Deliver
<1>2. UNCHANGED <<log, eventVersions, pending, degraded, faults>>  BY DEF Deliver
<1>3. Now \in Nat /\ i \in 0 .. Now  BY <1>1, NowIsNat
<1>4. log[i].scope = s  BY <1>1 DEF Undelivered
<1>5. CASE EndsUnseen(s)
  BY <1>1, <1>2, <1>5, WatchEnds DEF EndsUnseen, TypeOK
<1>6. CASE ApplyEvent(s, i)
  <2>1. PICK c : c = IF log[i].there THEN i ELSE 0  OBVIOUS
  <2>2. seen' = [seen EXCEPT ![s] = c]  BY <1>6, <2>1 DEF ApplyEvent
  <2>3. c = Content(s, i)
    <3>1. ContentIn(log, log[i].scope, i) = c  BY <1>3, <2>1, ContentAtChange
    <3>2. QED  BY <1>4, <3>1, ContentOfLog
  <2>4. c \in 0 .. Now  BY <1>3, <2>1
  <2>5. seen' \in [Scopes -> 0 .. Now] /\ seen'[s] = c  BY <1>1, <2>2, <2>4 DEF TypeOK
  <2>6. \A o \in ObjectScopes : o # s => seen'[o] = seen[o]  BY <1>1, <2>2 DEF TypeOK, Scopes
  <2>7. \E u \in i .. Now : seen'[s] = Content(s, u)  BY <1>3, <2>3, <2>5
  <2>8. QED  BY <1>1, <1>2, <1>3, <1>6, <2>5, <2>6, <2>7, WatchReads DEF ApplyEvent
<1>7. QED  BY <1>5, <1>6 DEF Deliver

\* A bookmark of version n tells that nothing changed in the scope since the watch was last told
\* something: what was seen before n, by a listing or the watch, is what the scope was like at n.
LEMMA BookmarkKeeps == ASSUME IInv, NEW s \in Scopes, Bookmark(s) PROVE IInv'
<1>1. TypeOK /\ s \in ObjectScopes /\ watch[s] # NoWatch  BY DEF IInv, Bookmark
<1>2. UNCHANGED <<log, eventVersions, pending, degraded, faults>>  BY DEF Bookmark
<1>3. PICK n \in watch[s].at + 1 .. Told(s) :
          /\ \A i \in Undelivered(s) : i > n
          /\ IF Current(s) /\ versions[s] # NoVersion
             THEN /\ versions' = [versions EXCEPT ![s] = n]
                  /\ watch' = [watch EXCEPT ![s].at = n]
                  /\ UNCHANGED seen
             ELSE EndsUnseen(s)
  BY DEF Bookmark
<1>4. /\ Now \in Nat /\ watch[s].at \in Nat /\ Told(s) \in Nat /\ Told(s) <= Now
      /\ n \in Nat /\ watch[s].at < n /\ n <= Told(s) /\ n \in 0 .. Now
  BY <1>1, <1>3, NowIsNat, WatchType
<1>5. CASE ~(Current(s) /\ versions[s] # NoVersion)
  BY <1>1, <1>2, <1>3, <1>5, WatchEnds DEF EndsUnseen, TypeOK
<1>6. CASE Current(s) /\ versions[s] # NoVersion
  <2>1. /\ versions' = [versions EXCEPT ![s] = n] /\ watch' = [watch EXCEPT ![s].at = n]
        /\ seen' = seen
    BY <1>3, <1>6
  <2>2. PICK v \in versions[s] .. Now : seen[s] = Content(s, v)  BY <1>1, <1>6 DEF IInv, NothingSkipped
  <2>3. versions[s] \in 0 .. Now /\ watch[s].at <= versions[s]
    BY <1>1, <1>6, VersionIsNat DEF IInv, WatchesBehind, Current
  <2>4. v \in Nat /\ v <= Now /\ watch[s].at <= v  BY <1>4, <2>2, <2>3
  <2>5. \E u \in n .. Now : seen'[s] = Content(s, u)
    <3>1. CASE n <= v  BY <1>4, <2>1, <2>2, <2>4, <3>1
    <3>2. CASE v < n
      <4>1. ASSUME NEW j \in v + 1 .. n PROVE log[j].scope # s
        <5>1. j \in watch[s].at + 1 .. Told(s) /\ ~(j > n)  BY <1>4, <2>4
        <5>2. QED  BY <1>3, <5>1 DEF Undelivered
      <4>2. ContentIn(log, s, n) = ContentIn(log, s, v)  BY <1>4, <2>4, <3>2, <4>1, QuietContent
      <4>3. seen'[s] = Content(s, n)  BY <2>1, <2>2, <4>2, ContentOfLog
      <4>4. QED  BY <1>4, <4>3
    <3>3. QED  BY <1>4, <2>4, <3>1, <3>2
  <2>6. seen' \in [Scopes -> 0 .. Now]  BY <1>1, <2>1 DEF TypeOK
  <2>7. QED  BY <1>1, <1>2, <1>4, <2>1, <2>5, <2>6, WatchReads
<1>7. QED  BY <1>5, <1>6

LEMMA ExpireKeeps == ASSUME IInv, NEW s \in Scopes, NEW listed \in BOOLEAN, Expire(s, listed) PROVE IInv'
<1>1. /\ TypeOK /\ NothingSkipped /\ watch' = [watch EXCEPT ![s] = NoWatch]
      /\ UNCHANGED <<log, eventVersions, degraded>>
  BY DEF IInv, Expire
<1>2. PICK scopes : scopes = (IF Current(s) /\ listed THEN {s} ELSE {}) /\ Relist(scopes)  BY DEF Expire
<1>3. /\ NothingSkipped' /\ versions' \in [Scopes -> Versions] /\ seen' \in [Scopes -> 0 .. Now]
      /\ \A o \in Scopes : versions'[o] = IF o \in scopes THEN Now ELSE versions[o]
  BY <1>1, <1>2, RelistSees
<1>4. \A o \in ObjectScopes : o # s => versions'[o] = versions[o]  BY <1>2, <1>3 DEF Scopes
<1>5. watch' \in [Scopes -> Watches \cup {NoWatch}] /\ WatchesBehind'
  BY <1>1, <1>3, <1>4, WatchMoves
<1>6. faults' \in 0 .. MaxFaults  BY <1>1, FaultsType DEF Expire
<1>7. pending' \in SUBSET Scopes  BY <1>1 DEF Expire, TypeOK
<1>8. TypeOK'
  <2>1. Now' = Now  BY <1>1, SameLog
  <2>2. Versions' = Versions /\ Watches' = Watches  BY <2>1 DEF Versions, Watches
  <2>3. QED  BY <1>1, <1>3, <1>5, <1>6, <1>7, <2>1, <2>2 DEF TypeOK
<1>9. QED  BY <1>3, <1>5, <1>8 DEF IInv

LEMMA NothingReadKeeps == ASSUME IInv, PollFails \/ Beat PROVE IInv'
<1>1. UNCHANGED <<log, versions, eventVersions, seen, pending, degraded, watch>> /\ Faulty(TRUE)
  BY DEF PollFails, Beat
<1>2. faults' \in 0 .. MaxFaults  BY <1>1, FaultsType DEF IInv
<1>3. WatchesBehind'  BY <1>1 DEF IInv, WatchesBehind
<1>4. QED  BY <1>1, <1>2, <1>3, NothingLearned DEF IInv, TypeOK

LEMMA RestartKeeps == ASSUME IInv, Restart PROVE IInv'
<1>1. TypeOK /\ log' = log  BY DEF IInv, Restart
<1>2. Now' = Now /\ 0 \in 0 .. Now /\ NoVersion \in Versions'  BY <1>1, SameLog, NowIsNat DEF Versions
<1>3. faults' \in 0 .. MaxFaults  BY <1>1, FaultsType DEF Restart
<1>4. TypeOK'  BY <1>1, <1>2, <1>3 DEF Restart, TypeOK
<1>5. \A s \in Scopes : versions'[s] = NoVersion /\ watch'[s] = NoWatch  BY DEF Restart
<1>6. NothingSkipped' /\ WatchesBehind'  BY <1>5 DEF NothingSkipped, WatchesBehind, Scopes
<1>7. QED  BY <1>4, <1>6 DEF IInv

LEMMA InitHolds == ASSUME Init PROVE IInv
<1>1. Now = 0  BY DEF Init, Now
<1>2. TypeOK
  <2>1. NoVersion \in Versions /\ 0 \in 0 .. Now  BY <1>1 DEF Versions
  <2>2. log \in Seq([scope : Scopes, there : BOOLEAN])  BY DEF Init
  <2>3. faults \in 0 .. MaxFaults  BY BoundsAssumption DEF Init
  <2>4. QED  BY <2>1, <2>2, <2>3 DEF Init, TypeOK
<1>3. \A s \in Scopes : versions[s] = NoVersion /\ watch[s] = NoWatch  BY DEF Init
<1>4. NothingSkipped /\ WatchesBehind  BY <1>3 DEF NothingSkipped, WatchesBehind, Scopes
<1>5. QED  BY <1>2, <1>4 DEF IInv

LEMMA StutterKeeps == ASSUME IInv, UNCHANGED feedVars PROVE IInv'
<1>1. WatchesBehind'  BY DEF IInv, WatchesBehind, feedVars
<1>2. QED  BY <1>1, NothingLearned DEF IInv, TypeOK, feedVars

LEMMA NextKeeps == ASSUME IInv, [Next]_feedVars PROVE IInv'
<1>1. CASE UNCHANGED feedVars  BY <1>1, StutterKeeps
<1>2. ASSUME NEW s \in Scopes, Silent(s) PROVE IInv'
  BY <1>2, ChangeKeeps, OpenWatchKeeps, BookmarkKeeps, LearnVersionKeeps, CloseWatchKeeps, EndWatchKeeps DEF Silent
<1>3. ASSUME NEW s \in Scopes, FailWatch(s) \/ RetryRelist(s) PROVE IInv'  BY <1>3, FailWatchKeeps, RetryKeeps
<1>4. ASSUME NEW s \in Scopes, NEW i \in 1 .. Now, Deliver(s, i) PROVE IInv'  BY <1>4, DeliverKeeps
<1>5. ASSUME NEW s \in Scopes, NEW listed \in BOOLEAN, Expire(s, listed) PROVE IInv'  BY <1>5, ExpireKeeps
<1>6. ASSUME NEW failed \in SUBSET Scopes, Snapshot(failed) \/ Delta(failed) PROVE IInv'
  BY <1>6, SnapshotKeeps, DeltaKeeps
<1>7. CASE PollFails \/ Beat  BY <1>7, NothingReadKeeps
<1>8. CASE Restart  BY <1>8, RestartKeeps
<1>9. QED  BY <1>1, <1>2, <1>3, <1>4, <1>5, <1>6, <1>7, <1>8 DEF Next

------------------------------------------------------------------------------
(* The theorems. *)

\* Whatever is listed, watched, expired, failed or started again, IInv holds.
THEOREM Invariance == Spec => []IInv
<1>1. Init => IInv  BY InitHolds
<1>2. IInv /\ [Next]_feedVars => IInv'  BY NextKeeps
<1>3. QED  BY <1>1, <1>2, PTL DEF Spec

\* No version of a scope, a watch or a listing is one that the cluster has not reached yet: a
\* watch is never begun in the future, where its server would refuse it.
THEOREM FeedTypeCorrect == Spec => []TypeOK
<1>1. IInv => TypeOK  BY DEF IInv
<1>2. QED  BY <1>1, Invariance, PTL

\* No change of an object falls between what was last seen of it and where the next watch of its
\* scope begins (_versions against _seen), whatever listings, reconciliations under open watches,
\* replaced watches, bookmarks, relists and restarts come in which order.
THEOREM NothingIsSkipped == Spec => []NothingSkipped
<1>1. IInv => NothingSkipped  BY DEF IInv
<1>2. QED  BY <1>1, Invariance, PTL

------------------------------------------------------------------------------
(* Events.  A watch tells what was changed after what was seen, and so does the next one that is       *)
(* opened, but for the two ways SkipsHaveCause names: a step may make an Event skipped in these only.   *)

\* What was seen of s is what it was like at v, or a failed snapshot has forgotten what a listing gave.
KnownAt(s, v) ==
    \/ seen[s] = Content(s, v)
    \/ eventVersions[s] # NoVersion /\ seen[s] = 0 /\ Content(s, v) <= eventVersions[s]

\* Events are never deleted.
StillThere(s) == \A i \in 1 .. Now : log[i].scope = s => Content(s, Now) # 0

\* Where the next watch begins, the last listing gave or the watch was told before it was closed.
EventOK(s) ==
    /\ StillThere(s)
    /\ \E v \in 0 .. Now : seen[s] = Content(s, v)
    /\ versions[s] = NoVersion <=> eventVersions[s] = NoVersion
    /\ s \in pending => ~Current(s) /\ versions[s] # NoVersion
    /\ Current(s) =>
          /\ versions[s] # NoVersion
          /\ ~watch[s].open => versions[s] <= watch[s].closed \/ versions[s] = eventVersions[s]

EInv == IInv /\ \A s \in EventScopes : EventOK(s)

Caused(s) == EventSkipped(s)' => EventSkipped(s) \/ LearnedLate(s) \/ Restored(s)
EventKept(s) == EventOK(s)' /\ Caused(s)

LEMMA NumbersOf ==
    ASSUME TypeOK, NEW s \in Scopes
    PROVE  /\ Now \in Nat /\ Now # NoVersion
           /\ versions[s] # NoVersion => versions[s] \in Nat /\ versions[s] <= Now
           /\ eventVersions[s] # NoVersion => eventVersions[s] \in Nat /\ eventVersions[s] <= Now
           /\ watch[s] # NoWatch =>
                 /\ watch[s].at \in Nat /\ watch[s].at <= Now /\ Told(s) \in Nat /\ Told(s) <= Now
                 /\ watch[s].held # NoVersion => watch[s].held \in Nat
<1>1. Now \in Nat /\ Now # NoVersion  BY NowIsNat, NullsAssumption
<1>2. versions[s] \in Versions /\ eventVersions[s] \in Versions  BY DEF TypeOK
<1>3. watch[s] # NoWatch => watch[s].at \in 0 .. Now /\ Told(s) \in 0 .. Now /\ watch[s].held \in Versions
  BY WatchType DEF Watches
<1>4. QED  BY <1>1, <1>2, <1>3 DEF Versions

LEMMA SameEvents ==
    ASSUME log' = log, NEW s, UNCHANGED <<seen[s], eventVersions[s]>>
    PROVE  /\ StillThere(s) => StillThere(s)'
           /\ (\E v \in 0 .. Now : seen[s] = Content(s, v)) => (\E v \in 0 .. Now : seen[s] = Content(s, v))'
           /\ \A v : KnownAt(s, v)' <=> KnownAt(s, v)
  BY SameLog DEF StillThere, KnownAt

\* Where a scope will be told from is a version the cluster has reached, and an Event is not skipped
\* if it is known at that version or a later one.
SkippedIsUnknown ==
    \A s \in Scopes : versions[s] # NoVersion =>
        /\ TellsAfter(s) \in Nat /\ TellsAfter(s) <= Now
        /\ EventSkipped(s) <=> /\ ~degraded /\ s \notin pending
                               /\ \A v \in TellsAfter(s) .. Now : ~KnownAt(s, v)

LEMMA SkippedMeans == TypeOK => SkippedIsUnknown
<1> SUFFICES ASSUME TypeOK, NEW s \in Scopes, versions[s] # NoVersion
             PROVE  /\ TellsAfter(s) \in Nat /\ TellsAfter(s) <= Now
                    /\ EventSkipped(s) <=> /\ ~degraded /\ s \notin pending
                                           /\ \A v \in TellsAfter(s) .. Now : ~KnownAt(s, v)
  BY DEF SkippedIsUnknown
<1>1. TellsAfter(s) \in Nat /\ TellsAfter(s) <= Now  BY NumbersOf DEF TellsAfter, Current
<1>2. ASSUME NEW v \in TellsAfter(s) .. Now
      PROVE  ~KnownAt(s, v) <=> /\ seen[s] # Content(s, v)
                                /\ eventVersions[s] = NoVersion \/ seen[s] # 0 \/ Content(s, v) > eventVersions[s]
  <2>1. v \in 0 .. Now  BY <1>1, NumbersOf
  <2>2. Content(s, v) \in 0 .. Now  BY <2>1, ContentType
  <2>3. PICK c \in Nat : c = Content(s, v)  BY <2>2, NumbersOf
  <2>4. eventVersions[s] # NoVersion => eventVersions[s] \in Nat  BY NumbersOf
  <2>5. QED  BY <2>3, <2>4 DEF KnownAt
<1>3. QED  BY <1>1, <1>2 DEF EventSkipped

LEMMA SkippedMeansNext == TypeOK' => SkippedIsUnknown'
  BY SkippedMeans, PTL

\* No cause is asked for where the scope is known at a version from which on it will be told.
LEMMA KnownFrom ==
    ASSUME TypeOK', NEW s \in Scopes,
           versions'[s] # NoVersion => \E v : v \in TellsAfter(s)' .. Now' /\ KnownAt(s, v)'
    PROVE  Caused(s)
<1>1. SkippedIsUnknown'  BY SkippedMeansNext
<1>2. CASE versions'[s] = NoVersion  BY <1>2 DEF Caused, EventSkipped
<1>3. CASE versions'[s] # NoVersion  BY <1>1, <1>3 DEF Caused, SkippedIsUnknown
<1>4. QED  BY <1>2, <1>3

\* Nothing is done to the scope that matters for what it will be told.
LEMMA SkippedAsBefore ==
    ASSUME log' = log, NEW s, UNCHANGED <<versions[s], eventVersions[s], seen[s]>>,
           TellsAfter(s)' = TellsAfter(s), degraded => degraded', s \in pending => s \in pending'
    PROVE  Caused(s)
  BY SameLog DEF Caused, EventSkipped

\* Its watch is another or none, and what was read of the scope is what it was.
LEMMA EventStays ==
    ASSUME NEW s, EventOK(s), log' = log, UNCHANGED <<versions[s], eventVersions[s], seen[s]>>,
           Current(s)' => /\ versions[s] # NoVersion /\ s \notin pending'
                          /\ ~watch'[s].open => versions[s] <= watch'[s].closed \/ versions[s] = eventVersions[s],
           s \in pending' => versions[s] # NoVersion
    PROVE  EventOK(s)'
  BY SameEvents DEF EventOK

\* Its watch goes on as it was, or one that was replaced ends, and no more is owed for it.
LEMMA EventUntouched ==
    ASSUME NEW s, EventOK(s), log' = log, UNCHANGED <<versions[s], eventVersions[s], seen[s]>>,
           watch'[s] = watch[s] \/ (~Current(s) /\ watch'[s] = NoWatch),
           degraded => degraded', s \in pending' <=> s \in pending
    PROVE  EventKept(s)
<1>1. Current(s)' <=> Current(s)  BY DEF Current
<1>2. Current(s)' => watch'[s] = watch[s]  BY DEF Current
<1>3. TellsAfter(s)' = TellsAfter(s)  BY <1>1, <1>2 DEF TellsAfter
<1>4. EventOK(s)'  BY <1>1, <1>2, EventStays DEF EventOK
<1>5. QED  BY <1>3, <1>4, SkippedAsBefore DEF EventKept

\* What is not there was never seen.
LEMMA NotThereUnseen ==
    ASSUME TypeOK, NEW s, EventOK(s), Content(s, Now) = 0 PROVE seen[s] = 0
<1>1. \A i \in 1 .. Now : log[i].scope # s  BY DEF EventOK, StillThere
<1>2. PICK v \in 0 .. Now : seen[s] = Content(s, v)  BY DEF EventOK
<1>3. \A i \in 1 .. v : ~MakesIn(log, i, s, v)  BY <1>1, <1>2, NowIsNat DEF MakesIn
<1>4. QED  BY <1>2, <1>3, MadeByNone, ContentOfLog

LEMMA EventScopesAreScopes == ASSUME NEW e \in EventScopes PROVE e \in Scopes /\ e \notin ObjectScopes
  BY ScopesAssumption DEF Scopes

\* The scope is listed: what is seen is what there is now.
LEMMA EventListed ==
    ASSUME TypeOK, TypeOK', NEW s \in Scopes, EventOK(s), log' = log, versions'[s] = Now,
           seen'[s] = Content(s, Now), eventVersions'[s] # NoVersion,
           Current(s)' => eventVersions'[s] = Now,
           s \in pending' => ~Current(s)'
    PROVE  EventKept(s)
<1>1. Now' = Now /\ Now \in Nat /\ Now # NoVersion  BY SameLog, NumbersOf
<1>2. StillThere(s)'  BY SameLog DEF EventOK, StillThere
<1>3. \A v : v = Now => KnownAt(s, v)'  BY SameLog DEF KnownAt
<1>4. (\E v \in 0 .. Now : seen[s] = Content(s, v))'
  <2>1. \A v : v = Now => (seen[s] = Content(s, v))'  BY SameLog
  <2>2. Now \in 0 .. Now'  BY <1>1
  <2>3. QED  BY <2>1, <2>2
<1>5. EventOK(s)'  BY <1>1, <1>2, <1>4 DEF EventOK
<1>6. TellsAfter(s)' \in Nat /\ TellsAfter(s)' <= Now'
  BY <1>1, SkippedMeansNext DEF SkippedIsUnknown
<1>7. Caused(s)
  <2>1. Now \in TellsAfter(s)' .. Now'  BY <1>1, <1>6
  <2>2. QED  BY <1>3, <2>1, KnownFrom
<1>8. QED  BY <1>5, <1>7 DEF EventKept

LEMMA WatchIsNotNone == ASSUME TypeOK, NEW w \in Watches PROVE w # NoWatch
  BY WatchAssumption, NowIsNat DEF Watches, Versions

\* A snapshot that fails for the scope goes back to the last listing of it, and nothing else is known.
LEMMA SnapshotKeepsEvent ==
    ASSUME EInv, IInv', NEW failed, Snapshot(failed), NEW e \in EventScopes PROVE EventKept(e)
<1>1. TypeOK /\ TypeOK' /\ EventOK(e) /\ e \in Scopes /\ e \notin ObjectScopes /\ log' = log
  BY EventScopesAreScopes DEF EInv, IInv, Snapshot
<1>2. Now' = Now /\ Now \in Nat /\ Now # NoVersion /\ \A s, v : Content(s, v)' = Content(s, v)
  BY <1>1, SameLog, NumbersOf
<1>3. /\ versions'[e] = eventVersions'[e]
      /\ eventVersions'[e] = IF e \in failed THEN eventVersions[e] ELSE Now
      /\ seen'[e] = IF e \in failed THEN 0 ELSE Content(e, Now)
  BY <1>1 DEF Snapshot, ListedVersions, ListedEventVersions
<1>4. ~Current(e)'
  <2>1. watch'[e] = IF watch[e] = NoWatch THEN NoWatch ELSE [watch[e] EXCEPT !.current = FALSE]
    BY <1>1 DEF Snapshot, Replaced
  <2>2. watch[e] # NoWatch => [watch[e] EXCEPT !.current = FALSE].current = FALSE
    BY <1>1, WatchType DEF Watches
  <2>3. QED  BY <2>1, <2>2 DEF Current
<1>5. CASE e \notin failed
  BY <1>1, <1>2, <1>3, <1>4, <1>5, EventListed
<1>6. CASE e \in failed
  <2>1. pending' = {}  BY DEF Snapshot
  <2>2. StillThere(e)'  BY <1>1, <1>2 DEF EventOK, StillThere
  <2>3. \A v : v = 0 => (seen[e] = Content(e, v))'
    <3>1. ContentIn(log, e, 0) = 0  BY ContentRange
    <3>2. Content(e, 0) = 0  BY <3>1, ContentOfLog
    <3>3. QED  BY <1>2, <1>3, <1>6, <3>2
  <2>4. (\E v \in 0 .. Now : seen[e] = Content(e, v))'
    <3>1. 0 \in 0 .. Now'  BY <1>2
    <3>2. QED  BY <2>3, <3>1
  <2>5. EventOK(e)'  BY <1>3, <1>4, <2>1, <2>2, <2>4 DEF EventOK
  <2>6. ASSUME versions'[e] # NoVersion PROVE \E v : v \in TellsAfter(e)' .. Now' /\ KnownAt(e, v)'
    <3>1. PICK n \in Nat : n = versions'[e] /\ n <= Now
      BY <1>1, <1>3, <1>6, <2>6, NumbersOf
    <3>2. ContentIn(log, e, n) \in 0 .. n  BY ContentRange
    <3>3. Content(e, n)' <= n  BY <1>2, <3>2, ContentOfLog
    <3>4. KnownAt(e, n)'
      <4>1. \A v : v = n => KnownAt(e, v)'  BY <1>3, <1>6, <2>6, <3>1, <3>3 DEF KnownAt
      <4>2. QED  BY <4>1
    <3>5. TellsAfter(e)' = n  BY <1>4, <3>1 DEF TellsAfter
    <3>6. QED  BY <1>2, <3>1, <3>4, <3>5
  <2>7. QED  BY <1>1, <2>5, <2>6, KnownFrom DEF EventKept
<1>7. QED  BY <1>5, <1>6

\* A reconciliation sees the scope as it is now, or restores the version of the last listing.
LEMMA DeltaKeepsEvent ==
    ASSUME EInv, IInv', NEW failed, Delta(failed), NEW e \in EventScopes PROVE EventKept(e)
<1>1. /\ TypeOK /\ TypeOK' /\ EventOK(e) /\ e \in Scopes /\ e \notin ObjectScopes
      /\ UNCHANGED <<log, pending, degraded, watch>>
  BY EventScopesAreScopes DEF EInv, IInv, Delta
<1>2. Now' = Now /\ Now \in Nat /\ Now # NoVersion  BY <1>1, SameLog, NumbersOf
<1>3. /\ eventVersions'[e] = IF e \in failed THEN eventVersions[e] ELSE Now
      /\ versions'[e] = IF eventVersions'[e] = NoVersion THEN versions[e] ELSE eventVersions'[e]
  BY <1>1 DEF Delta, ListedVersions, ListedEventVersions
<1>4. seen'[e] = IF e \in Changed(Scopes \ failed) THEN Content(e, Now) ELSE seen[e]
  BY <1>1 DEF Delta, Vanished
<1>5. Current(e)' <=> Current(e)  BY <1>1 DEF Current
<1>6. CASE e \notin failed
  <2>1. seen'[e] = Content(e, Now)
    <3>1. CASE Content(e, Now) = 0  BY <1>1, <1>4, <3>1, NotThereUnseen DEF Changed, Present
    <3>2. CASE Content(e, Now) # 0  BY <1>1, <1>4, <1>6, <3>2 DEF Changed, Present
    <3>3. QED  BY <3>1, <3>2
  <2>2. e \in pending' => ~Current(e)'  BY <1>1, <1>5 DEF EventOK
  <2>3. QED  BY <1>1, <1>2, <1>3, <1>5, <1>6, <2>1, <2>2, EventListed
<1>7. CASE e \in failed
  <2>1. seen'[e] = seen[e] /\ eventVersions'[e] = eventVersions[e]
    BY <1>3, <1>4, <1>7 DEF Changed, Present
  <2>2. versions'[e] = eventVersions[e]  BY <1>1, <1>3, <2>1 DEF EventOK
  <2>3. Caused(e)  BY <2>1, <2>2 DEF Caused, Restored
  <2>4. EventOK(e)'  BY <1>1, <1>5, <2>1, <2>2, SameEvents DEF EventOK
  <2>5. QED  BY <2>3, <2>4 DEF EventKept
<1>8. QED  BY <1>6, <1>7

\* What a relist of one scope leaves of a scope of Events.
LEMMA RelistOfEvent ==
    ASSUME EInv, NEW scopes, Relist(scopes), NEW e \in EventScopes
    PROVE  IF e \in scopes THEN versions'[e] = Now /\ seen'[e] = Content(e, Now)
           ELSE versions'[e] = versions[e] /\ seen'[e] = seen[e]
<1>1. TypeOK /\ EventOK(e) /\ e \in Scopes /\ e \notin ObjectScopes
  BY EventScopesAreScopes DEF EInv, IInv
<1>2. /\ versions'[e] = IF e \in scopes THEN Now ELSE versions[e]
      /\ seen'[e] = IF e \in scopes /\ Content(e, Now) # 0 THEN Content(e, Now) ELSE seen[e]
  BY <1>1 DEF Relist
<1>3. QED  BY <1>1, <1>2, NotThereUnseen

LEMMA RetryKeepsEvent ==
    ASSUME EInv, IInv', NEW r \in Scopes, RetryRelist(r), NEW e \in EventScopes PROVE EventKept(e)
<1>1. /\ TypeOK /\ TypeOK' /\ EventOK(e) /\ e \in Scopes /\ r \in pending /\ Relist({r}) /\ pending' = pending \ {r}
      /\ UNCHANGED <<log, eventVersions, watch, degraded>>
  BY EventScopesAreScopes DEF EInv, IInv, RetryRelist
<1>2. IF e = r THEN versions'[e] = Now /\ seen'[e] = Content(e, Now)
      ELSE versions'[e] = versions[e] /\ seen'[e] = seen[e]
  BY <1>1, RelistOfEvent
<1>3. CASE e = r
  <2>1. ~Current(e)' /\ eventVersions'[e] # NoVersion  BY <1>1, <1>3 DEF EventOK, Current
  <2>2. QED  BY <1>1, <1>2, <1>3, <2>1, EventListed
<1>4. CASE e # r  BY <1>1, <1>2, <1>4, EventUntouched
<1>5. QED  BY <1>3, <1>4

\* An expired watch ends: its scope is listed again at once, or that is owed from now on.
LEMMA ExpireKeepsEvent ==
    ASSUME EInv, IInv', NEW s \in Scopes, NEW listed \in BOOLEAN, Expire(s, listed), NEW e \in EventScopes
    PROVE  EventKept(e)
<1>1. /\ TypeOK /\ TypeOK' /\ EventOK(e) /\ e \in Scopes /\ UNCHANGED <<log, eventVersions, degraded>>
      /\ watch \in [Scopes -> Watches \cup {NoWatch}] /\ watch' = [watch EXCEPT ![s] = NoWatch]
      /\ pending' = IF ~Current(s) THEN pending ELSE IF listed THEN pending \ {s} ELSE pending \cup {s}
  BY EventScopesAreScopes DEF EInv, IInv, TypeOK, Expire
<1>2. PICK scopes : scopes = (IF Current(s) /\ listed THEN {s} ELSE {}) /\ Relist(scopes)  BY DEF Expire
<1>3. IF e \in scopes THEN versions'[e] = Now /\ seen'[e] = Content(e, Now)
      ELSE versions'[e] = versions[e] /\ seen'[e] = seen[e]
  BY <1>2, RelistOfEvent
<1>4. watch'[e] = IF e = s THEN NoWatch ELSE watch[e]  BY <1>1
<1>5. CASE e # s  BY <1>1, <1>2, <1>3, <1>4, <1>5, EventUntouched
<1>6. CASE e = s /\ ~Current(e)  BY <1>1, <1>2, <1>3, <1>4, <1>6, EventUntouched
<1>7. CASE e = s /\ Current(e)
  <2>1. ~Current(e)' /\ versions[e] # NoVersion  BY <1>1, <1>4, <1>7 DEF EventOK, Current
  <2>2. CASE listed
    <3>1. eventVersions'[e] # NoVersion  BY <1>1, <2>1 DEF EventOK
    <3>2. QED  BY <1>1, <1>2, <1>3, <1>7, <2>1, <2>2, <3>1, EventListed
  <2>3. CASE ~listed
    <3>1. /\ UNCHANGED <<log, versions[e], eventVersions[e], seen[e]>> /\ e \in pending'
      BY <1>1, <1>2, <1>3, <1>7, <2>3
    <3>2. EventOK(e)'  BY <1>1, <2>1, <3>1, EventStays
    <3>3. Caused(e)  BY <3>1 DEF Caused, EventSkipped
    <3>4. QED  BY <3>2, <3>3 DEF EventKept
  <2>4. QED  BY <2>2, <2>3
<1>8. QED  BY <1>5, <1>6, <1>7

\* A watch begins where its scope was to be told from.
LEMMA OpenWatchKeepsEvent ==
    ASSUME EInv, NEW s \in Scopes, OpenWatch(s), NEW e \in EventScopes PROVE EventKept(e)
<1>1. /\ TypeOK /\ EventOK(e) /\ e \in Scopes /\ watch[s] = NoWatch /\ s \notin pending /\ versions[s] # NoVersion
      /\ UNCHANGED <<log, versions, eventVersions, seen, pending, degraded, faults>>
      /\ watch \in [Scopes -> Watches \cup {NoWatch}]
  BY EventScopesAreScopes DEF EInv, IInv, TypeOK, OpenWatch
<1>2. PICK w : w = [current |-> TRUE, at |-> versions[s], open |-> TRUE, closed |-> 0, held |-> NoVersion]
               /\ watch' = [watch EXCEPT ![s] = w]
  BY DEF OpenWatch
<1>3. CASE e # s
  <2>1. watch'[e] = watch[e]  BY <1>1, <1>2, <1>3
  <2>2. QED  BY <1>1, <2>1, EventUntouched
<1>4. CASE e = s
  <2>1. watch'[e] = w /\ w.at = versions[e] /\ w.open  BY <1>1, <1>2, <1>4
  <2>2. EventOK(e)'  BY <1>1, <1>4, <2>1, EventStays DEF EventOK
  <2>3. TellsAfter(e)' = TellsAfter(e)  BY <1>1, <1>4, <2>1 DEF TellsAfter, Current
  <2>4. QED  BY <1>1, <2>2, <2>3, SkippedAsBefore DEF EventKept
<1>5. QED  BY <1>3, <1>4

\* The next event of a watch is what its scope is like at that version.
LEMMA DeliverKeepsEvent ==
    ASSUME EInv, IInv', NEW s \in Scopes, NEW i \in 1 .. Now, Deliver(s, i), NEW e \in EventScopes
    PROVE  EventKept(e)
<1>1. /\ TypeOK /\ TypeOK' /\ EventOK(e) /\ e \in Scopes /\ watch[s] # NoWatch /\ i \in Undelivered(s)
      /\ UNCHANGED <<log, eventVersions, pending, degraded, faults>>
  BY EventScopesAreScopes DEF EInv, IInv, Deliver
<1>2. /\ watch \in [Scopes -> Watches \cup {NoWatch}] /\ DOMAIN versions = Scopes /\ DOMAIN seen = Scopes
  BY <1>1 DEF TypeOK
<1>3. CASE EndsUnseen(s) /\ ~(Current(s) /\ versions[s] # NoVersion)
  <2>1. watch'[e] = IF e = s THEN NoWatch ELSE watch[e]  BY <1>1, <1>2, <1>3 DEF EndsUnseen
  <2>2. e = s => ~Current(e)  BY <1>1, <1>3 DEF EventOK
  <2>3. QED  BY <1>1, <1>3, <2>1, <2>2, EventUntouched DEF EndsUnseen
<1>4. CASE ApplyEvent(s, i) /\ Current(s) /\ versions[s] # NoVersion
  <2>1. CASE e # s
    <3>1. watch'[e] = watch[e] /\ versions'[e] = versions[e] /\ seen'[e] = seen[e]
      BY <1>1, <1>2, <1>4, <2>1 DEF ApplyEvent
    <3>2. QED  BY <1>1, <3>1, EventUntouched
  <2>2. CASE e = s
    <3>1. Now' = Now /\ Now \in Nat /\ i \in Nat /\ i <= Now /\ i # NoVersion
      BY <1>1, SameLog, NumbersOf, NullsAssumption
    <3>2. PICK w : w = [watch[e] EXCEPT !.at = i] /\ watch[e] \in Watches
      BY <1>1, <2>2, WatchType
    <3>3. /\ watch'[e] = w /\ w.at = i /\ w.open = watch[e].open /\ w.closed = watch[e].closed
          /\ w.current = watch[e].current
      BY <1>1, <1>2, <1>4, <2>2, <3>2 DEF ApplyEvent, Watches
    <3>4. versions'[e] = i  BY <1>1, <1>2, <1>4, <2>2 DEF ApplyEvent
    <3>5. seen'[e] = Content(e, i)
      <4>1. seen'[e] = IF log[i].there THEN i ELSE 0  BY <1>1, <1>2, <1>4, <2>2 DEF ApplyEvent
      <4>2. log[i].scope = e  BY <1>1, <2>2 DEF Undelivered
      <4>3. ContentIn(log, log[i].scope, i) = IF log[i].there THEN i ELSE 0  BY <3>1, ContentAtChange
      <4>4. QED  BY <4>1, <4>2, <4>3, ContentOfLog
    <3>6. \A v : v = i => KnownAt(e, v)'  BY <1>1, <3>5, SameLog DEF KnownAt
    <3>7. TellsAfter(e)' = i  BY <3>3, <3>4 DEF TellsAfter
    <3>8. Caused(e)
      <4>1. i \in TellsAfter(e)' .. Now'  BY <3>1, <3>7
      <4>2. QED  BY <1>1, <3>6, <4>1, KnownFrom
    <3>9. (\E v \in 0 .. Now : seen[e] = Content(e, v))'
      <4>1. \A v : v = i => (seen[e] = Content(e, v))'  BY <1>1, <3>5, SameLog
      <4>2. i \in 0 .. Now'  BY <3>1
      <4>3. QED  BY <4>1, <4>2
    <3>10. StillThere(e)'  BY <1>1, SameLog DEF EventOK, StillThere
    <3>11. ~watch'[e].open => versions'[e] <= watch'[e].closed
      <4>1. i \in watch[e].at + 1 .. Told(e) /\ watch[e].at \in Nat /\ Told(e) \in Nat
        BY <1>1, <2>2, NumbersOf DEF Undelivered
      <4>2. QED  BY <3>3, <3>4, <4>1 DEF Told
    <3>12. Current(e) /\ e \notin pending /\ eventVersions[e] # NoVersion
      BY <1>1, <1>4, <2>2 DEF EventOK
    <3>13. EventOK(e)'  BY <1>1, <3>1, <3>4, <3>9, <3>10, <3>11, <3>12 DEF EventOK
    <3>14. QED  BY <3>8, <3>13 DEF EventKept
  <2>3. QED  BY <2>1, <2>2
<1>5. QED  BY <1>3, <1>4 DEF Deliver

\* A bookmark is for a watch of objects.
LEMMA BookmarkKeepsEvent ==
    ASSUME EInv, NEW s \in Scopes, Bookmark(s), NEW e \in EventScopes PROVE EventKept(e)
<1>1. /\ TypeOK /\ EventOK(e) /\ e \in Scopes /\ e # s
      /\ UNCHANGED <<log, eventVersions, pending, seen, degraded>>
  BY EventScopesAreScopes DEF EInv, IInv, Bookmark, EndsUnseen
<1>2. watch'[e] = watch[e] /\ versions'[e] = versions[e]
  BY <1>1 DEF Bookmark, EndsUnseen, TypeOK
<1>3. QED  BY <1>1, <1>2, EventUntouched

\* What is learned for a watch, and that it is closed, changes nothing until it ends.
LEMMA LearnVersionKeepsEvent ==
    ASSUME EInv, NEW s \in Scopes, LearnVersion(s), NEW e \in EventScopes PROVE EventKept(e)
<1>1. /\ TypeOK /\ EventOK(e) /\ e \in Scopes /\ watch[s] # NoWatch
      /\ UNCHANGED <<log, versions, eventVersions, seen, pending, degraded, faults>>
      /\ watch \in [Scopes -> Watches \cup {NoWatch}]
  BY EventScopesAreScopes DEF EInv, IInv, TypeOK, LearnVersion
<1>2. PICK w : w = [watch[s] EXCEPT !.held = Now] /\ watch' = [watch EXCEPT ![s] = w]  BY DEF LearnVersion
<1>3. CASE e # s
  <2>1. watch'[e] = watch[e]  BY <1>1, <1>2, <1>3
  <2>2. QED  BY <1>1, <2>1, EventUntouched
<1>4. CASE e = s
  <2>1. watch[e] \in Watches  BY <1>1, <1>4, WatchType
  <2>2. /\ watch'[e] = w /\ w.at = watch[e].at /\ w.open = watch[e].open
        /\ w.closed = watch[e].closed /\ w.current = watch[e].current
    BY <1>1, <1>2, <1>4, <2>1 DEF Watches
  <2>3. Current(e)' => Current(e)  BY <1>1, <1>4, <2>2 DEF Current
  <2>4. TellsAfter(e)' = TellsAfter(e)
    <3>1. watch[e] # NoWatch  BY <1>1, <1>4
    <3>2. w # NoWatch
      <4>1. w \in Watches  BY <1>1, <1>2, <1>4, <2>1, NowIsNat DEF Watches, Versions
      <4>2. QED  BY <1>1, <4>1, WatchIsNotNone
    <3>3. QED  BY <1>1, <2>2, <3>1, <3>2 DEF TellsAfter, Current
  <2>5. EventOK(e)'  BY <1>1, <2>2, <2>3, EventStays DEF EventOK
  <2>6. QED  BY <1>1, <2>4, <2>5, SkippedAsBefore DEF EventKept
<1>5. QED  BY <1>3, <1>4

LEMMA CloseWatchKeepsEvent ==
    ASSUME EInv, NEW s \in Scopes, CloseWatch(s), NEW e \in EventScopes PROVE EventKept(e)
<1>1. /\ TypeOK /\ EventOK(e) /\ e \in Scopes /\ watch[s] # NoWatch
      /\ UNCHANGED <<log, versions, eventVersions, seen, pending, degraded, faults>>
      /\ watch \in [Scopes -> Watches \cup {NoWatch}]
  BY EventScopesAreScopes DEF EInv, IInv, TypeOK, CloseWatch
<1>2. PICK w : w = [watch[s] EXCEPT !.open = FALSE, !.closed = Now] /\ watch' = [watch EXCEPT ![s] = w]
  BY DEF CloseWatch
<1>3. CASE e # s
  <2>1. watch'[e] = watch[e]  BY <1>1, <1>2, <1>3
  <2>2. QED  BY <1>1, <2>1, EventUntouched
<1>4. CASE e = s
  <2>1. watch[e] \in Watches  BY <1>1, <1>4, WatchType
  <2>2. /\ watch'[e] = w /\ w.at = watch[e].at /\ w.closed = Now /\ w.current = watch[e].current
    BY <1>1, <1>2, <1>4, <2>1 DEF Watches
  <2>3. Current(e)' => Current(e)  BY <1>1, <1>4, <2>2 DEF Current
  <2>4. TellsAfter(e)' = TellsAfter(e)
    <3>1. watch[e] # NoWatch  BY <1>1, <1>4
    <3>2. w # NoWatch
      <4>1. Now \in 0 .. Now  BY <1>1, NowIsNat
      <4>2. PICK o : o = [watch[e] EXCEPT !.open = FALSE]  OBVIOUS
      <4>3. o \in Watches  BY <2>1, <4>2 DEF Watches
      <4>4. w = [o EXCEPT !.closed = Now]  BY <1>2, <1>4, <4>2
      <4>5. w \in Watches  BY <4>1, <4>3, <4>4 DEF Watches
      <4>6. QED  BY <1>1, <4>5, WatchIsNotNone
    <3>3. QED  BY <1>1, <2>2, <3>1, <3>2 DEF TellsAfter, Current
  <2>5. EventOK(e)'  BY <1>1, <2>2, <2>3, EventStays, NumbersOf DEF EventOK
  <2>6. QED  BY <1>1, <2>4, <2>5, SkippedAsBefore DEF EventKept
<1>5. QED  BY <1>3, <1>4

\* When a watch ends it has told everything up to where it was closed: what its scope is to be told from
\* next is no further, unless it was learned late, or is the version of a listing that counts (again).
LEMMA EndWatchKeepsEvent ==
    ASSUME EInv, IInv', NEW s \in Scopes, EndWatch(s), NEW e \in EventScopes PROVE EventKept(e)
<1>1. /\ TypeOK /\ TypeOK' /\ EventOK(e) /\ e \in Scopes
      /\ watch[s] # NoWatch /\ ~watch[s].open /\ Undelivered(s) = {}
      /\ watch' = [watch EXCEPT ![s] = NoWatch]
      /\ UNCHANGED <<log, eventVersions, seen, pending, degraded, faults>>
      /\ watch \in [Scopes -> Watches \cup {NoWatch}]
  BY EventScopesAreScopes DEF EInv, IInv, TypeOK, EndWatch
<1>2. watch'[e] = IF e = s THEN NoWatch ELSE watch[e]  BY <1>1
<1>3. versions'[e] = IF e = s /\ Current(s) /\ versions[s] # NoVersion /\ watch[s].held # NoVersion
                        /\ watch[s].held > versions[s]
                     THEN watch[s].held ELSE versions[e]
  BY <1>1 DEF EndWatch, TypeOK
<1>4. CASE e # s \/ ~Current(e)
  BY <1>1, <1>2, <1>3, <1>4, EventUntouched
<1>5. CASE e = s /\ Current(e)
  <2>1. versions[e] # NoVersion /\ eventVersions[e] # NoVersion /\ e \notin pending
    BY <1>1, <1>5 DEF EventOK
  <2>2. PICK n \in Nat : n = versions'[e] /\ n <= Now /\ n # NoVersion
    <3>1. watch[e].held \in Versions  BY <1>1, <1>5, WatchType DEF Watches
    <3>2. versions[e] \in Versions  BY <1>1 DEF TypeOK
    <3>3. versions'[e] # NoVersion  BY <1>3, <2>1
    <3>4. versions'[e] \in 0 .. Now  BY <1>3, <3>1, <3>2, <3>3 DEF Versions
    <3>5. QED  BY <1>1, <3>3, <3>4, NowIsNat
  <2>3. ~Current(e)' /\ TellsAfter(e)' = n  BY <1>2, <1>5, <2>2 DEF Current, TellsAfter
  <2>4. EventOK(e)'  BY <1>1, <2>1, <2>2, <2>3, SameEvents DEF EventOK
  <2>5. CASE versions'[e] = eventVersions[e]  BY <1>1, <2>4, <2>5 DEF EventKept, Caused, Restored
  <2>6. CASE LearnedLate(e)  BY <2>4, <2>6 DEF EventKept, Caused
  <2>7. CASE versions'[e] # eventVersions[e] /\ ~LearnedLate(e)
    <3>1. n <= Told(e) /\ Told(e) \in Nat /\ Told(e) <= Now /\ watch[e].at \in Nat /\ Now \in Nat
      <4>1. Told(e) = watch[e].closed /\ Told(e) \in Nat /\ Told(e) <= Now /\ watch[e].at \in Nat /\ Now \in Nat
        BY <1>1, <1>5, NumbersOf DEF Told
      <4>2. CASE n = versions[e]
        BY <1>1, <1>5, <2>2, <2>7, <4>1, <4>2 DEF EventOK
      <4>3. CASE n = watch[e].held
        BY <1>1, <1>5, <2>2, <2>7, <4>1, <4>3 DEF LearnedLate
      <4>4. QED  BY <1>3, <1>5, <2>2, <4>1, <4>2, <4>3
    <3>2. SUFFICES ASSUME EventSkipped(e)' PROVE EventSkipped(e)
      BY <2>4 DEF EventKept, Caused
    <3>3. ~degraded /\ e \notin pending /\ \A v \in n .. Now : ~KnownAt(e, v)
      <4>1. /\ ~degraded' /\ e \notin pending'
            /\ \A v \in TellsAfter(e)' .. Now' : ~KnownAt(e, v)'
        BY <1>1, <2>2, <3>2, SkippedMeansNext DEF SkippedIsUnknown
      <4>2. QED  BY <1>1, <2>3, <4>1, SameEvents, SameLog
    <3>4. ASSUME NEW v \in watch[e].at .. Now PROVE ~KnownAt(e, v)
      <4>1. CASE n <= v  BY <2>2, <3>1, <3>3, <4>1
      <4>2. CASE v < n
        <5>1. v \in Nat /\ v <= Told(e)  BY <2>2, <3>1, <4>2
        <5>2. ASSUME NEW j \in v + 1 .. Told(e) PROVE log[j].scope # e
          <6>1. j \in watch[e].at + 1 .. Told(e)  BY <3>1, <5>1
          <6>2. QED  BY <1>1, <1>5, <6>1 DEF Undelivered
        <5>3. Content(e, Told(e)) = Content(e, v)
          BY <3>1, <5>1, <5>2, QuietContent, ContentOfLog
        <5>4. ~KnownAt(e, Told(e))  BY <2>2, <3>1, <3>3
        <5>5. QED  BY <5>3, <5>4 DEF KnownAt
      <4>3. QED  BY <2>2, <3>1, <4>1, <4>2
    <3>5. TellsAfter(e) = watch[e].at  BY <1>5 DEF TellsAfter
    <3>6. QED  BY <1>1, <2>1, <3>3, <3>4, <3>5, SkippedMeans DEF SkippedIsUnknown
  <2>8. QED  BY <2>4, <2>5, <2>6, <2>7 DEF EventKept
<1>6. QED  BY <1>4, <1>5

\* A watch that fails leaves a snapshot owed, unless it was replaced.
LEMMA FailWatchKeepsEvent ==
    ASSUME EInv, NEW s \in Scopes, FailWatch(s), NEW e \in EventScopes PROVE EventKept(e)
<1>1. /\ EventOK(e) /\ e \in Scopes /\ watch \in [Scopes -> Watches \cup {NoWatch}]
      /\ watch' = [watch EXCEPT ![s] = NoWatch] /\ degraded' = (degraded \/ Current(s))
      /\ UNCHANGED <<log, versions, eventVersions, seen, pending>>
  BY EventScopesAreScopes DEF EInv, IInv, TypeOK, FailWatch
<1>2. watch'[e] = IF e = s THEN NoWatch ELSE watch[e]  BY <1>1
<1>3. CASE e # s \/ ~Current(e)  BY <1>1, <1>2, <1>3, EventUntouched
<1>4. CASE e = s /\ Current(e)
  <2>1. ~Current(e)' /\ versions[e] # NoVersion  BY <1>1, <1>2, <1>4 DEF Current, EventOK
  <2>2. EventOK(e)'  BY <1>1, <2>1, EventStays
  <2>3. Caused(e)  BY <1>1, <1>4 DEF Caused, EventSkipped
  <2>4. QED  BY <2>2, <2>3 DEF EventKept
<1>5. QED  BY <1>3, <1>4

\* What was known of an Event stays so when the cluster goes on.
LEMMA ChangeKeepsEvent ==
    ASSUME EInv, IInv', NEW s \in Scopes, Change(s), NEW e \in EventScopes PROVE EventKept(e)
<1>1. /\ TypeOK /\ TypeOK' /\ EventOK(e) /\ e \in Scopes /\ e \notin ObjectScopes
      /\ UNCHANGED <<versions, eventVersions, seen, pending, degraded, watch>>
  BY EventScopesAreScopes DEF EInv, IInv, Change
<1>2. PICK there \in BOOLEAN : /\ there \/ s \in ObjectScopes
                               /\ log' = Append(log, [scope |-> s, there |-> there])
  BY DEF Change
<1>3. /\ Now \in Nat /\ Now' = Now + 1 /\ \A i \in 1 .. Now : log'[i] = log[i]
      /\ log'[Now + 1] = [scope |-> s, there |-> there]
  BY <1>1, <1>2 DEF TypeOK, Now
<1>4. PICK n \in Nat : n = Now  BY <1>3
<1>5. \A v \in 0 .. n : Content(e, v)' = Content(e, v)
  <2>1. TAKE v \in 0 .. n
  <2>2. v \in Nat /\ \A i \in 1 .. v : log'[i] = log[i]  BY <1>3, <1>4
  <2>3. ContentIn(log', e, v) = ContentIn(log, e, v)  BY <2>2, SameContent
  <2>4. QED  BY <2>3, ContentOfLog
<1>6. \A v \in 0 .. n : KnownAt(e, v) => KnownAt(e, v)'  BY <1>1, <1>5 DEF KnownAt
<1>7. StillThere(e)'
  <2>1. SUFFICES ASSUME NEW i \in 1 .. n + 1, log'[i].scope = e PROVE Content(e, Now)' # 0
    BY <1>3, <1>4 DEF StillThere
  <2>2. Content(e, Now)' = ContentIn(log', e, n + 1)  BY <1>3, <1>4 DEF Content, ContentIn, Makes, MakesIn
  <2>3. CASE s = e
    <3>1. log'[n + 1].scope = e /\ log'[n + 1].there
      <4>1. there = TRUE  BY <1>1, <1>2, <2>3
      <4>2. log'[n + 1] = [scope |-> s, there |-> there]  BY <1>3, <1>4
      <4>3. log'[n + 1].scope = s /\ log'[n + 1].there = there  BY <4>2
      <4>4. QED  BY <2>3, <4>1, <4>3
    <3>2. ContentIn(log', log'[n + 1].scope, n + 1) = n + 1  BY <1>4, <3>1, ContentAtChange
    <3>3. QED  BY <1>4, <2>2, <3>1, <3>2
  <2>4. CASE s # e
    <3>1. log'[n + 1].scope # e  BY <1>3, <1>4, <2>4
    <3>2. i \in 1 .. n /\ log[i].scope = e
      <4>1. i # n + 1  BY <2>1, <3>1
      <4>2. QED  BY <1>3, <1>4, <2>1, <4>1
    <3>3. ContentIn(log', e, n + 1) = ContentIn(log', e, n)
      <4>1. \A j \in n + 1 .. n + 1 : log'[j].scope # e  BY <1>4, <3>1
      <4>2. QED  BY <4>1, QuietContent
    <3>4. ContentIn(log', e, n) = ContentIn(log, e, n)  BY <1>3, <1>4, SameContent
    <3>5. Content(e, Now) # 0  BY <1>1, <1>4, <3>2 DEF EventOK, StillThere
    <3>6. QED  BY <1>4, <2>2, <3>3, <3>4, <3>5, ContentOfLog
  <2>5. QED  BY <2>3, <2>4
<1>8. (\E v \in 0 .. Now : seen[e] = Content(e, v))'
  <2>1. PICK v \in 0 .. n : seen[e] = Content(e, v)  BY <1>1, <1>4 DEF EventOK
  <2>2. v \in 0 .. Now'  BY <1>3, <1>4
  <2>3. \A u : u = v => (seen[e] = Content(e, u))'  BY <1>1, <1>5, <2>1
  <2>4. QED  BY <2>2, <2>3
<1>9. Current(e)' <=> Current(e)  BY <1>1 DEF Current
<1>10. EventOK(e)'  BY <1>1, <1>7, <1>8, <1>9 DEF EventOK
<1>11. ASSUME versions[e] # NoVersion, EventSkipped(e)' PROVE EventSkipped(e)
  <2>1. PICK t \in Nat : t = TellsAfter(e)  BY <1>1, <1>11, SkippedMeans DEF SkippedIsUnknown
  <2>2. TellsAfter(e)' = t  BY <1>1, <1>9, <2>1 DEF TellsAfter
  <2>3. ~degraded /\ e \notin pending /\ \A v \in t .. Now' : ~KnownAt(e, v)'
    BY <1>1, <1>11, <2>2, SkippedMeansNext DEF SkippedIsUnknown
  <2>4. ASSUME NEW v \in t .. Now PROVE ~KnownAt(e, v)
    <3>1. v \in 0 .. n /\ v \in t .. Now'  BY <1>3, <1>4, <2>1
    <3>2. QED  BY <1>6, <2>3, <3>1
  <2>5. QED  BY <1>1, <1>11, <2>1, <2>3, <2>4, SkippedMeans DEF SkippedIsUnknown
<1>12. Caused(e)
  <2>1. EventSkipped(e)' => versions[e] # NoVersion  BY <1>1 DEF EventSkipped
  <2>2. QED  BY <1>11, <2>1 DEF Caused
<1>13. QED  BY <1>10, <1>12 DEF EventKept

LEMMA RestartKeepsEvent == ASSUME EInv, Restart, NEW e \in EventScopes PROVE EventKept(e)
<1>1. /\ TypeOK /\ EventOK(e) /\ e \in Scopes /\ log' = log /\ pending' = {}
      /\ versions'[e] = NoVersion /\ eventVersions'[e] = NoVersion /\ seen'[e] = 0 /\ watch'[e] = NoWatch
  BY EventScopesAreScopes DEF EInv, IInv, Restart
<1>2. Now' = Now /\ Now \in Nat /\ \A v : Content(e, v)' = Content(e, v)  BY <1>1, SameLog, NowIsNat
<1>3. StillThere(e)'  BY <1>1, <1>2 DEF EventOK, StillThere
<1>4. (\E v \in 0 .. Now : seen[e] = Content(e, v))'
  <2>1. ContentIn(log, e, 0) = 0  BY ContentRange
  <2>2. Content(e, 0) = 0  BY <2>1, ContentOfLog
  <2>3. \A v : v = 0 => (seen[e] = Content(e, v))'  BY <1>1, <1>2, <2>2
  <2>4. 0 \in 0 .. Now'  BY <1>2
  <2>5. QED  BY <2>3, <2>4
<1>5. EventOK(e)'  BY <1>1, <1>3, <1>4 DEF EventOK, Current
<1>6. Caused(e)  BY <1>1 DEF Caused, EventSkipped
<1>7. QED  BY <1>5, <1>6 DEF EventKept

LEMMA NothingReadKeepsEvent ==
    ASSUME EInv, UNCHANGED <<log, versions, eventVersions, seen, pending, degraded, watch>>, NEW e \in EventScopes
    PROVE  EventKept(e)
  BY EventUntouched DEF EInv

LEMMA NextKeepsEvents ==
    ASSUME EInv, [Next]_feedVars PROVE EInv' /\ \A e \in EventScopes : Caused(e)
<1>1. IInv'  BY NextKeeps DEF EInv
<1>2. SUFFICES ASSUME NEW e \in EventScopes PROVE EventKept(e)
  BY <1>1 DEF EInv, EventKept
<1>3. CASE UNCHANGED feedVars  BY <1>3, NothingReadKeepsEvent DEF feedVars
<1>4. ASSUME NEW s \in Scopes, Silent(s) PROVE EventKept(e)
  BY <1>1, <1>4, ChangeKeepsEvent, OpenWatchKeepsEvent, BookmarkKeepsEvent, LearnVersionKeepsEvent,
     CloseWatchKeepsEvent, EndWatchKeepsEvent DEF Silent
<1>5. ASSUME NEW s \in Scopes, FailWatch(s) \/ RetryRelist(s) PROVE EventKept(e)
  BY <1>1, <1>5, FailWatchKeepsEvent, RetryKeepsEvent
<1>6. ASSUME NEW s \in Scopes, NEW i \in 1 .. Now, Deliver(s, i) PROVE EventKept(e)
  BY <1>1, <1>6, DeliverKeepsEvent
<1>7. ASSUME NEW s \in Scopes, NEW listed \in BOOLEAN, Expire(s, listed) PROVE EventKept(e)
  BY <1>1, <1>7, ExpireKeepsEvent
<1>8. ASSUME NEW failed \in SUBSET Scopes, Snapshot(failed) \/ Delta(failed) PROVE EventKept(e)
  BY <1>1, <1>8, SnapshotKeepsEvent, DeltaKeepsEvent
<1>9. CASE PollFails \/ Beat  BY <1>9, NothingReadKeepsEvent DEF PollFails, Beat
<1>10. CASE Restart  BY <1>10, RestartKeepsEvent
<1>11. QED  BY <1>3, <1>4, <1>5, <1>6, <1>7, <1>8, <1>9, <1>10 DEF Next

LEMMA EventsInit == ASSUME Init PROVE EInv
<1>1. IInv  BY InitHolds
<1>2. SUFFICES ASSUME NEW e \in EventScopes PROVE EventOK(e)  BY <1>1 DEF EInv
<1>3. e \in Scopes /\ Now = 0 /\ Now \in Nat  BY EventScopesAreScopes DEF Init, Now
<1>4. /\ versions[e] = NoVersion /\ eventVersions[e] = NoVersion /\ seen[e] = 0 /\ watch[e] = NoWatch
      /\ e \notin pending
  BY <1>3 DEF Init
<1>5. StillThere(e)  BY <1>3 DEF StillThere
<1>6. \E v \in 0 .. Now : seen[e] = Content(e, v)
  <2>1. ContentIn(log, e, 0) = 0  BY ContentRange
  <2>2. QED  BY <1>3, <1>4, <2>1, ContentOfLog
<1>7. QED  BY <1>4, <1>5, <1>6 DEF EventOK, Current

\* An Event is skipped in two ways only: a version was learned for its watch after the server had
\* closed it (refresh_bookmarks_once), or the version of a listing counts although a watch told what
\* is older after it (_delta under an open watch).  Whatever else is listed, watched, learned, expired,
\* failed or replaced, in which order, skips none.
THEOREM SkipsAreCaused == Spec => SkipsHaveCause
<1>1. Init => EInv  BY EventsInit
<1>2. EInv /\ [Next]_feedVars => EInv'  BY NextKeepsEvents
<1>3. EInv /\ [Next]_feedVars =>
          [\A s \in EventScopes : EventSkipped(s)' => EventSkipped(s) \/ LearnedLate(s) \/ Restored(s)]_feedVars
  BY NextKeepsEvents DEF Caused
<1>4. QED  BY <1>1, <1>2, <1>3, PTL DEF Spec, SkipsHaveCause

------------------------------------------------------------------------------
(* The log and the scopes of objects. *)

LEMMA ObjectScopesAreScopes == ASSUME NEW s \in ObjectScopes PROVE s \in Scopes /\ s \notin EventScopes
  BY ScopesAssumption DEF Scopes

\* A bookmark ends the watch that was replaced, and moves another on.
LEMMA BookmarkMoves ==
    ASSUME TypeOK, NEW s \in Scopes, Bookmark(s)
    PROVE  \/ EndsUnseen(s)
           \/ \E n \in 1 .. Now : /\ versions' = [versions EXCEPT ![s] = n]
                                  /\ watch' = [watch EXCEPT ![s].at = n]
                                  /\ Current(s) /\ versions[s] # NoVersion /\ UNCHANGED seen
<1>1. PICK n \in watch[s].at + 1 .. Told(s) :
          IF Current(s) /\ versions[s] # NoVersion
          THEN /\ versions' = [versions EXCEPT ![s] = n]
               /\ watch' = [watch EXCEPT ![s].at = n]
               /\ UNCHANGED seen
          ELSE EndsUnseen(s)
  BY DEF Bookmark
<1>2. n \in 1 .. Now  BY <1>1, NumbersOf DEF Bookmark
<1>3. QED  BY <1>1, <1>2

\* No step forgets a change of the cluster.
LEMMA LogGrows ==
    ASSUME TypeOK, [Next]_feedVars
    PROVE  /\ Now \in Nat /\ Now' \in Nat /\ Now' \in {Now, Now + 1} /\ \A i \in 1 .. Now : log'[i] = log[i]
           /\ \A s, v : v \in 0 .. Now => Content(s, v)' = Content(s, v)
<1>1. Now \in Nat  BY NowIsNat
<1>2. CASE log' = log  BY <1>1, <1>2, SameLog
<1>3. CASE \E s \in Scopes : Change(s)
  <2>1. PICK s \in Scopes, there \in BOOLEAN : log' = Append(log, [scope |-> s, there |-> there])
    BY <1>3 DEF Change
  <2>2. Now' = Now + 1 /\ \A i \in 1 .. Now : log'[i] = log[i]  BY <2>1 DEF TypeOK, Now
  <2>3. ASSUME NEW r, NEW v \in 0 .. Now PROVE Content(r, v)' = Content(r, v)
    <3>1. v \in Nat /\ \A i \in 1 .. v : log'[i] = log[i]  BY <1>1, <2>2
    <3>2. ContentIn(log', r, v) = ContentIn(log, r, v)  BY <3>1, SameContent
    <3>3. QED  BY <3>2, ContentOfLog
  <2>4. QED  BY <1>1, <2>2, <2>3
<1>4. log' = log \/ \E s \in Scopes : Change(s)
  <2>1. ASSUME NEW s \in Scopes, Silent(s) PROVE log' = log \/ Change(s)
    BY <2>1 DEF Silent, OpenWatch, Bookmark, LearnVersion, CloseWatch, EndWatch
  <2>2. ASSUME NEW s \in Scopes, FailWatch(s) \/ RetryRelist(s) PROVE log' = log
    BY <2>2 DEF FailWatch, RetryRelist
  <2>3. ASSUME NEW s \in Scopes, NEW i \in 1 .. Now, Deliver(s, i) PROVE log' = log  BY <2>3 DEF Deliver
  <2>4. ASSUME NEW s \in Scopes, NEW listed \in BOOLEAN, Expire(s, listed) PROVE log' = log
    BY <2>4 DEF Expire
  <2>5. ASSUME NEW failed \in SUBSET Scopes, Snapshot(failed) \/ Delta(failed) PROVE log' = log
    BY <2>5 DEF Snapshot, Delta
  <2>6. ASSUME PollFails \/ Beat \/ Restart \/ UNCHANGED feedVars PROVE log' = log
    BY <2>6 DEF PollFails, Beat, Restart, feedVars
  <2>7. QED  BY <2>1, <2>2, <2>3, <2>4, <2>5, <2>6 DEF Next
<1>5. QED  BY <1>2, <1>3, <1>4

\* Change i is the last one of scope s up to version v of the log f.
LastIn(f, i, s, v) == f[i].scope = s /\ \A j \in i + 1 .. v : f[j].scope # s
EndsIn(f, s, v) == (\A i \in 1 .. v : f[i].scope # s) \/ \E i \in 1 .. v : LastIn(f, i, s, v)

\* A scope that changed has a last change.  (An invariant, as the induction over the log is one over
\* the steps of the cluster.)
LastChanges == \A s \in ObjectScopes : \A v \in 0 .. Now : EndsIn(log, s, v)

LEMMA LastChangesKept == ASSUME TypeOK, LastChanges, [Next]_feedVars PROVE LastChanges'
<1>1. PICK n \in Nat : n = Now  BY NowIsNat
<1>2. SUFFICES ASSUME NEW s \in ObjectScopes, NEW v \in 0 .. Now' PROVE EndsIn(log', s, v)
  BY DEF LastChanges
<1>3. Now' \in Nat /\ Now' \in {n, n + 1} /\ \A i \in 1 .. n : log'[i] = log[i]  BY <1>1, LogGrows
<1>4. ASSUME NEW u \in 0 .. n PROVE EndsIn(log', s, u)
  <2>1. \A i \in 1 .. u : log'[i] = log[i]  BY <1>1, <1>3
  <2>2. EndsIn(log, s, u)  BY <1>1 DEF LastChanges
  <2>3. CASE \A i \in 1 .. u : log[i].scope # s  BY <2>1, <2>3 DEF EndsIn
  <2>4. CASE \E i \in 1 .. u : LastIn(log, i, s, u)
    <3>1. PICK i \in 1 .. u : LastIn(log, i, s, u)  BY <2>4
    <3>2. \A j \in i + 1 .. u : j \in 1 .. u  OBVIOUS
    <3>3. LastIn(log', i, s, u)  BY <2>1, <3>1, <3>2 DEF LastIn
    <3>4. QED  BY <3>3 DEF EndsIn
  <2>5. QED  BY <2>2, <2>3, <2>4 DEF EndsIn
<1>5. CASE v <= n  BY <1>4, <1>5
<1>6. CASE ~(v <= n)
  <2>1. v = n + 1  BY <1>3, <1>6
  <2>2. v \in 1 .. v /\ v + 1 .. v = {}  BY <1>1, <2>1
  <2>3. CASE log'[v].scope = s  BY <2>2, <2>3 DEF EndsIn, LastIn
  <2>4. CASE log'[v].scope # s
    <3>1. EndsIn(log', s, n)  BY <1>4
    <3>2. \A i \in 1 .. v : i \in 1 .. n \/ i = v  BY <2>1
    <3>3. CASE \A i \in 1 .. n : log'[i].scope # s  BY <2>4, <3>2, <3>3 DEF EndsIn
    <3>4. CASE \E i \in 1 .. n : LastIn(log', i, s, n)
      <4>1. PICK i \in 1 .. n : LastIn(log', i, s, n)  BY <3>4
      <4>2. i \in 1 .. v /\ \A j \in i + 1 .. v : j \in i + 1 .. n \/ j = v  BY <2>1
      <4>3. LastIn(log', i, s, v)  BY <2>4, <4>1, <4>2 DEF LastIn
      <4>4. QED  BY <4>2, <4>3 DEF EndsIn
    <3>5. QED  BY <3>1, <3>3, <3>4 DEF EndsIn
  <2>5. QED  BY <2>3, <2>4
<1>7. QED  BY <1>5, <1>6

LEMMA ElementOfLog == ASSUME NEW T, NEW f \in Seq(T), NEW i \in 1 .. Len(f) PROVE f[i] \in T  OBVIOUS

\* What was there at version u and is not at a later one was deleted in between.
LEMMA DeletedSince ==
    ASSUME TypeOK, LastChanges, NEW s \in ObjectScopes, NEW v \in 0 .. Now, NEW u \in 1 .. v,
           log[u] = [scope |-> s, there |-> TRUE], Content(s, v) = 0
    PROVE  \E i \in u + 1 .. v : log[i] = [scope |-> s, there |-> FALSE]
<1>1. Now \in Nat /\ v \in Nat  BY NowIsNat
<1>2. PICK i \in 1 .. v : LastIn(log, i, s, v)
  <2>1. EndsIn(log, s, v)  BY DEF LastChanges
  <2>2. log[u].scope = s  OBVIOUS
  <2>3. QED  BY <2>1, <2>2 DEF EndsIn
<1>3. log[i] \in [scope : Scopes, there : BOOLEAN]
  <2>1. PICK T : T = [scope : Scopes, there : BOOLEAN] /\ log \in Seq(T)  BY DEF TypeOK
  <2>2. i \in 1 .. Len(log)  BY <1>1, NowIsNat DEF Now
  <2>3. log[i] \in T  BY <2>1, <2>2, ElementOfLog
  <2>4. QED  BY <2>1, <2>3
<1>4. ~log[i].there
  <2>1. SUFFICES ASSUME log[i].there PROVE FALSE  OBVIOUS
  <2>2. MakesIn(log, i, s, v)  BY <1>2, <2>1 DEF LastIn, MakesIn
  <2>3. ContentIn(log, s, v) = i  BY <1>1, <2>2, MadeBy
  <2>4. QED  BY <2>3, ContentOfLog
<1>5. log[i] = [scope |-> s, there |-> FALSE]  BY <1>2, <1>3, <1>4 DEF LastIn
<1>6. i \in u + 1 .. v
  <2>1. i # u  BY <1>4
  <2>2. u \notin i + 1 .. v  BY <1>2 DEF LastIn
  <2>3. QED  BY <1>1, <2>1, <2>2
<1>7. QED  BY <1>5, <1>6

------------------------------------------------------------------------------
(* Following the objects.  What ObjectsFollowed leans on, short of liveness itself: whatever was not   *)
(* seen yet, a thread or the run loop still has something to do that brings it.                        *)

\* A scope without a version waits for a snapshot that is owed, and what is watched or is to be listed
\* again has a version.
Owed ==
    /\ \A s \in ObjectScopes : versions[s] = NoVersion => SnapshotOwed
    /\ \A s \in Scopes : Current(s) \/ s \in pending => versions[s] # NoVersion

\* What is not seen of scope s is brought by the owed snapshot, the owed relist, a watch its thread
\* opens, or the open watch, which has more to tell or ends.
Followed(s) ==
    seen[s] # Content(s, Now) =>
        \/ SnapshotOwed
        \/ s \in pending
        \/ watch[s] = NoWatch /\ versions[s] # NoVersion
        \/ watch[s] # NoWatch /\ (Current(s) /\ watch[s].open => Undelivered(s) # {})

\* A step that forgets no version, opens a watch or owes a relist only where one is known, and does not
\* take back that a snapshot is owed.
LEMMA OwedStays ==
    ASSUME Owed, degraded => degraded',
           \A s \in Scopes : versions[s] # NoVersion => versions'[s] # NoVersion,
           \A s \in Scopes : versions[s] = NoVersion /\ versions'[s] # NoVersion => SnapshotTaken,
           \A s \in Scopes : Current(s)' \/ s \in pending' => versions'[s] # NoVersion
    PROVE  Owed'
<1>1. ASSUME NEW s \in ObjectScopes, versions'[s] = NoVersion PROVE SnapshotOwed'
  <2>1. s \in Scopes  BY DEF Scopes
  <2>2. versions[s] = NoVersion  BY <1>1, <2>1
  <2>3. degraded \/ ~SnapshotTaken  BY <2>2 DEF Owed, SnapshotOwed
  <2>4. CASE degraded  BY <2>4 DEF SnapshotOwed
  <2>5. CASE ~SnapshotTaken
    <3>1. \A x \in Scopes : versions[x] = NoVersion  BY <2>5 DEF SnapshotTaken
    <3>2. \A x \in Scopes : versions'[x] = NoVersion  BY <2>5, <3>1
    <3>3. QED  BY <3>2 DEF SnapshotOwed, SnapshotTaken
  <2>6. QED  BY <2>3, <2>4, <2>5
<1>2. QED  BY <1>1 DEF Owed

\* A snapshot owes itself again where a listing of objects failed, and replaces every watch.
LEMMA SnapshotOwes == ASSUME TypeOK, NEW failed, Snapshot(failed) PROVE Owed'
<1>1. ASSUME NEW s \in ObjectScopes, versions'[s] = NoVersion PROVE SnapshotOwed'
  <2>1. versions'[s] = IF s \in failed THEN NoVersion ELSE Now  BY ListedType DEF Snapshot
  <2>2. s \in failed  BY <1>1, <2>1, NowIsNat, NullsAssumption
  <2>3. degraded'  BY <1>1, <2>2 DEF Snapshot, Incomplete
  <2>4. QED  BY <2>3 DEF SnapshotOwed
<1>2. ASSUME NEW s \in Scopes PROVE ~Current(s)' /\ s \notin pending'
  <2>1. watch'[s] = IF watch[s] = NoWatch THEN NoWatch ELSE [watch[s] EXCEPT !.current = FALSE]
    BY DEF Snapshot, Replaced
  <2>2. watch[s] # NoWatch => watch[s] \in Watches  BY WatchType
  <2>3. ~Current(s)'  BY <2>1, <2>2 DEF Current, Watches
  <2>4. QED  BY <2>3 DEF Snapshot
<1>3. QED  BY <1>1, <1>2 DEF Owed

LEMMA DeltaOwes == ASSUME TypeOK, Owed, NEW failed, Delta(failed) PROVE Owed'
<1>1. SnapshotTaken /\ UNCHANGED <<pending, degraded, watch>>  BY DEF Delta
<1>2. \A s \in Scopes : versions[s] # NoVersion => versions'[s] # NoVersion  BY DEF Delta
<1>3. \A s \in Scopes : Current(s)' \/ s \in pending' => versions'[s] # NoVersion
  BY <1>1, <1>2 DEF Owed, Current
<1>4. QED  BY <1>1, <1>2, <1>3, OwedStays

\* What is listed again had a version, so that some listing had succeeded.
LEMMA RelistOwes ==
    ASSUME TypeOK, Owed, NEW s \in Scopes, versions[s] # NoVersion, NEW scopes \in SUBSET {s}, Relist(scopes),
           degraded' = degraded, pending' \in SUBSET (pending \cup {s}),
           \A x \in Scopes : Current(x)' => Current(x)
    PROVE  Owed'
<1>1. SnapshotTaken  BY DEF SnapshotTaken
<1>2. \A x \in Scopes : versions[x] # NoVersion => versions'[x] # NoVersion
  BY NowIsNat, NullsAssumption DEF Relist
<1>3. \A x \in Scopes : Current(x)' \/ x \in pending' => versions'[x] # NoVersion
  BY <1>2 DEF Owed
<1>4. QED  BY <1>1, <1>2, <1>3, OwedStays

LEMMA RetryOwes == ASSUME TypeOK, Owed, NEW s \in Scopes, RetryRelist(s) PROVE Owed'
<1>1. /\ s \in pending /\ Relist({s}) /\ pending' = pending \ {s}
      /\ UNCHANGED <<degraded, watch>>
  BY DEF RetryRelist
<1>2. versions[s] # NoVersion  BY <1>1 DEF Owed
<1>3. \A x \in Scopes : Current(x)' => Current(x)  BY <1>1 DEF Current
<1>4. pending' \in SUBSET (pending \cup {s}) /\ {s} \in SUBSET {s}  BY <1>1
<1>5. QED  BY <1>1, <1>2, <1>3, <1>4, RelistOwes

LEMMA ExpireOwes == ASSUME TypeOK, Owed, NEW s \in Scopes, NEW listed \in BOOLEAN, Expire(s, listed) PROVE Owed'
<1>1. watch \in [Scopes -> Watches \cup {NoWatch}] /\ watch' = [watch EXCEPT ![s] = NoWatch] /\ degraded' = degraded
  BY DEF TypeOK, Expire
<1>2. \A x \in Scopes : Current(x)' => Current(x)  BY <1>1 DEF Current
<1>3. CASE Current(s)
  <2>1. versions[s] # NoVersion  BY <1>3 DEF Owed
  <2>2. PICK scopes \in SUBSET {s} : Relist(scopes)  BY DEF Expire
  <2>3. pending' \in SUBSET (pending \cup {s})  BY DEF Expire
  <2>4. QED  BY <1>1, <1>2, <2>1, <2>2, <2>3, RelistOwes
<1>4. CASE ~Current(s)
  <2>1. Relist({}) /\ pending' = pending  BY <1>4 DEF Expire
  <2>2. \A x \in Scopes : versions'[x] = versions[x]  BY <2>1 DEF Relist
  <2>3. \A x \in Scopes : Current(x)' \/ x \in pending' => versions'[x] # NoVersion
    BY <1>2, <2>1, <2>2 DEF Owed
  <2>4. QED  BY <1>1, <2>2, <2>3, OwedStays
<1>5. QED  BY <1>3, <1>4

\* The steps of one watch: a version is replaced by a version.
LEMMA WatchOwes ==
    ASSUME TypeOK, Owed, NEW s \in Scopes,
           \/ Silent(s) \/ FailWatch(s)
           \/ \E i \in 1 .. Now : Deliver(s, i)
    PROVE  Owed'
<1>1. /\ Now \in Nat /\ \A i \in 1 .. Now : i # NoVersion
      /\ watch \in [Scopes -> Watches \cup {NoWatch}] /\ DOMAIN versions = Scopes
  BY NumbersOf, NullsAssumption DEF TypeOK
<1>2. degraded => degraded'
  BY DEF Silent, Change, OpenWatch, Bookmark, LearnVersion, CloseWatch, EndWatch, FailWatch, Deliver
<1>3. pending' = pending
  BY DEF Silent, Change, OpenWatch, Bookmark, LearnVersion, CloseWatch, EndWatch, FailWatch, Deliver
<1>4. \A x \in Scopes : versions'[x] = NoVersion <=> versions[x] = NoVersion
  <2>1. CASE Change(s) \/ OpenWatch(s) \/ LearnVersion(s) \/ CloseWatch(s) \/ FailWatch(s)
    BY <2>1 DEF Change, OpenWatch, LearnVersion, CloseWatch, FailWatch
  <2>2. CASE Bookmark(s)
    <3>1. CASE EndsUnseen(s)  BY <3>1 DEF EndsUnseen
    <3>2. CASE ~EndsUnseen(s)
      <4>1. PICK n \in 1 .. Now : versions' = [versions EXCEPT ![s] = n] /\ versions[s] # NoVersion
        BY <2>2, <3>2, BookmarkMoves
      <4>2. QED  BY <1>1, <4>1
    <3>3. QED  BY <3>1, <3>2
  <2>3. CASE EndWatch(s)  BY <1>1, <2>3 DEF EndWatch
  <2>4. ASSUME NEW i \in 1 .. Now, Deliver(s, i) PROVE \A x \in Scopes : versions'[x] = NoVersion <=> versions[x] = NoVersion
    BY <1>1, <2>4 DEF Deliver, ApplyEvent, EndsUnseen
  <2>5. QED  BY <2>1, <2>2, <2>3, <2>4 DEF Silent
<1>5. ASSUME NEW x \in Scopes, Current(x)' PROVE Current(x) \/ versions[x] # NoVersion
  <2>1. CASE Change(s)  BY <1>5, <2>1 DEF Change, Current
  <2>2. CASE OpenWatch(s)  BY <1>1, <1>5, <2>2 DEF OpenWatch, Current
  <2>3. CASE LearnVersion(s)  BY <1>1, <1>5, <2>3 DEF LearnVersion, Current, Watches
  <2>4. CASE CloseWatch(s)  BY <1>1, <1>5, <2>4 DEF CloseWatch, Current, Watches
  <2>5. CASE EndWatch(s) \/ FailWatch(s)  BY <1>1, <1>5, <2>5 DEF EndWatch, FailWatch, Current
  <2>6. CASE Bookmark(s)
    <3>1. CASE EndsUnseen(s)  BY <1>1, <1>5, <3>1 DEF EndsUnseen, Current
    <3>2. CASE ~EndsUnseen(s)
      <4>1. PICK n \in 1 .. Now : watch' = [watch EXCEPT ![s].at = n] /\ versions[s] # NoVersion
        BY <2>6, <3>2, BookmarkMoves
      <4>2. QED  BY <1>1, <1>5, <4>1 DEF Current, Watches
    <3>3. QED  BY <3>1, <3>2
  <2>7. ASSUME NEW i \in 1 .. Now, Deliver(s, i) PROVE Current(x) \/ versions[x] # NoVersion
    BY <1>1, <1>5, <2>7 DEF Deliver, ApplyEvent, EndsUnseen, Current, Watches
  <2>8. QED  BY <2>1, <2>2, <2>3, <2>4, <2>5, <2>6, <2>7 DEF Silent
<1>6. \A x \in Scopes : Current(x)' \/ x \in pending' => versions'[x] # NoVersion  BY <1>3, <1>4, <1>5 DEF Owed
<1>7. QED  BY <1>2, <1>4, <1>6, OwedStays

\* A step in which nothing is read, and a start from nothing.
LEMMA NothingReadOwes ==
    ASSUME Owed, UNCHANGED <<versions, pending, degraded, watch>> PROVE Owed'
  BY DEF Owed, SnapshotOwed, SnapshotTaken, Current

LEMMA StartOwes ==
    /\ Init => Owed
    /\ Restart => Owed'
<1>1. ASSUME Init PROVE Owed
  <2>1. \A s \in Scopes : versions[s] = NoVersion /\ watch[s] = NoWatch /\ s \notin pending  BY <1>1 DEF Init
  <2>2. QED  BY <2>1 DEF Owed, SnapshotOwed, SnapshotTaken, Current, Init
<1>2. ASSUME Restart PROVE Owed'
  <2>1. \A s \in Scopes : versions'[s] = NoVersion /\ watch'[s] = NoWatch /\ s \notin pending'
    BY <1>2 DEF Restart
  <2>2. degraded' = FALSE  BY <1>2 DEF Restart
  <2>3. SnapshotOwed'  BY <2>1, <2>2 DEF SnapshotOwed, SnapshotTaken
  <2>4. QED  BY <2>1, <2>3 DEF Owed, Current
<1>3. QED  BY <1>1, <1>2

LEMMA OwedKept == ASSUME TypeOK, Owed, [Next]_feedVars PROVE Owed'
<1>1. CASE UNCHANGED feedVars  BY <1>1, NothingReadOwes DEF feedVars
<1>2. ASSUME NEW s \in Scopes, Silent(s) \/ FailWatch(s) \/ \E i \in 1 .. Now : Deliver(s, i) PROVE Owed'
  BY <1>2, WatchOwes
<1>3. ASSUME NEW s \in Scopes, RetryRelist(s) PROVE Owed'  BY <1>3, RetryOwes
<1>4. ASSUME NEW s \in Scopes, NEW listed \in BOOLEAN, Expire(s, listed) PROVE Owed'  BY <1>4, ExpireOwes
<1>5. ASSUME NEW failed \in SUBSET Scopes, Snapshot(failed) \/ Delta(failed) PROVE Owed'
  BY <1>5, SnapshotOwes, DeltaOwes
<1>6. CASE PollFails \/ Beat  BY <1>6, NothingReadOwes DEF PollFails, Beat
<1>7. CASE Restart  BY <1>7, StartOwes
<1>8. QED  BY <1>1, <1>2, <1>3, <1>4, <1>5, <1>6, <1>7 DEF Next

\* A watch that has told everything has shown its scope as it is.
LEMMA ReadUpToNow ==
    ASSUME IInv, NEW s \in ObjectScopes, Current(s), watch[s].open, Undelivered(s) = {}, versions[s] # NoVersion
    PROVE  seen[s] = Content(s, Now)
<1>1. TypeOK /\ s \in Scopes /\ watch[s] # NoWatch  BY ObjectScopesAreScopes DEF IInv, Current
<1>2. PICK v \in versions[s] .. Now : seen[s] = Content(s, v)  BY DEF IInv, NothingSkipped
<1>3. /\ Now \in Nat /\ versions[s] \in Nat /\ watch[s].at \in Nat /\ watch[s].at <= versions[s]
  BY <1>1, NumbersOf DEF IInv, WatchesBehind, Current
<1>4. \A j \in v + 1 .. Now : log[j].scope # s
  <2>1. Told(s) = Now  BY DEF Told
  <2>2. \A j \in v + 1 .. Now : j \in watch[s].at + 1 .. Told(s)  BY <1>3, <2>1
  <2>3. QED  BY <2>2 DEF Undelivered
<1>5. v \in Nat /\ v <= Now  BY <1>3
<1>6. ContentIn(log, s, Now) = ContentIn(log, s, v)  BY <1>3, <1>4, <1>5, QuietContent
<1>7. QED  BY <1>2, <1>6, ContentOfLog

\* Nothing that is not known of an object is left to chance: a snapshot or a relist is owed that will
\* show it, the scope's thread may open a watch from a version before it, or an open watch has it still
\* to tell, was replaced or was closed and ends (_degraded, _pending_relists, _versions, _watch_scope).
\* With the fairness of the run loop and the threads this is why every object is followed.
THEOREM NobodyIsLeftUnwatched == Spec => [](\A s \in ObjectScopes : Followed(s))
<1>1. IInv /\ Owed => \A s \in ObjectScopes : Followed(s)
  <2>1. SUFFICES ASSUME IInv, Owed, NEW s \in ObjectScopes, seen[s] # Content(s, Now), ~SnapshotOwed,
                        watch[s] # NoWatch, Current(s), watch[s].open, Undelivered(s) = {}
                 PROVE  FALSE
    BY DEF Followed, Owed
  <2>2. versions[s] # NoVersion  BY <2>1 DEF Owed
  <2>3. QED  BY <2>1, <2>2, ReadUpToNow
<1>2. Init => IInv /\ Owed  BY InitHolds, StartOwes
<1>3. IInv /\ Owed /\ [Next]_feedVars => (IInv /\ Owed)'  BY NextKeeps, OwedKept DEF IInv
<1>4. QED  BY <1>1, <1>2, <1>3, PTL DEF Spec
=============================================================================
