----------------------- MODULE DiagnosisRevisionsProofs -----------------------
(***************************************************************************)
(* The revisions of an incident form one chain, requirements are open once,   *)
(* and a deadline is evaluated once: for any number of workers and keys, any   *)
(* times, any number of attempts and whatever runs, fails or restarts when.    *)
(***************************************************************************)
EXTENDS DiagnosisRevisions, SequenceTheorems, TLAPS

------------------------------------------------------------------------------
(* The invariant.  A run that is about to write has a window, and read a number that was given *)
(* out before (or none); a deadline revision is only under way for a requirement whose time no  *)
(* deadline revision has reached, and it stays so since no one else makes such revisions.       *)

WindowTaken == \A w \in Runners : run[w].at \in {"captured", "numbered"} => run[w].window # Never

NumberWasGiven == \A w \in Runners : run[w].at = "numbered" => run[w].last \in 0 .. Len(revisions)

DeadlineOwed == run[Scheduler].at # "idle" => \E r \in rows : ~Consumed(r.key, r.opened)

RunsOK == WindowTaken /\ NumberWasGiven /\ DeadlineOwed

IInv == RevisionsTypeOK /\ RevisionChain /\ OneOpenPerKey /\ DeadlineOnce /\ RunsOK

LEMMA InitHolds == ASSUME RevisionsInit PROVE IInv
<1>1. RevisionsTypeOK
  BY AttemptsAssumption DEF RevisionsInit, RevisionsTypeOK, NoRun, NoPass, Runs, Times, Never, Requirements
<1>2. \A w \in Runners : run[w].at = "idle"  BY DEF RevisionsInit, NoRun
<1>3. RunsOK  BY <1>2 DEF RunsOK, WindowTaken, NumberWasGiven, DeadlineOwed, Runners
<1>4. RevisionChain /\ OneOpenPerKey /\ DeadlineOnce
  BY DEF RevisionsInit, RevisionChain, OneOpenPerKey, Open, DeadlineOnce
<1>5. QED  BY <1>1, <1>3, <1>4 DEF IInv

\* What is stored is kept by a step that stores nothing.
LEMMA NothingStored ==
    ASSUME IInv, UNCHANGED <<revisions, rows>>, RevisionsTypeOK', RunsOK'
    PROVE  IInv'
<1>1. RevisionChain'  BY DEF IInv, RevisionChain
<1>2. OneOpenPerKey'  BY DEF IInv, OneOpenPerKey, Open
<1>3. DeadlineOnce'  BY DEF IInv, DeadlineOnce
<1>4. QED  BY <1>1, <1>2, <1>3 DEF IInv

LEMMA RunType == ASSUME RevisionsTypeOK, NEW w \in Runners PROVE run[w] \in Runs
  BY DEF RevisionsTypeOK

\* A thread whose run goes on, and stores nothing.
LEMMA RunMoves ==
    ASSUME IInv, NEW w \in Runners, NEW r \in Runs, run' = [run EXCEPT ![w] = r],
           UNCHANGED <<now, resolvedAt, revisions, rows, faults>>, pass' = pass \/ pass' = NoPass,
           r.at \in {"captured", "numbered"} => r.window # Never,
           r.at = "numbered" => r.last \in 0 .. Len(revisions),
           w = Scheduler /\ r.at # "idle" => \E q \in rows : ~Consumed(q.key, q.opened)
    PROVE  IInv'
<1>1. run \in [Runners -> Runs]  BY DEF IInv, RevisionsTypeOK
<1>2. run' \in [Runners -> Runs] /\ \A v \in Runners : run'[v] = IF v = w THEN r ELSE run[v]  BY <1>1
<1>3. RevisionsTypeOK'
  <2>1. Times' = Times  BY DEF Times
  <2>2. Runs' = Runs /\ Requirements' = Requirements /\ Revisions' = Revisions
    BY <2>1 DEF Runs, Requirements, Revisions
  <2>3. 0 \in Times  BY DEF Times, IInv, RevisionsTypeOK
  <2>4. Stored' = Stored  BY DEF Stored, Id
  <2>5. QED  BY <1>2, <2>1, <2>2, <2>3, <2>4 DEF IInv, RevisionsTypeOK, NoPass
<1>4. RunsOK'
  <2>1. WindowTaken'  BY <1>2 DEF IInv, RunsOK, WindowTaken
  <2>2. NumberWasGiven'  BY <1>2 DEF IInv, RunsOK, NumberWasGiven
  <2>3. \A k, o : Consumed(k, o)' = Consumed(k, o)  BY DEF Consumed
  <2>4. DeadlineOwed'  BY <1>2, <2>3 DEF IInv, RunsOK, DeadlineOwed, Runners
  <2>5. QED  BY <2>1, <2>2, <2>4 DEF RunsOK
<1>5. QED  BY <1>3, <1>4, NothingStored

LEMMA NoRunType == ASSUME RevisionsTypeOK PROVE NoRun \in Runs /\ Started \in Runs
<1>1. NoRun \in Runs  BY AttemptsAssumption DEF NoRun, Runs
<1>2. "started" \in {"idle", "started", "captured", "numbered"} /\ resolvedAt \in {Never} \cup Times
  BY DEF RevisionsTypeOK
<1>3. QED  BY <1>1, <1>2 DEF Started, Runs

LEMMA FailKeeps == ASSUME IInv, NEW w \in Runners, Fail(w) PROVE IInv'
<1>1. NoRun \in Runs /\ NoRun.at = "idle"  BY NoRunType DEF IInv, NoRun
<1>2. run' = [run EXCEPT ![w] = NoRun] /\ UNCHANGED <<now, resolvedAt, revisions, rows, pass, faults>>  BY DEF Fail
<1>3. QED  BY <1>1, <1>2, RunMoves

LEMMA StartKeeps == ASSUME IInv, NEW w \in Workers, Start(w) PROVE IInv'
<1>1. Started \in Runs /\ Started.at = "started"  BY NoRunType DEF IInv, Started, NoRun
<1>2. w \in Runners /\ w # Scheduler  BY SchedulerAssumption DEF Runners
<1>3. run' = [run EXCEPT ![w] = Started] /\ UNCHANGED <<now, resolvedAt, revisions, rows, pass, faults>>  BY DEF Start
<1>4. QED  BY <1>1, <1>2, <1>3, RunMoves

LEMMA CaptureKeeps == ASSUME IInv, NEW w \in Runners, Capture(w) PROVE IInv'
<1>1. run[w] \in Runs /\ run[w].at = "started" /\ now \in Times
  BY RunType DEF IInv, Capture, RevisionsTypeOK, Times
<1>2. PICK u : u = IF run[w].window = Never THEN now ELSE run[w].window  OBVIOUS
<1>3. u \in Times /\ u # Never  BY <1>1, <1>2 DEF Runs, Times, Never
<1>4. PICK r : r = [run[w] EXCEPT !.at = "captured", !.window = u]  OBVIOUS
<1>5. r.at = "captured" /\ r.window = u  BY <1>1, <1>4 DEF Runs
<1>6. r \in Runs  BY <1>1, <1>3, <1>4 DEF Runs
<1>7. run' = [run EXCEPT ![w] = r]  BY <1>1, <1>2, <1>4 DEF Capture, IInv, RevisionsTypeOK
<1>8. UNCHANGED <<now, resolvedAt, revisions, rows, pass, faults>>  BY DEF Capture
<1>9. w = Scheduler => \E q \in rows : ~Consumed(q.key, q.opened)
  BY <1>1 DEF IInv, RunsOK, DeadlineOwed
<1>10. QED  BY <1>3, <1>5, <1>6, <1>7, <1>8, <1>9, RunMoves

\* The numbers given are 1, 2, 3, ...
LEMMA NumbersGiven == ASSUME IInv PROVE Len(revisions) \in Nat /\ Numbers = 1 .. Len(revisions)
<1>1. revisions \in Seq(Revisions)  BY DEF IInv, RevisionsTypeOK
<1>2. Len(revisions) \in Nat /\ DOMAIN revisions = 1 .. Len(revisions)  BY <1>1
<1>3. QED  BY <1>2 DEF IInv, RevisionChain, Numbers

LEMMA ReadNumberKeeps == ASSUME IInv, NEW w \in Runners, ReadNumber(w) PROVE IInv'
<1>1. run[w] \in Runs /\ run[w].at = "captured"  BY RunType DEF IInv, ReadNumber
<1>2. PICK n \in Numbers \cup {0} : run' = [run EXCEPT ![w].at = "numbered", ![w].last = n]  BY DEF ReadNumber
<1>3. n \in 0 .. Len(revisions)  BY NumbersGiven
<1>4. PICK r : r = [run[w] EXCEPT !.at = "numbered", !.last = n]  OBVIOUS
<1>5. r.at = "numbered" /\ r.last = n /\ r.window = run[w].window  BY <1>1, <1>4 DEF Runs
<1>6. r \in Runs
  <2>1. n \in Nat /\ "numbered" \in {"idle", "started", "captured", "numbered"}  BY <1>3, NumbersGiven
  <2>2. QED  BY <1>1, <1>4, <2>1 DEF Runs
<1>7. run' = [run EXCEPT ![w] = r]  BY <1>2, <1>4 DEF IInv, RevisionsTypeOK
<1>8. UNCHANGED <<now, resolvedAt, revisions, rows, pass, faults>>  BY DEF ReadNumber
<1>9. w = Scheduler => \E q \in rows : ~Consumed(q.key, q.opened)
  BY <1>1 DEF IInv, RunsOK, DeadlineOwed
<1>10. r.window # Never  BY <1>1, <1>5 DEF IInv, RunsOK, WindowTaken
<1>11. QED  BY <1>3, <1>5, <1>6, <1>7, <1>8, <1>9, <1>10, RunMoves

LEMMA ConflictKeeps == ASSUME IInv, NEW w \in Runners, Conflict(w) PROVE IInv'
<1>1. run[w] \in Runs /\ run[w].at = "numbered"  BY RunType DEF IInv, Conflict
<1>2. UNCHANGED <<now, resolvedAt, revisions, rows, pass, faults>>  BY DEF Conflict
<1>3. CASE run[w].attempt = Attempts
  <2>1. run' = [run EXCEPT ![w] = NoRun]  BY <1>3 DEF Conflict, IInv, RevisionsTypeOK
  <2>2. NoRun \in Runs /\ NoRun.at = "idle"  BY NoRunType DEF IInv, NoRun
  <2>3. QED  BY <1>2, <2>1, <2>2, RunMoves
<1>4. CASE run[w].attempt # Attempts
  <2>1. PICK r : r = [run[w] EXCEPT !.at = "captured", !.attempt = run[w].attempt + 1]  OBVIOUS
  <2>2. r.at = "captured" /\ r.window = run[w].window  BY <1>1, <2>1 DEF Runs
  <2>3. r \in Runs
    <3>1. run[w].attempt \in 1 .. Attempts  BY <1>1 DEF Runs
    <3>2. run[w].attempt + 1 \in 1 .. Attempts  BY <1>4, <3>1, AttemptsAssumption
    <3>3. QED  BY <1>1, <2>1, <3>2 DEF Runs
  <2>4. run' = [run EXCEPT ![w] = r]  BY <1>4, <2>1 DEF Conflict, IInv, RevisionsTypeOK
  <2>5. r.window # Never  BY <1>1, <2>2 DEF IInv, RunsOK, WindowTaken
  <2>6. w = Scheduler => \E q \in rows : ~Consumed(q.key, q.opened)
    BY <1>1 DEF IInv, RunsOK, DeadlineOwed
  <2>7. QED  BY <1>2, <2>2, <2>3, <2>4, <2>5, <2>6, RunMoves
<1>5. QED  BY <1>3, <1>4

------------------------------------------------------------------------------
(* Time, the scheduler's steps that store nothing, and faults. *)

LEMMA PassMoves ==
    ASSUME IInv, UNCHANGED <<now, resolvedAt, revisions, rows, run, faults>>,
           pass'.at \in {"idle", "loaded", "selected", "expired"}, pass'.time \in Times,
           pass'.writes \subseteq pass'.expired, pass'.expired \subseteq pass'.open,
           pass'.open \subseteq Stored
    PROVE  IInv'
<1>1. Times' = Times  BY DEF Times
<1>2. Runs' = Runs /\ Requirements' = Requirements /\ Revisions' = Revisions
  BY <1>1 DEF Runs, Requirements, Revisions
<1>3. RevisionsTypeOK'
  <2>1. Stored' = Stored  BY DEF Stored, Id
  <2>2. QED  BY <1>1, <1>2, <2>1 DEF IInv, RevisionsTypeOK
<1>4. \A k, o : Consumed(k, o)' = Consumed(k, o)  BY DEF Consumed
<1>5. RunsOK'  BY <1>4 DEF IInv, RunsOK, WindowTaken, NumberWasGiven, DeadlineOwed
<1>6. QED  BY <1>3, <1>5, NothingStored

LEMMA LoadKeeps == ASSUME IInv, Load PROVE IInv'
<1>1. PICK expired \in SUBSET {Id(row) : row \in Open} :
        pass' = [at |-> "loaded", time |-> now, open |-> {Id(row) : row \in Open}, expired |-> expired, writes |-> {}]
  BY DEF Load
<1>2. Open \subseteq rows  BY DEF Open
<1>3. {Id(row) : row \in Open} \subseteq Stored  BY <1>2 DEF Stored
<1>4. now \in Times  BY DEF IInv, RevisionsTypeOK, Times
<1>5. QED  BY <1>1, <1>3, <1>4, PassMoves DEF Load

LEMMA SelectExpiredKeeps == ASSUME IInv, SelectExpired PROVE IInv'
<1>1. PICK writes \in SUBSET pass.expired : pass' = [pass EXCEPT !.at = "selected", !.writes = writes]
  BY DEF SelectExpired
<1>2. /\ pass'.at = pass.at \/ pass'.at = "selected"
      /\ pass'.time = pass.time /\ pass'.open = pass.open /\ pass'.expired = pass.expired
      /\ pass'.writes = pass.writes \/ pass'.writes = writes
  BY <1>1
<1>3. QED  BY <1>1, <1>2, PassMoves DEF SelectExpired, IInv, RevisionsTypeOK

\* A deadline run is started for a requirement that was found due and not consumed.
LEMMA DecideKeeps == ASSUME IInv, Decide PROVE IInv'
<1>1. pass' = NoPass /\ UNCHANGED <<now, resolvedAt, revisions, rows, faults>>  BY DEF Decide
<1>2. CASE UNCHANGED run
  <2>1. 0 \in Times  BY DEF IInv, RevisionsTypeOK, Times
  <2>2. QED  BY <1>1, <1>2, <2>1, PassMoves DEF NoPass
<1>3. CASE Due \ pass.expired # {} /\ run' = [run EXCEPT ![Scheduler] = Started]
  <2>1. PICK id \in pass.open : ~Consumed(id[1], id[2])  BY <1>3 DEF Due
  <2>2. PICK q \in rows : id = <<q.key, q.opened>>  BY DEF IInv, RevisionsTypeOK, Stored, Id
  <2>3. ~Consumed(q.key, q.opened)  BY <2>1, <2>2
  <2>4. Started \in Runs /\ Started.at = "started"  BY NoRunType DEF IInv, Started, NoRun
  <2>5. QED  BY <1>1, <1>3, <2>3, <2>4, RunMoves DEF Runners
<1>4. QED  BY <1>2, <1>3 DEF Decide

\* The clock, the incident and the faults are no part of what is stored or under way.
LEMMA WorldMoves ==
    ASSUME IInv, UNCHANGED <<revisions, rows>>,
           now' \in Nat, now' >= now, resolvedAt' \in {Never} \cup 0 .. now', faults' \in Nat,
           pass' = pass \/ pass' = NoPass,
           run' = run \/ run' = [w \in Runners |-> NoRun]
    PROVE  IInv'
<1>1. Times \subseteq Times' /\ Times' = 0 .. now' /\ 0 \in Times'  BY DEF Times, IInv, RevisionsTypeOK
<1>2. Runs \subseteq Runs' /\ Revisions \subseteq Revisions' /\ Requirements' = Requirements
  BY <1>1 DEF Runs, Revisions, Requirements
<1>3. NoRun \in Runs'
  <2>1. NoRun \in Runs  BY NoRunType DEF IInv
  <2>2. QED  BY <1>2, <2>1
<1>4. run' \in [Runners -> Runs']  BY <1>2, <1>3 DEF IInv, RevisionsTypeOK
<1>5. revisions' \in Seq(Revisions')
  <2>1. revisions \in Seq(Revisions)  BY DEF IInv, RevisionsTypeOK
  <2>2. QED  BY <1>2, <2>1, SeqMonotonic
<1>6. RevisionsTypeOK'
  <2>1. Stored' = Stored  BY DEF Stored, Id
  <2>2. resolvedAt' \in ({Never} \cup Times)'  BY <1>1 DEF Never
  <2>3. rows' \subseteq Requirements'  BY <1>2 DEF IInv, RevisionsTypeOK
  <2>4. /\ pass'.at \in {"idle", "loaded", "selected", "expired"} /\ pass'.time \in Times'
        /\ pass'.writes \subseteq pass'.expired /\ pass'.expired \subseteq pass'.open
        /\ pass'.open \subseteq Stored'
    <3>1. CASE pass' = pass  BY <1>1, <2>1, <3>1 DEF IInv, RevisionsTypeOK
    <3>2. CASE pass' = NoPass  BY <1>1, <3>2 DEF NoPass
    <3>3. QED  BY <3>1, <3>2
  <2>5. QED  BY <1>4, <1>5, <2>2, <2>3, <2>4 DEF RevisionsTypeOK
<1>7. \A w \in Runners : run'[w] = run[w] \/ run'[w].at = "idle"  BY DEF NoRun
<1>8. \A k, o : Consumed(k, o)' = Consumed(k, o)  BY DEF Consumed
<1>9. WindowTaken'  BY <1>7 DEF IInv, RunsOK, WindowTaken
<1>10. NumberWasGiven'  BY <1>7 DEF IInv, RunsOK, NumberWasGiven
<1>11. DeadlineOwed'  BY <1>7, <1>8 DEF IInv, RunsOK, DeadlineOwed, Runners
<1>12. QED  BY <1>6, <1>9, <1>10, <1>11, NothingStored DEF RunsOK

LEMMA WorldStepKeeps == ASSUME IInv, Fault \/ Resolve \/ Reopen \/ Tick PROVE IInv'
<1>1. now \in Nat /\ resolvedAt \in {Never} \cup 0 .. now /\ faults \in Nat  BY DEF IInv, RevisionsTypeOK, Times
<1>2. CASE Fault
  <2>1. PICK lost \in {{}, Runners} : run' = [w \in Runners |-> IF w \in lost THEN NoRun ELSE run[w]]  BY <1>2 DEF Fault
  <2>2. run' = run \/ run' = [w \in Runners |-> NoRun]
    <3>1. CASE lost = {}  BY <2>1, <3>1 DEF IInv, RevisionsTypeOK
    <3>2. CASE lost = Runners  BY <2>1, <3>2
    <3>3. QED  BY <3>1, <3>2
  <2>3. QED  BY <1>1, <1>2, <2>2, WorldMoves DEF Fault
<1>3. CASE Resolve  BY <1>1, <1>3, WorldMoves DEF Resolve
<1>4. CASE Reopen  BY <1>1, <1>4, WorldMoves DEF Reopen
<1>5. CASE Tick  BY <1>1, <1>5, WorldMoves DEF Tick, Never
<1>6. QED  BY <1>2, <1>3, <1>4, <1>5

------------------------------------------------------------------------------
(* The steps that store. *)

\* What a step does that gives some open requirements another status, or opens new ones: it keeps
\* the identity of all, and is told here by what it leaves open.
LEMMA RequirementsKept ==
    ASSUME IInv, NEW new, new \subseteq Requirements,
           Stored \subseteq {Id(row) : row \in new},
           NEW d \in Nat, \E r \in rows : r.opened < d /\
              ~\E e \in r.opened + 1 .. d - 1 :
                  revisions[e].trigger = "EVIDENCE_DEADLINE" /\ revisions[e].window >= NotBefore[r.key]
    PROVE  \E r \in new : r.opened < d /\
              ~\E e \in r.opened + 1 .. d - 1 :
                  revisions[e].trigger = "EVIDENCE_DEADLINE" /\ revisions[e].window >= NotBefore[r.key]
<1>1. PICK r \in rows : r.opened < d /\
              ~\E e \in r.opened + 1 .. d - 1 :
                  revisions[e].trigger = "EVIDENCE_DEADLINE" /\ revisions[e].window >= NotBefore[r.key]
  OBVIOUS
<1>2. PICK q \in new : Id(q) = Id(r)  BY DEF Stored
<1>3. q.key = r.key /\ q.opened = r.opened  BY <1>2 DEF Id
<1>4. QED  BY <1>1, <1>3

\* expire writes rows that it may have read long before, but it never opens one.
LEMMA ExpireKeeps == ASSUME IInv, Expire PROVE IInv'
<1>1. /\ rows' = {IF Id(row) \in pass.writes THEN [row EXCEPT !.status = "EXPIRED"] ELSE row : row \in rows}
      /\ pass' = [pass EXCEPT !.at = "expired"]
      /\ UNCHANGED <<now, resolvedAt, revisions, run, faults>>
  BY DEF Expire
<1>2. /\ rows \subseteq Requirements /\ \A r \in rows : r.key \in Keys
      /\ revisions \in Seq(Revisions) /\ Len(revisions) \in Nat /\ DOMAIN revisions = 1 .. Len(revisions)
  BY DEF IInv, RevisionsTypeOK, Requirements
<1>3. ASSUME NEW row \in rows, NEW q, q = IF Id(row) \in pass.writes THEN [row EXCEPT !.status = "EXPIRED"] ELSE row
      PROVE  /\ q \in Requirements /\ q.key = row.key /\ q.opened = row.opened /\ Id(q) = Id(row)
             /\ q.status = "OPEN" => q = row
  <2>1. row \in Requirements  BY <1>2
  <2>2. CASE Id(row) \in pass.writes
    <3>1. q = [row EXCEPT !.status = "EXPIRED"]  BY <1>3, <2>2
    <3>2. "EXPIRED" \in Statuses  BY DEF Statuses
    <3>3. q \in Requirements  BY <2>1, <3>1, <3>2 DEF Requirements
    <3>4. q.key = row.key /\ q.opened = row.opened /\ q.status = "EXPIRED"  BY <2>1, <3>1 DEF Requirements
    <3>5. QED  BY <3>3, <3>4 DEF Id
  <2>3. CASE Id(row) \notin pass.writes  BY <1>3, <2>1, <2>3
  <2>4. QED  BY <2>2, <2>3
<1>4. \A q \in rows' : \E row \in rows : q.key = row.key /\ q.opened = row.opened /\ (q.status = "OPEN" => q = row)
  BY <1>1, <1>3
<1>5. rows' \subseteq Requirements  BY <1>1, <1>3
<1>6. \A row \in rows : \E q \in rows' : Id(q) = Id(row)  BY <1>1, <1>3
<1>7. Stored \subseteq {Id(row) : row \in rows'}
  <2>1. SUFFICES ASSUME NEW row \in rows PROVE Id(row) \in {Id(q) : q \in rows'}  BY DEF Stored
  <2>2. PICK q \in rows' : Id(q) = Id(row)  BY <1>6
  <2>3. QED  BY <2>2
<1>8. RevisionsTypeOK'
  <2>1. Times' = Times  BY <1>1 DEF Times
  <2>2. Runs' = Runs /\ Requirements' = Requirements /\ Revisions' = Revisions
    BY <1>1, <2>1 DEF Runs, Requirements, Revisions
  <2>3. /\ pass'.at = pass.at \/ pass'.at = "expired"
        /\ pass'.time = pass.time /\ pass'.writes = pass.writes
        /\ pass'.expired = pass.expired /\ pass'.open = pass.open
    BY <1>1
  <2>4. Stored' = {Id(row) : row \in rows'}  BY DEF Stored, Id
  <2>5. pass'.open \subseteq Stored'  BY <1>7, <2>3, <2>4 DEF IInv, RevisionsTypeOK
  <2>6. RevisionsTypeOK  BY DEF IInv
  <2>7. pass'.at \in {"idle", "loaded", "selected", "expired"} /\ pass'.time \in Times'
    BY <2>1, <2>3, <2>6 DEF RevisionsTypeOK
  <2>8. pass'.writes \subseteq pass'.expired /\ pass'.expired \subseteq pass'.open
    BY <2>3, <2>6 DEF RevisionsTypeOK
  <2>9. now' \in Nat /\ resolvedAt' \in ({Never} \cup Times)' /\ faults' \in Nat
    BY <1>1, <2>1, <2>6 DEF RevisionsTypeOK
  <2>10. revisions' \in Seq(Revisions') /\ rows' \subseteq Requirements' /\ run' \in [Runners -> Runs']
    BY <1>1, <1>5, <2>2, <2>6 DEF RevisionsTypeOK
  <2>11. QED  BY <2>5, <2>7, <2>8, <2>9, <2>10 DEF RevisionsTypeOK
<1>9. RevisionChain'  BY <1>1 DEF IInv, RevisionChain
<1>10. OneOpenPerKey'
  <2>1. Open' \subseteq Open  BY <1>4 DEF Open
  <2>2. QED  BY <1>1, <1>4, <2>1 DEF IInv, OneOpenPerKey
<1>11. DeadlineOnce'
  <2>1. SUFFICES ASSUME NEW d \in DOMAIN revisions, revisions[d].trigger = "EVIDENCE_DEADLINE"
                 PROVE  \E r \in rows' : r.opened < d /\
                          ~\E e \in r.opened + 1 .. d - 1 :
                              revisions[e].trigger = "EVIDENCE_DEADLINE" /\ revisions[e].window >= NotBefore[r.key]
    BY <1>1 DEF DeadlineOnce
  <2>2. d \in Nat  BY <1>2
  <2>3. QED  BY <1>5, <1>7, <2>1, <2>2, RequirementsKept DEF IInv, DeadlineOnce
<1>12. RunsOK'
  <2>1. \A k, o : Consumed(k, o)' = Consumed(k, o)  BY <1>1 DEF Consumed
  <2>2. \A row \in rows : \E q \in rows' : q.key = row.key /\ q.opened = row.opened  BY <1>6 DEF Id
  <2>3. QED  BY <1>1, <2>1, <2>2 DEF IInv, RunsOK, WindowTaken, NumberWasGiven, DeadlineOwed
<1>13. QED  BY <1>8, <1>9, <1>10, <1>11, <1>12 DEF IInv

\* What apply_revision makes of the requirements.
LEMMA AppliedRequirement ==
    ASSUME RevisionsTypeOK, NEW id, NEW outcome \in [Keys -> {"gone", "unchanged", "pending", "decided"}],
           NEW q \in Applied(id, outcome)
    PROVE  \/ \E r \in rows : /\ q.key = r.key /\ q.opened = r.opened /\ q \in Requirements
                              /\ q.status = "OPEN" => q = r /\ outcome[r.key] = "unchanged"
           \/ \E k \in Keys : q = [key |-> k, opened |-> id, status |-> "OPEN"] /\ outcome[k] = "pending"
<1>1. CASE \E k \in Keys : q = [key |-> k, opened |-> id, status |-> "OPEN"] /\ outcome[k] = "pending"
  BY <1>1
<1>2. CASE \E r \in rows : q = IF r.status = "OPEN" THEN [r EXCEPT !.status = Fate(outcome[r.key])] ELSE r
  <2>1. PICK r \in rows : q = IF r.status = "OPEN" THEN [r EXCEPT !.status = Fate(outcome[r.key])] ELSE r
    BY <1>2
  <2>2. r \in Requirements /\ r.key \in Keys  BY DEF RevisionsTypeOK, Requirements
  <2>3. CASE r.status # "OPEN"  BY <2>1, <2>2, <2>3
  <2>4. CASE r.status = "OPEN"
    <3>1. PICK fate : fate = Fate(outcome[r.key])  OBVIOUS
    <3>2. fate \in Statuses /\ (fate = "OPEN" => outcome[r.key] = "unchanged")
      BY <2>2, <3>1 DEF Fate, Statuses
    <3>3. q = [r EXCEPT !.status = fate]  BY <2>1, <2>4, <3>1
    <3>4. q \in Requirements /\ q.key = r.key /\ q.opened = r.opened /\ q.status = fate
      BY <2>2, <3>2, <3>3 DEF Requirements
    <3>5. fate = "OPEN" => q = r  BY <2>2, <2>4, <3>3 DEF Requirements
    <3>6. QED  BY <3>2, <3>4, <3>5
  <2>5. QED  BY <2>3, <2>4
<1>3. QED  BY <1>1, <1>2 DEF Applied

LEMMA AppliedKeeps ==
    ASSUME RevisionsTypeOK, NEW id, NEW outcome \in [Keys -> {"gone", "unchanged", "pending", "decided"}],
           NEW r \in rows
    PROVE  \E q \in Applied(id, outcome) : q.key = r.key /\ q.opened = r.opened
<1>1. PICK q : q = IF r.status = "OPEN" THEN [r EXCEPT !.status = Fate(outcome[r.key])] ELSE r  OBVIOUS
<1>2. q \in Applied(id, outcome)  BY <1>1 DEF Applied
<1>3. r \in Requirements  BY DEF RevisionsTypeOK
<1>4. q.key = r.key /\ q.opened = r.opened  BY <1>1, <1>3 DEF Requirements
<1>5. QED  BY <1>2, <1>4

\* Of the runs that read a number only the one whose next number is free writes: it is the next.
LEMMA NumberIsNext ==
    ASSUME IInv, NEW w \in Runners, run[w].at = "numbered", Free(run[w].last + 1)
    PROVE  run[w].last = Len(revisions)
<1>1. run[w].last \in 0 .. Len(revisions)  BY DEF IInv, RunsOK, NumberWasGiven
<1>2. Len(revisions) \in Nat /\ run[w].last + 1 \notin 1 .. Len(revisions)  BY NumbersGiven DEF Free
<1>3. QED  BY <1>1, <1>2

LEMMA WriteKeeps == ASSUME IInv, NEW w \in Runners, Write(w) PROVE IInv'
<1>1. RevisionsTypeOK /\ run[w].at = "numbered" /\ run[w] \in Runs /\ UNCHANGED <<now, resolvedAt, pass, faults>>
  BY RunType DEF IInv, Write
<1>2. PICK n \in Nat : n = Len(revisions)  BY NumbersGiven
<1>3. run[w].last = n /\ revisions \in Seq(Revisions) /\ DOMAIN revisions = 1 .. n
  BY <1>1, <1>2, NumberIsNext DEF Write, RevisionsTypeOK
<1>4. PICK window : window = run[w].window  OBVIOUS
<1>5. window \in Times  BY <1>1, <1>4 DEF IInv, RunsOK, WindowTaken, Runs
<1>6. PICK new : new = [number |-> n + 1, previous |-> n, trigger |-> TriggerOf(w), window |-> window]  OBVIOUS
<1>7. revisions' = Append(revisions, new)  BY <1>3, <1>4, <1>6 DEF Write
<1>8. new \in Revisions  BY <1>5, <1>6 DEF Revisions, TriggerOf
<1>9. /\ revisions' \in Seq(Revisions) /\ Len(revisions') = n + 1 /\ DOMAIN revisions' = 1 .. n + 1
      /\ \A i \in 1 .. n : revisions'[i] = revisions[i]
      /\ revisions'[n + 1] = new
  BY <1>2, <1>3, <1>7, <1>8
<1>10. PICK outcome \in Outcomes(window) : rows' = Applied(n + 1, outcome)  BY <1>2, <1>4 DEF Write
<1>11. /\ outcome \in [Keys -> {"gone", "unchanged", "pending", "decided"}]
       /\ \A k \in Keys : outcome[k] = "pending" => window < NotBefore[k]
  BY DEF Outcomes
<1>12. \A q \in rows' :
         \/ \E r \in rows : /\ q.key = r.key /\ q.opened = r.opened /\ q \in Requirements
                            /\ q.status = "OPEN" => q = r /\ outcome[r.key] = "unchanged"
         \/ \E k \in Keys : q = [key |-> k, opened |-> n + 1, status |-> "OPEN"] /\ outcome[k] = "pending"
  BY <1>1, <1>10, <1>11, AppliedRequirement
<1>13. \A r \in rows : \E q \in rows' : q.key = r.key /\ q.opened = r.opened
  BY <1>1, <1>10, <1>11, AppliedKeeps
<1>14. run' = [run EXCEPT ![w] = NoRun] /\ NoRun \in Runs /\ NoRun.at = "idle"
  BY <1>1, NoRunType DEF Write, NoRun
<1>15. Times' = Times /\ Runs' = Runs /\ Revisions' = Revisions  BY <1>1 DEF Times, Runs, Revisions
<1>16. rows' \subseteq Requirements'
  <2>1. Requirements \subseteq Requirements'  BY <1>3, <1>9 DEF Requirements
  <2>2. ASSUME NEW k \in Keys PROVE [key |-> k, opened |-> n + 1, status |-> "OPEN"] \in Requirements'
    BY <1>9 DEF Requirements, Statuses
  <2>3. QED  BY <1>12, <2>1, <2>2
<1>17. RevisionsTypeOK'
  <2>1. Stored \subseteq Stored'  BY <1>13 DEF Stored, Id
  <2>2. run' \in [Runners -> Runs]  BY <1>1, <1>14 DEF RevisionsTypeOK
  <2>3. QED  BY <1>1, <1>9, <1>15, <1>16, <2>1, <2>2 DEF RevisionsTypeOK
<1>18. RevisionChain'
  <2>1. SUFFICES ASSUME NEW i \in 1 .. n + 1 PROVE revisions'[i].number = i /\ revisions'[i].previous = i - 1
    BY <1>9 DEF RevisionChain
  <2>2. CASE i \in 1 .. n  BY <1>3, <1>9, <2>2 DEF IInv, RevisionChain
  <2>3. CASE i = n + 1  BY <1>6, <1>9, <2>3
  <2>4. QED  BY <2>2, <2>3
<1>19. OneOpenPerKey'
  <2>1. ASSUME NEW q \in rows', NEW p \in rows', q.status = "OPEN", p.status = "OPEN", q.key = p.key PROVE q = p
    <3>1. CASE \E k \in Keys : q = [key |-> k, opened |-> n + 1, status |-> "OPEN"] /\ outcome[k] = "pending"
      <4>1. outcome[p.key] = "pending" /\ q = [key |-> p.key, opened |-> n + 1, status |-> "OPEN"]  BY <2>1, <3>1
      <4>2. p = [key |-> p.key, opened |-> n + 1, status |-> "OPEN"]  BY <1>12, <2>1, <4>1
      <4>3. QED  BY <4>1, <4>2
    <3>2. CASE q \in rows /\ outcome[q.key] = "unchanged"
      <4>1. p \in rows  BY <1>12, <2>1, <3>2
      <4>2. QED  BY <2>1, <3>2, <4>1 DEF IInv, OneOpenPerKey, Open
    <3>3. QED  BY <1>12, <2>1, <3>1, <3>2
  <2>2. ASSUME NEW q \in rows' PROVE revisions'[q.opened].window < NotBefore[q.key]
    <3>1. CASE \E k \in Keys : q = [key |-> k, opened |-> n + 1, status |-> "OPEN"] /\ outcome[k] = "pending"
      BY <1>6, <1>9, <1>11, <3>1
    <3>2. CASE \E r \in rows : q.key = r.key /\ q.opened = r.opened
      <4>1. PICK r \in rows : q.key = r.key /\ q.opened = r.opened  BY <3>2
      <4>2. r.opened \in 1 .. n  BY <1>1, <1>3 DEF RevisionsTypeOK, Requirements
      <4>3. revisions[r.opened].window < NotBefore[r.key]  BY DEF IInv, OneOpenPerKey
      <4>4. QED  BY <1>9, <4>1, <4>2, <4>3
    <3>3. QED  BY <1>12, <3>1, <3>2
  <2>3. QED  BY <2>1, <2>2 DEF OneOpenPerKey, Open
<1>20. DeadlineOnce'
  <2>1. SUFFICES ASSUME NEW d \in 1 .. n + 1, revisions'[d].trigger = "EVIDENCE_DEADLINE"
                 PROVE  \E q \in rows' : q.opened < d /\
                          ~\E e \in q.opened + 1 .. d - 1 :
                              revisions'[e].trigger = "EVIDENCE_DEADLINE" /\ revisions'[e].window >= NotBefore[q.key]
    BY <1>9 DEF DeadlineOnce
  <2>2. \E r \in rows : r.opened < d /\
          ~\E e \in r.opened + 1 .. d - 1 :
              revisions[e].trigger = "EVIDENCE_DEADLINE" /\ revisions[e].window >= NotBefore[r.key]
    <3>1. CASE d \in 1 .. n  BY <1>3, <1>9, <2>1, <3>1 DEF IInv, DeadlineOnce
    <3>2. CASE d = n + 1
      <4>1. w = Scheduler  BY <1>6, <1>9, <2>1, <3>2 DEF TriggerOf
      <4>2. PICK r \in rows : ~Consumed(r.key, r.opened)  BY <1>1, <4>1 DEF IInv, RunsOK, DeadlineOwed
      <4>3. r.opened \in 1 .. n  BY <1>1, <1>3 DEF RevisionsTypeOK, Requirements
      <4>4. ASSUME NEW e \in r.opened + 1 .. d - 1
            PROVE  ~(revisions[e].trigger = "EVIDENCE_DEADLINE" /\ revisions[e].window >= NotBefore[r.key])
        <5>1. e \in 1 .. n /\ e > r.opened  BY <3>2, <4>3
        <5>2. QED  BY <1>3, <4>2, <5>1 DEF Consumed
      <4>5. QED  BY <3>2, <4>3, <4>4
    <3>3. QED  BY <3>1, <3>2
  <2>3. PICK r \in rows : r.opened < d /\
          ~\E e \in r.opened + 1 .. d - 1 :
              revisions[e].trigger = "EVIDENCE_DEADLINE" /\ revisions[e].window >= NotBefore[r.key]
    BY <2>2
  <2>4. PICK q \in rows' : q.key = r.key /\ q.opened = r.opened  BY <1>13
  <2>5. r.opened \in 1 .. n  BY <1>1, <1>3 DEF RevisionsTypeOK, Requirements
  <2>6. \A e \in r.opened + 1 .. d - 1 : revisions'[e] = revisions[e]  BY <1>9, <2>5
  <2>7. QED  BY <2>3, <2>4, <2>6
<1>21. RunsOK'
  <2>1. \A v \in Runners : run'[v] = run[v] \/ run'[v].at = "idle"  BY <1>1, <1>14 DEF RevisionsTypeOK
  <2>2. WindowTaken'  BY <2>1 DEF IInv, RunsOK, WindowTaken
  <2>3. NumberWasGiven'  BY <1>2, <1>9, <2>1 DEF IInv, RunsOK, NumberWasGiven
  <2>4. DeadlineOwed'
    <3>1. SUFFICES ASSUME run'[Scheduler].at # "idle" PROVE \E q \in rows' : ~Consumed(q.key, q.opened)'
      BY DEF DeadlineOwed
    <3>2. w # Scheduler /\ run'[Scheduler] = run[Scheduler]  BY <1>1, <1>14, <2>1, <3>1 DEF RevisionsTypeOK, Runners
    <3>3. PICK r \in rows : ~Consumed(r.key, r.opened)  BY <3>1, <3>2 DEF IInv, RunsOK, DeadlineOwed
    <3>4. PICK q \in rows' : q.key = r.key /\ q.opened = r.opened  BY <1>13
    <3>5. new.trigger = "OTHER"  BY <1>6, <3>2 DEF TriggerOf
    <3>6. ASSUME NEW k, NEW o, Consumed(k, o)' PROVE Consumed(k, o)
      <4>1. PICK d \in 1 .. n + 1 : d > o /\ revisions'[d].trigger = "EVIDENCE_DEADLINE" /\ revisions'[d].window >= NotBefore[k]
        BY <1>9, <3>6 DEF Consumed
      <4>2. d \in 1 .. n  BY <1>9, <3>5, <4>1
      <4>3. QED  BY <1>3, <1>9, <4>1, <4>2 DEF Consumed
    <3>7. ~Consumed(r.key, r.opened)'  BY <3>3, <3>6
    <3>8. QED  BY <3>4, <3>7 DEF Consumed
  <2>5. QED  BY <2>2, <2>3, <2>4 DEF RunsOK
<1>22. QED  BY <1>17, <1>18, <1>19, <1>20, <1>21 DEF IInv

------------------------------------------------------------------------------
(* The theorems. *)

LEMMA NextKeeps == ASSUME IInv, [RevisionsNext]_revisionVars PROVE IInv'
<1>1. CASE UNCHANGED revisionVars
  BY <1>1, PassMoves DEF revisionVars, IInv, RevisionsTypeOK
<1>2. ASSUME NEW w \in Workers, Start(w) PROVE IInv'  BY <1>2, StartKeeps
<1>3. ASSUME NEW w \in Runners, Proceed(w) \/ Fail(w) PROVE IInv'
  BY <1>3, CaptureKeeps, ReadNumberKeeps, WriteKeeps, ConflictKeeps, FailKeeps DEF Proceed
<1>4. CASE SchedulerStep  BY <1>4, LoadKeeps, SelectExpiredKeeps, ExpireKeeps, DecideKeeps DEF SchedulerStep
<1>5. CASE Fault \/ Resolve \/ Reopen \/ Tick  BY <1>5, WorldStepKeeps
<1>6. QED  BY <1>1, <1>2, <1>3, <1>4, <1>5 DEF RevisionsNext

\* Whatever runs, passes, fails or restarts, the invariant holds.
THEOREM Invariance == RevisionsSpec => []IInv
<1>1. RevisionsInit => IInv  BY InitHolds
<1>2. IInv /\ [RevisionsNext]_revisionVars => IInv'  BY NextKeeps
<1>3. QED  BY <1>1, <1>2, PTL DEF RevisionsSpec

\* What the tables, the runs and the pass hold keeps its type, no window is later than now, and a
\* pass names only requirements that are stored.
THEOREM RevisionsTypeCorrect == RevisionsSpec => []RevisionsTypeOK
<1>1. IInv => RevisionsTypeOK  BY DEF IInv
<1>2. QED  BY <1>1, Invariance, PTL

\* save_revision and its retries under UNIQUE(incident_id, revision_number): however many runs of one
\* incident race, its revisions are numbered without gap and each links to the one before.
THEOREM RevisionsFormAChain == RevisionsSpec => []RevisionChain
<1>1. IInv => RevisionChain  BY DEF IInv
<1>2. QED  BY <1>1, Invariance, PTL

\* apply_revision and expire: no key is open twice, and only a run that could not see the evidence
\* yet opens one.
THEOREM RequirementsOpenOnce == RevisionsSpec => []OneOpenPerKey
<1>1. IInv => OneOpenPerKey  BY DEF IInv
<1>2. QED  BY <1>1, Invariance, PTL

\* run_scheduler_pass and deadline_consumed: no deadline revision is made for requirements whose time
\* an earlier one has reached, over failed passes, restarts, and runs in between.
THEOREM DeadlinesEvaluatedOnce == RevisionsSpec => []DeadlineOnce
<1>1. IInv => DeadlineOnce  BY DEF IInv
<1>2. QED  BY <1>1, Invariance, PTL

------------------------------------------------------------------------------
(* What becomes of a requirement. *)

\* A key and the revision that opened it name one requirement.
OneFate == \A r, q \in rows : Id(r) = Id(q) => r = q

\* A stored requirement stays stored, and one that is open was open before.
OnlyClosed ==
    /\ Stored \subseteq Stored'
    /\ \A q \in rows' : Id(q) \in Stored /\ q.status = "OPEN" => q \in rows

\* A step that leaves the requirements alone.
LEMMA UntouchedFate == ASSUME OneFate, rows' = rows PROVE OneFate' /\ OnlyClosed
  BY DEF OneFate, OnlyClosed, Stored, Id

\* Expired or left, a requirement keeps its name.
LEMMA ExpireFate == ASSUME IInv, OneFate, Expire PROVE OneFate' /\ OnlyClosed
<1>1. rows' = {IF Id(row) \in pass.writes THEN [row EXCEPT !.status = "EXPIRED"] ELSE row : row \in rows}
  BY DEF Expire
<1>2. \A row \in rows : row \in Requirements  BY DEF IInv, RevisionsTypeOK
<1>3. ASSUME NEW row \in rows, NEW q, q = IF Id(row) \in pass.writes THEN [row EXCEPT !.status = "EXPIRED"] ELSE row
      PROVE  Id(q) = Id(row) /\ (q.status = "OPEN" => q = row)
  BY <1>2, <1>3 DEF Requirements, Id
<1>4. OneFate'
  <2>1. SUFFICES ASSUME NEW p \in rows', NEW q \in rows', Id(p) = Id(q) PROVE p = q  BY DEF OneFate, Id
  <2>2. PICK a \in rows : p = IF Id(a) \in pass.writes THEN [a EXCEPT !.status = "EXPIRED"] ELSE a  BY <1>1
  <2>3. PICK b \in rows : q = IF Id(b) \in pass.writes THEN [b EXCEPT !.status = "EXPIRED"] ELSE b  BY <1>1
  <2>4. Id(a) = Id(b)  BY <1>3, <2>1, <2>2, <2>3
  <2>5. QED  BY <2>2, <2>3, <2>4 DEF OneFate
<1>5. ASSUME NEW i \in Stored PROVE i \in Stored'
  <2>1. PICK row \in rows : Id(row) = i  BY DEF Stored
  <2>2. PICK q \in rows' : q = IF Id(row) \in pass.writes THEN [row EXCEPT !.status = "EXPIRED"] ELSE row
    BY <1>1
  <2>3. QED  BY <1>3, <2>1, <2>2 DEF Stored, Id
<1>6. ASSUME NEW q \in rows', q.status = "OPEN" PROVE q \in rows
  <2>1. PICK row \in rows : q = IF Id(row) \in pass.writes THEN [row EXCEPT !.status = "EXPIRED"] ELSE row
    BY <1>1
  <2>2. QED  BY <1>3, <1>6, <2>1
<1>7. QED  BY <1>4, <1>5, <1>6 DEF OnlyClosed

\* A revision gives what was stored a status, and opens only requirements of its own.
LEMMA WriteFate == ASSUME IInv, OneFate, NEW w \in Runners, Write(w) PROVE OneFate' /\ OnlyClosed
<1>1. PICK n \in Nat : n = Len(revisions)  BY NumbersGiven
<1>2. PICK outcome \in Outcomes(run[w].window) : rows' = Applied(n + 1, outcome)  BY <1>1 DEF Write
<1>3. RevisionsTypeOK /\ outcome \in [Keys -> {"gone", "unchanged", "pending", "decided"}]
  BY DEF IInv, Outcomes
<1>4. ASSUME NEW row \in rows PROVE row \in Requirements /\ row.opened # n + 1
  <2>1. row \in Requirements /\ row.opened \in DOMAIN revisions  BY <1>3 DEF RevisionsTypeOK, Requirements
  <2>2. DOMAIN revisions = 1 .. n  BY <1>1, <1>3 DEF RevisionsTypeOK
  <2>3. QED  BY <2>1, <2>2
<1>5. \A q \in rows' :
         \/ \E k \in Keys : q = [key |-> k, opened |-> n + 1, status |-> "OPEN"]
         \/ \E r \in rows : q = IF r.status = "OPEN" THEN [r EXCEPT !.status = Fate(outcome[r.key])] ELSE r
  BY <1>2 DEF Applied
<1>6. ASSUME NEW r \in rows, NEW q, q = IF r.status = "OPEN" THEN [r EXCEPT !.status = Fate(outcome[r.key])] ELSE r
      PROVE  Id(q) = Id(r) /\ Id(q)[2] # n + 1
  BY <1>4, <1>6 DEF Requirements, Id
<1>7. \A k \in Keys : Id([key |-> k, opened |-> n + 1, status |-> "OPEN"]) = <<k, n + 1>>  BY DEF Id
<1>8. OneFate'
  <2>1. SUFFICES ASSUME NEW p \in rows', NEW q \in rows', Id(p) = Id(q) PROVE p = q  BY DEF OneFate, Id
  <2>2. CASE \E k \in Keys : p = [key |-> k, opened |-> n + 1, status |-> "OPEN"]
    <3>1. PICK k \in Keys : p = [key |-> k, opened |-> n + 1, status |-> "OPEN"]  BY <2>2
    <3>2. Id(q) = <<k, n + 1>>  BY <1>7, <2>1, <3>1
    <3>3. PICK j \in Keys : q = [key |-> j, opened |-> n + 1, status |-> "OPEN"]  BY <1>5, <1>6, <3>2
    <3>4. j = k  BY <1>7, <3>2, <3>3
    <3>5. QED  BY <3>1, <3>3, <3>4
  <2>3. CASE \E r \in rows : p = IF r.status = "OPEN" THEN [r EXCEPT !.status = Fate(outcome[r.key])] ELSE r
    <3>1. PICK a \in rows : p = IF a.status = "OPEN" THEN [a EXCEPT !.status = Fate(outcome[a.key])] ELSE a
      BY <2>3
    <3>2. Id(p) = Id(a) /\ Id(q)[2] # n + 1  BY <1>6, <2>1, <3>1
    <3>3. PICK b \in rows : q = IF b.status = "OPEN" THEN [b EXCEPT !.status = Fate(outcome[b.key])] ELSE b
      BY <1>5, <1>7, <3>2
    <3>4. Id(a) = Id(b)  BY <1>6, <2>1, <3>1, <3>3
    <3>5. a = b  BY <3>4 DEF OneFate
    <3>6. QED  BY <3>1, <3>3, <3>5
  <2>4. QED  BY <1>5, <2>2, <2>3
<1>9. ASSUME NEW i \in Stored PROVE i \in Stored'
  <2>1. PICK r \in rows : Id(r) = i  BY DEF Stored
  <2>2. PICK q \in rows' : q.key = r.key /\ q.opened = r.opened  BY <1>2, <1>3, AppliedKeeps
  <2>3. QED  BY <2>1, <2>2 DEF Stored, Id
<1>10. ASSUME NEW q \in rows', Id(q) \in Stored, q.status = "OPEN" PROVE q \in rows
  <2>1. \/ \E r \in rows : /\ q.key = r.key /\ q.opened = r.opened /\ q \in Requirements
                           /\ q.status = "OPEN" => q = r /\ outcome[r.key] = "unchanged"
        \/ \E k \in Keys : q = [key |-> k, opened |-> n + 1, status |-> "OPEN"] /\ outcome[k] = "pending"
    BY <1>2, <1>3, AppliedRequirement
  <2>2. ~\E k \in Keys : q = [key |-> k, opened |-> n + 1, status |-> "OPEN"]
    BY <1>4, <1>7, <1>10 DEF Stored, Id
  <2>3. QED  BY <1>10, <2>1, <2>2
<1>11. QED  BY <1>8, <1>9, <1>10 DEF OnlyClosed

LEMMA FateKept == ASSUME IInv, OneFate, [RevisionsNext]_revisionVars PROVE OneFate' /\ OnlyClosed
<1>1. CASE UNCHANGED revisionVars  BY <1>1, UntouchedFate DEF revisionVars
<1>2. ASSUME NEW w \in Workers, Start(w) PROVE OneFate' /\ OnlyClosed  BY <1>2, UntouchedFate DEF Start
<1>3. ASSUME NEW w \in Runners, Write(w) PROVE OneFate' /\ OnlyClosed  BY <1>3, WriteFate
<1>4. ASSUME NEW w \in Runners, Capture(w) \/ ReadNumber(w) \/ Conflict(w) \/ Fail(w) PROVE OneFate' /\ OnlyClosed
  BY <1>4, UntouchedFate DEF Capture, ReadNumber, Conflict, Fail
<1>5. CASE Expire  BY <1>5, ExpireFate
<1>6. CASE Load \/ SelectExpired \/ Decide  BY <1>6, UntouchedFate DEF Load, SelectExpired, Decide
<1>7. CASE Fault \/ Resolve \/ Reopen \/ Tick  BY <1>7, UntouchedFate DEF Fault, Resolve, Reopen, Tick
<1>8. QED  BY <1>1, <1>2, <1>3, <1>4, <1>5, <1>6, <1>7 DEF RevisionsNext, Proceed, SchedulerStep

\* apply_revision and expire: a stored requirement is never forgotten, and one that was decided,
\* superseded or expired is never open again, although expire writes what it selected earlier without
\* looking again and a run takes its outcome from evidence captured earlier.  Another one of its key is
\* opened by a revision of its own.
THEOREM ClosedStaysClosed == RevisionsSpec => [][OnlyClosed]_revisionVars
<1>1. RevisionsInit => IInv /\ OneFate  BY InitHolds DEF RevisionsInit, OneFate
<1>2. IInv /\ OneFate /\ [RevisionsNext]_revisionVars => (IInv /\ OneFate)' /\ OnlyClosed
  BY NextKeeps, FateKept
<1>3. QED  BY <1>1, <1>2, PTL DEF RevisionsSpec
==============================================================================
