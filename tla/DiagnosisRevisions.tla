-------------------------- MODULE DiagnosisRevisions --------------------------
(***************************************************************************)
(* The diagnosis revisions of one incident, the evidence requirements they    *)
(* leave open, and the scheduler that asks for one more revision when the      *)
(* deadline of a requirement is due (apps/control_plane/diagnosis.py and        *)
(* scheduler.py, packages/storage/repositories.py).                            *)
(*                                                                          *)
(* Runs are threads of one control plane: requests, alerts and the watch loop   *)
(* start them, and nothing keeps two runs of one incident apart before they     *)
(* save.  What a run concludes is arbitrary, except that a rule leaves a         *)
(* requirement pending only while the run's window ends before its time.        *)
(* FOR UPDATE is not modelled: SQLite ignores it, and the retries are for that.  *)
(***************************************************************************)
EXTENDS Integers, Sequences, FiniteSets

CONSTANTS
    Workers,        \* threads that run a diagnosis for an alert or a request
    Scheduler,      \* the watch loop, which runs the deadline revisions
    Keys,           \* requirement keys, each of a hypothesis of its own
    NotBefore,      \* key -> when its evidence is complete
    Settle, Horizon,            \* ReevaluationConfig: settle, and horizon after the onset
    MaxRevisions, Attempts,     \* max_revisions, _REVISION_ATTEMPTS
    MaxTime,        \* bound: how far the clock goes
    MaxWritten,     \* bound: workers start no run that could write more revisions than this
    MaxFaults       \* bound: how often a pass fails or the process restarts

ASSUME SchedulerAssumption == Scheduler \notin Workers
ASSUME AttemptsAssumption == Attempts \in Nat \ {0}
ASSUME TimeAssumption ==
    /\ NotBefore \in [Keys -> Nat]
    /\ Settle \in Nat /\ Horizon \in Nat /\ MaxTime \in Nat

VARIABLES
    now,
    resolvedAt,     \* when the incident was resolved, or Never while it is open
    revisions,      \* the rows of diagnoses, in the order of diagnosis_id
    rows,           \* the rows of evidence_requirements; one is named by its key and opening
    run,            \* thread -> the diagnosis it is at
    pass,           \* the pass the scheduler is at
    faults

revisionVars == <<now, resolvedAt, revisions, rows, run, pass, faults>>

Never == -1
Runners == Workers \cup {Scheduler}
NoRun == [at |-> "idle", window |-> Never, last |-> 0, attempt |-> 1]
NoPass == [at |-> "idle", time |-> 0, open |-> {}, expired |-> {}, writes |-> {}]
Statuses == {"OPEN", "SATISFIED", "SUPERSEDED", "EXPIRED"}

RevisionsInit ==
    /\ now = 0 /\ resolvedAt = Never
    /\ revisions = <<>> /\ rows = {}
    /\ run = [w \in Runners |-> NoRun]
    /\ pass = NoPass
    /\ faults = 0

Id(row) == <<row.key, row.opened>>
Open == {row \in rows : row.status = "OPEN"}
Busy == {w \in Workers : run[w].at # "idle"}

------------------------------------------------------------------------------
(* A run: _diagnose and save_revision. *)

\* What the run finds for every key: its hypothesis is gone or out of scope; nothing to tell
\* (no evaluation, or no data after the time); still pending; passed or disqualified.  All openings
\* of a key have the same time here; in the code it follows from the onset stored with each.
Outcomes(window) ==
    {o \in [Keys -> {"gone", "unchanged", "pending", "decided"}] :
        \A k \in Keys : o[k] = "pending" => window < NotBefore[k]}

Fate(outcome) ==
    CASE outcome = "decided" -> "SATISFIED"
      [] outcome = "unchanged" -> "OPEN"
      [] OTHER -> "SUPERSEDED"

\* Mutant of Applied: a pending requirement that is open stays open.
AppliedBeside(id, outcome) ==
    {IF row.status = "OPEN" /\ outcome[row.key] # "pending"
     THEN [row EXCEPT !.status = Fate(outcome[row.key])] ELSE row : row \in rows}
    \cup {[key |-> k, opened |-> id, status |-> "OPEN"] : k \in {j \in Keys : outcome[j] = "pending"}}

\* apply_revision: open requirements are closed or left, and pending ones opened anew.
Applied(id, outcome) ==
    {IF row.status = "OPEN" THEN [row EXCEPT !.status = Fate(outcome[row.key])] ELSE row : row \in rows}
    \cup {[key |-> k, opened |-> id, status |-> "OPEN"] : k \in {j \in Keys : outcome[j] = "pending"}}

\* The run of an incident that is over has its window frozen there.
Started == [NoRun EXCEPT !.at = "started", !.window = resolvedAt]

Start(w) ==
    /\ run[w].at = "idle" /\ Len(revisions) + Cardinality(Busy) < MaxWritten
    /\ run' = [run EXCEPT ![w] = Started]
    /\ UNCHANGED <<now, resolvedAt, revisions, rows, pass, faults>>

\* Mutant of Capture: the window reaches beyond what was captured.
CaptureAhead(w) ==
    /\ run[w].at = "started"
    /\ run' = [run EXCEPT ![w].at = "captured",
                          ![w].window = IF run[w].window = Never THEN now + Settle ELSE run[w].window]
    /\ UNCHANGED <<now, resolvedAt, revisions, rows, pass, faults>>

\* The evidence is captured; the window of an open incident ends now.
Capture(w) ==
    /\ run[w].at = "started"
    /\ run' = [run EXCEPT ![w].at = "captured",
                          ![w].window = IF run[w].window = Never THEN now ELSE run[w].window]
    /\ UNCHANGED <<now, resolvedAt, revisions, rows, pass, faults>>

\* save_revision reads the highest number, which is also that of the previous revision.
Numbers == {revisions[i].number : i \in DOMAIN revisions}
ReadNumber(w) ==
    /\ run[w].at = "captured"
    /\ \E n \in Numbers \cup {0} :
          /\ \A m \in Numbers : m <= n
          /\ run' = [run EXCEPT ![w].at = "numbered", ![w].last = n]
    /\ UNCHANGED <<now, resolvedAt, revisions, rows, pass, faults>>

TriggerOf(w) == IF w = Scheduler THEN "EVIDENCE_DEADLINE" ELSE "OTHER"

\* Mutant of Free: the uniqueness of numbers is not enforced.
FreeAlways(number) == TRUE

\* UNIQUE(incident_id, revision_number)
Free(number) == number \notin Numbers

\* The next revision and what becomes of the requirements, in one transaction.
Write(w) ==
    /\ run[w].at = "numbered" /\ Free(run[w].last + 1)
    /\ revisions' = Append(revisions,
           [number |-> run[w].last + 1, previous |-> run[w].last, trigger |-> TriggerOf(w), window |-> run[w].window])
    /\ \E outcome \in Outcomes(run[w].window) : rows' = Applied(Len(revisions) + 1, outcome)
    /\ run' = [run EXCEPT ![w] = NoRun]
    /\ UNCHANGED <<now, resolvedAt, pass, faults>>

\* Another run took the number: it is read again, or the run fails.
Conflict(w) ==
    /\ run[w].at = "numbered" /\ ~Free(run[w].last + 1)
    /\ run' = [run EXCEPT ![w] = IF run[w].attempt = Attempts THEN NoRun
                                 ELSE [run[w] EXCEPT !.at = "captured", !.attempt = @ + 1]]
    /\ UNCHANGED <<now, resolvedAt, revisions, rows, pass, faults>>

\* A capture, the engine or the transaction raises: nothing of the run is kept.
Fail(w) ==
    /\ run[w].at # "idle"
    /\ run' = [run EXCEPT ![w] = NoRun]
    /\ UNCHANGED <<now, resolvedAt, revisions, rows, pass, faults>>

------------------------------------------------------------------------------
(* The scheduler: run_scheduler_pass, again and again by the one watch loop. *)

\* It loads what is open, and finds what is past the horizon.
Load ==
    /\ pass.at = "idle" /\ run[Scheduler].at = "idle" /\ Open # {}
    /\ pass' = [at |-> "loaded", time |-> now, open |-> {Id(row) : row \in Open},
                expired |-> IF now >= Horizon THEN {Id(row) : row \in Open} ELSE {}, writes |-> {}]
    /\ UNCHANGED <<now, resolvedAt, revisions, rows, run, faults>>

\* expire reads those of them that are open still ...
SelectExpired ==
    /\ pass.at = "loaded"
    /\ pass' = [pass EXCEPT !.at = "selected",
                            !.writes = {id \in pass.expired : \E row \in Open : Id(row) = id}]
    /\ UNCHANGED <<now, resolvedAt, revisions, rows, run, faults>>

\* Mutant of Expire: it is not committed.
ExpireUncommitted ==
    /\ pass.at = "selected"
    /\ pass' = [pass EXCEPT !.at = "expired"]
    /\ UNCHANGED <<now, resolvedAt, revisions, rows, run, faults>>

\* ... and writes them, whatever they are by now.
Expire ==
    /\ pass.at = "selected"
    /\ rows' = {IF Id(row) \in pass.writes THEN [row EXCEPT !.status = "EXPIRED"] ELSE row : row \in rows}
    /\ pass' = [pass EXCEPT !.at = "expired"]
    /\ UNCHANGED <<now, resolvedAt, revisions, run, faults>>

\* Mutant of Consumed: only the revision right after the opening one is looked at.
ConsumedByNext(key, opened) ==
    \E d \in DOMAIN revisions :
        d = opened + 1 /\ revisions[d].trigger = "EVIDENCE_DEADLINE" /\ revisions[d].window >= NotBefore[key]

\* deadline_consumed: a later deadline revision saw the evidence complete.
Consumed(key, opened) ==
    \E d \in DOMAIN revisions :
        d > opened /\ revisions[d].trigger = "EVIDENCE_DEADLINE" /\ revisions[d].window >= NotBefore[key]

\* It goes on with what did not expire: one revision, if any deadline is due and not consumed,
\* and there are not too many.
Due == {id \in pass.open : pass.time >= NotBefore[id[1]] + Settle /\ ~Consumed(id[1], id[2])}
Decide ==
    /\ pass.at = "expired"
    /\ pass' = NoPass
    /\ IF Due \ pass.expired # {} /\ Len(revisions) < MaxRevisions
       THEN run' = [run EXCEPT ![Scheduler] = Started] ELSE UNCHANGED run
    /\ UNCHANGED <<now, resolvedAt, revisions, rows, faults>>

------------------------------------------------------------------------------
(* Around them. *)

\* The process restarts, or the database fails the pass: what was under way is lost.
Fault ==
    /\ faults < MaxFaults /\ faults' = faults + 1
    /\ pass' = NoPass
    /\ \E lost \in {{}, Runners} : run' = [w \in Runners |-> IF w \in lost THEN NoRun ELSE run[w]]
    /\ UNCHANGED <<now, resolvedAt, revisions, rows>>

\* The alerts of the incident end, or one fires again.
Resolve == resolvedAt = Never /\ resolvedAt' = now /\ UNCHANGED <<now, revisions, rows, run, pass, faults>>
Reopen == resolvedAt # Never /\ resolvedAt' = Never /\ UNCHANGED <<now, revisions, rows, run, pass, faults>>

Tick == now < MaxTime /\ now' = now + 1 /\ UNCHANGED <<resolvedAt, revisions, rows, run, pass, faults>>

Proceed(w) == Capture(w) \/ ReadNumber(w) \/ Write(w) \/ Conflict(w)
SchedulerStep == Load \/ SelectExpired \/ Expire \/ Decide

RevisionsNext ==
    \/ \E w \in Workers : Start(w)
    \/ \E w \in Runners : Proceed(w) \/ Fail(w)
    \/ SchedulerStep \/ Fault \/ Resolve \/ Reopen \/ Tick

\* Time passes, the watch loop runs and so does what it started.  Nothing else need happen.
RevisionsFairness ==
    WF_revisionVars(Tick) /\ WF_revisionVars(SchedulerStep) /\ WF_revisionVars(Proceed(Scheduler))
RevisionsSpec == RevisionsInit /\ [][RevisionsNext]_revisionVars /\ RevisionsFairness

------------------------------------------------------------------------------
(* Properties. *)

Times == 0 .. now
Revisions == [number : Nat, previous : Nat, trigger : {"EVIDENCE_DEADLINE", "OTHER"}, window : Times]
Requirements == [key : Keys, opened : DOMAIN revisions, status : Statuses]
Runs == [at : {"idle", "started", "captured", "numbered"}, window : {Never} \cup Times,
         last : Nat, attempt : 1 .. Attempts]
Stored == {Id(row) : row \in rows}

\* Types; no time is later than now, and a pass knows only requirements that are stored.
RevisionsTypeOK ==
    /\ now \in Nat /\ resolvedAt \in {Never} \cup Times /\ faults \in Nat
    /\ revisions \in Seq(Revisions)
    /\ rows \subseteq Requirements
    /\ run \in [Runners -> Runs]
    /\ pass.at \in {"idle", "loaded", "selected", "expired"} /\ pass.time \in Times
    /\ pass.writes \subseteq pass.expired /\ pass.expired \subseteq pass.open
    /\ pass.open \subseteq Stored

\* However runs race to save, the revisions of the incident are numbered 1, 2, 3, ... and each
\* links to the one before it.
RevisionChain ==
    \A i \in DOMAIN revisions : revisions[i].number = i /\ revisions[i].previous = i - 1

\* A requirement is open once at most, and it was a run that could not see its evidence yet
\* that opened it.
OneOpenPerKey ==
    /\ \A r, s \in Open : r.key = s.key => r = s
    /\ \A r \in rows : revisions[r.opened].window < NotBefore[r.key]

\* A deadline is evaluated once: every deadline revision was made for a requirement whose time
\* no deadline revision since it was opened had reached.
DeadlineOnce ==
    \A d \in DOMAIN revisions : revisions[d].trigger = "EVIDENCE_DEADLINE" =>
        \E r \in rows : r.opened < d /\
            ~\E e \in r.opened + 1 .. d - 1 :
                revisions[e].trigger = "EVIDENCE_DEADLINE" /\ revisions[e].window >= NotBefore[r.key]

\* No requirement stays open for ever, whichever runs and passes fail, finitely often: it is decided,
\* superseded, or it expires.  (The scheduler is switched on, SRE_REEVALUATE, and the onset of the
\* opening revision can be read: a pass that finds one unreadable expires nothing at all.)
EveryRequirementSettled == \A k \in Keys : (\E r \in Open : r.key = k) ~> (\A r \in Open : r.key # k)
==============================================================================
