------------------------------- MODULE FifoSlots -------------------------------
(***************************************************************************)
(* The gate in front of the trace backend                                   *)
(* (apps/control_plane/trace_admission.py): the reads of all diagnoses share *)
(* a few slots, given in the order of arrival, and a reader that is not      *)
(* admitted in time goes without.                                           *)
(*                                                                          *)
(* It is a monitor on one condition variable.  An action is what a thread    *)
(* does from taking the lock to leaving or releasing it in a wait; a thread  *)
(* that was notified, or whose wait timed out, is awake and still has to get *)
(* the lock.                                                                *)
(***************************************************************************)
EXTENDS Naturals, Sequences, FiniteSets

CONSTANTS
    Threads,        \* the pool threads of all captures, each reading slice after slice
    Slots           \* TRACE_READ_SLOTS

ASSUME ThreadsAssumption == IsFiniteSet(Threads)
ASSUME SlotsAssumption == Slots \in Nat

VARIABLES
    queue,          \* the tickets, each its thread, in order of arrival
    free,           \* slots that are free
    inFlight,       \* slots that are taken
    maxInFlight,    \* the most that ever were
    state,          \* thread -> what it is doing
    late            \* waiting threads whose time is over

vars == <<queue, free, inFlight, maxInFlight, state, late>>

States == {"idle", "asleep", "awake", "reading"}

Init ==
    /\ queue = <<>>
    /\ free = Slots /\ inFlight = 0 /\ maxInFlight = 0
    /\ state = [t \in Threads |-> "idle"]
    /\ late = {}

\* Mutant of NotifyAll: only the thread itself moves.
NotifyNone(t, s) == state' = [state EXCEPT ![t] = s]

\* notify_all: everyone asleep wakes, and t goes on as s.
NotifyAll(t, s) ==
    state' = [u \in Threads |-> IF u = t THEN s ELSE IF state[u] = "asleep" THEN "awake" ELSE state[u]]

\* Mutant of IsNext: any ticket will do.
AnyTicket(t) == free > 0

\* The condition admit waits for: its ticket is the head, and a slot is free.
IsNext(t) == free > 0 /\ queue[1] = t

\* Mutant of TakeSlot: a slot is taken without being counted off.
TakeUncounted ==
    /\ free' = free /\ inFlight' = inFlight + 1
    /\ maxInFlight' = IF inFlight' > maxInFlight THEN inFlight' ELSE maxInFlight

TakeSlot ==
    /\ free' = free - 1 /\ inFlight' = inFlight + 1
    /\ maxInFlight' = IF inFlight' > maxInFlight THEN inFlight' ELSE maxInFlight

\* The queue without its ticket number i.
Without(i) == [j \in 1 .. Len(queue) - 1 |-> IF j < i THEN queue[j] ELSE queue[j + 1]]

\* admit: a thread that finds nobody waiting and a free slot is admitted at once.
ArriveAndEnter(t) ==
    /\ state[t] = "idle" /\ queue = <<>> /\ free > 0
    /\ TakeSlot /\ NotifyAll(t, "reading")
    /\ UNCHANGED <<queue, late>>

\* admit: or it waits.
ArriveAndWait(t) ==
    /\ state[t] = "idle" /\ ~(queue = <<>> /\ free > 0)
    /\ queue' = Append(queue, t)
    /\ state' = [state EXCEPT ![t] = "asleep"]
    /\ UNCHANGED <<free, inFlight, maxInFlight, late>>

\* Mutant of TimeOver: the wait has no timeout of its own.
TimeOverAsleep(t) ==
    /\ state[t] \in {"asleep", "awake"} /\ t \notin late
    /\ late' = late \cup {t}
    /\ UNCHANGED <<queue, free, inFlight, maxInFlight, state>>

\* The waiting time of a thread is over: its wait, if it is in one, returns.
TimeOver(t) ==
    /\ state[t] \in {"asleep", "awake"} /\ t \notin late
    /\ late' = late \cup {t}
    /\ state' = [state EXCEPT ![t] = "awake"]
    /\ UNCHANGED <<queue, free, inFlight, maxInFlight>>

\* Mutant of Enter: the next in the queue is not told.
EnterQuietly(t) ==
    /\ state[t] = "awake" /\ IsNext(t)
    /\ \E i \in DOMAIN queue : queue[i] = t /\ queue' = Without(i)
    /\ TakeSlot /\ NotifyNone(t, "reading")
    /\ late' = late \ {t}

\* A thread that has the lock again is admitted if it is next, late or not.
Enter(t) ==
    /\ state[t] = "awake" /\ IsNext(t)
    /\ \E i \in DOMAIN queue : queue[i] = t /\ queue' = Without(i)
    /\ TakeSlot /\ NotifyAll(t, "reading")
    /\ late' = late \ {t}

\* Mutant of GiveUp: its ticket stays behind.
GiveUpInQueue(t) ==
    /\ state[t] = "awake" /\ ~IsNext(t) /\ t \in late
    /\ NotifyAll(t, "idle")
    /\ late' = late \ {t}
    /\ UNCHANGED <<queue, free, inFlight, maxInFlight>>

\* It is not, and its time is over: it leaves the queue without a slot.
GiveUp(t) ==
    /\ state[t] = "awake" /\ ~IsNext(t) /\ t \in late
    /\ \E i \in DOMAIN queue : queue[i] = t /\ queue' = Without(i)
    /\ NotifyAll(t, "idle")
    /\ late' = late \ {t}
    /\ UNCHANGED <<free, inFlight, maxInFlight>>

\* It is not, and there is time left: it waits again.
WaitAgain(t) ==
    /\ state[t] = "awake" /\ ~IsNext(t) /\ t \notin late
    /\ state' = [state EXCEPT ![t] = "asleep"]
    /\ UNCHANGED <<queue, free, inFlight, maxInFlight, late>>

\* release: the read is over, by a result or an exception.
Release(t) ==
    /\ state[t] = "reading"
    /\ free' = free + 1 /\ inFlight' = inFlight - 1
    /\ NotifyAll(t, "idle")
    /\ UNCHANGED <<queue, maxInFlight, late>>

Resume(t) == Enter(t) \/ GiveUp(t) \/ WaitAgain(t)

Next ==
    \E t \in Threads :
        ArriveAndEnter(t) \/ ArriveAndWait(t) \/ TimeOver(t) \/ Resume(t) \/ Release(t)

\* A thread that is awake gets the lock.  Reads need not end, and threads need not arrive.
Fairness == \A t \in Threads : WF_vars(Resume(t))
Spec == Init /\ [][Next]_vars /\ Fairness

------------------------------------------------------------------------------
(* Properties. *)

Waiting(t) == \E i \in DOMAIN queue : queue[i] = t
Readers == {t \in Threads : state[t] = "reading"}

TypeOK ==
    /\ queue \in Seq(Threads)
    /\ free \in Nat /\ inFlight \in Nat /\ maxInFlight \in Nat
    /\ state \in [Threads -> States]
    /\ late \subseteq Threads

\* A thread has one ticket while it waits and none otherwise: nobody who gave up or was
\* admitted is left at the head, where he would block the queue for good.
TicketsAreWaiters ==
    /\ \A i, j \in DOMAIN queue : queue[i] = queue[j] => i = j
    /\ \A t \in Threads : Waiting(t) <=> state[t] \in {"asleep", "awake"}
    /\ \A t \in late : state[t] = "awake"

\* No slot is lost or handed out twice, whoever times out, fails or is admitted late, so
\* never are more reads under way than there are slots.
SlotsConserved ==
    /\ inFlight = Cardinality(Readers) /\ free + inFlight = Slots
    /\ maxInFlight <= Slots

\* The head of the queue never sleeps on a free slot.
NoLostWakeup == queue # <<>> /\ free > 0 => state[queue[1]] = "awake"

\* Slots are given in the order of arrival: whoever is admitted has nobody before it.
ArrivalOrder ==
    [][\A t \in Threads : state'[t] = "reading" /\ state[t] # "reading" =>
          \A i \in DOMAIN queue : queue[i] # t => \E j \in 1 .. i : queue[j] = t]_vars

\* If reads end, every reader is admitted or gives up in the end: nobody is passed for ever,
\* whether or not its time runs out.
ReadsEnd == \A t \in Threads : WF_vars(Release(t))
EveryWaiterServed == ReadsEnd => \A t \in Threads : Waiting(t) ~> ~Waiting(t)

\* Even if no read ever ends, a reader whose time is over does not wait on.
TimeoutHonoured == \A t \in Threads : t \in late ~> t \notin late
==============================================================================
