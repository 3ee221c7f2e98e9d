---------------------------- MODULE FifoSlotsProofs ----------------------------
(***************************************************************************)
(* Proofs about FifoSlots, for any finite set of threads and any number of   *)
(* slots.  The four invariants hold together: each step needs the types, the *)
(* tickets say who the next head of the queue is and that it is a waiter,    *)
(* and a step that notifies leaves no waiter asleep.                         *)
(***************************************************************************)
EXTENDS FifoSlots, FiniteSetTheorems, TLAPS

\* The inductive invariant.
IInv == TypeOK /\ TicketsAreWaiters /\ SlotsConserved /\ NoLostWakeup

------------------------------------------------------------------------------
(* Lemmas about the parts a step is made of. *)

\* Taking the ticket at i out leaves a queue of the other tickets, in order.
LEMMA TicketRemoved ==
    ASSUME queue \in Seq(Threads), NEW i \in DOMAIN queue, queue' = Without(i),
           \A m, n \in DOMAIN queue : queue[m] = queue[n] => m = n
    PROVE  /\ queue' \in Seq(Threads)
           /\ \A m, n \in DOMAIN queue' : queue'[m] = queue'[n] => m = n
           /\ \A t : Waiting(t)' <=> Waiting(t) /\ t # queue[i]
<1>1. DOMAIN queue = 1 .. Len(queue) /\ Len(queue) \in Nat \ {0}
  OBVIOUS
<1>2. /\ Len(queue) - 1 \in Nat
      /\ \A j \in 1 .. Len(queue) - 1 : j \in DOMAIN queue /\ j + 1 \in DOMAIN queue
  BY <1>1
<1>3. \A j \in 1 .. Len(queue) - 1 : (IF j < i THEN queue[j] ELSE queue[j + 1]) \in Threads
  BY <1>1, <1>2
<1>4. queue' \in Seq(Threads) /\ DOMAIN queue' = 1 .. Len(queue) - 1
  <2>1. queue' \in [1 .. Len(queue) - 1 -> Threads]
    BY <1>3 DEF Without
  <2>2. QED  BY <2>1, <1>2
<1>5. \A j \in DOMAIN queue' : queue'[j] = IF j < i THEN queue[j] ELSE queue[j + 1]
  BY <1>4 DEF Without
<1>6. \A m, n \in DOMAIN queue' : queue'[m] = queue'[n] => m = n
  <2>1. SUFFICES ASSUME NEW m \in DOMAIN queue', NEW n \in DOMAIN queue', queue'[m] = queue'[n]
                 PROVE  m = n
    OBVIOUS
  <2>2. PICK k \in DOMAIN queue : k = IF m < i THEN m ELSE m + 1  BY <1>2, <1>4, <1>1
  <2>3. PICK l \in DOMAIN queue : l = IF n < i THEN n ELSE n + 1  BY <1>2, <1>4, <1>1
  <2>4. queue[k] = queue'[m] /\ queue[l] = queue'[n]  BY <2>2, <2>3, <1>5
  <2>5. k = l  BY <2>1, <2>4
  <2>6. m \in Nat /\ n \in Nat /\ i \in Nat  BY <1>1, <1>4
  <2>7. QED  BY <2>2, <2>3, <2>5, <2>6
<1>7. ASSUME NEW t PROVE Waiting(t)' <=> Waiting(t) /\ t # queue[i]
  <2>1. ASSUME NEW j \in DOMAIN queue', queue'[j] = t PROVE Waiting(t) /\ t # queue[i]
    BY <2>1, <1>1, <1>2, <1>4, <1>5 DEF Waiting
  <2>2. ASSUME NEW j \in DOMAIN queue, queue[j] = t, t # queue[i] PROVE Waiting(t)'
    <3>1. CASE j < i
      <4>1. j \in DOMAIN queue' /\ queue'[j] = t  BY <3>1, <2>2, <1>1, <1>4, <1>5
      <4>2. QED  BY <4>1 DEF Waiting
    <3>2. CASE j > i
      <4>1. j - 1 \in DOMAIN queue' /\ queue'[j - 1] = t  BY <3>2, <2>2, <1>1, <1>4, <1>5
      <4>2. QED  BY <4>1 DEF Waiting
    <3>3. QED  BY <3>1, <3>2, <2>2, <1>1
  <2>3. QED  BY <2>1, <2>2 DEF Waiting
<1>8. QED  BY <1>4, <1>6, <1>7

\* What notify_all makes of the states.
LEMMA Notified ==
    ASSUME TypeOK, NEW t \in Threads, NEW s \in {"idle", "reading"}, NotifyAll(t, s)
    PROVE  /\ state' \in [Threads -> States]
           /\ state'[t] = s
           /\ \A u \in Threads : u # t =>
                 /\ state'[u] # "asleep"
                 /\ state'[u] = "reading" <=> state[u] = "reading"
                 /\ state'[u] \in {"asleep", "awake"} <=> state[u] \in {"asleep", "awake"}
                 /\ state[u] = "awake" => state'[u] = "awake"
  BY DEF TypeOK, NotifyAll, States

\* Readers are finitely many.
LEMMA ReadersFinite == IsFiniteSet(Readers) /\ Cardinality(Readers) \in Nat
<1>1. IsFiniteSet(Readers)  BY ThreadsAssumption, FS_Subset DEF Readers
<1>2. QED  BY <1>1, FS_CardinalityType

\* A slot taken and a reader more keep the slots conserved.
LEMMA SlotTaken ==
    ASSUME TypeOK, SlotsConserved, NEW t \in Threads, state[t] # "reading", free > 0, TakeSlot,
           Readers' = Readers \cup {t}
    PROVE  /\ SlotsConserved'
           /\ free' \in Nat /\ inFlight' \in Nat /\ maxInFlight' \in Nat
<1>1. Cardinality(Readers') = Cardinality(Readers) + 1
  <2>1. t \notin Readers  BY DEF Readers
  <2>2. QED  BY <2>1, ReadersFinite, FS_AddElement
<1>2. free' = free - 1 /\ inFlight' = inFlight + 1 /\ free' \in Nat /\ inFlight' \in Nat
  BY DEF TakeSlot, TypeOK
<1>3. free' + inFlight' = Slots  BY <1>2, SlotsAssumption DEF SlotsConserved, TypeOK
<1>4. maxInFlight' \in Nat /\ maxInFlight' <= Slots
  BY <1>2, <1>3, SlotsAssumption DEF TakeSlot, SlotsConserved, TypeOK
<1>5. inFlight' = Cardinality(Readers)'
  BY <1>1, <1>2 DEF SlotsConserved
<1>6. QED  BY <1>2, <1>3, <1>4, <1>5 DEF SlotsConserved

\* The readers of a step that changes t alone from or to reading.
LEMMA SameReaders ==
    ASSUME \A u \in Threads : state'[u] = "reading" <=> state[u] = "reading"
    PROVE  Readers' = Readers
  BY DEF Readers

\* Slots that no step touches stay conserved.
LEMMA SlotsKept ==
    ASSUME SlotsConserved, Readers' = Readers, UNCHANGED <<free, inFlight, maxInFlight>>
    PROVE  SlotsConserved'
  BY DEF SlotsConserved

\* In a queue whose waiters are all awake the head is awake.
LEMMA AllAwake ==
    ASSUME queue' \in Seq(Threads), \A u \in Threads : Waiting(u)' => state'[u] = "awake"
    PROVE  NoLostWakeup'
<1>1. SUFFICES ASSUME queue' # <<>> PROVE state'[queue'[1]] = "awake"  BY DEF NoLostWakeup
<1>2. PICK h \in Threads : h = queue'[1] /\ 1 \in DOMAIN queue'  BY <1>1
<1>3. Waiting(h)'  BY <1>2 DEF Waiting
<1>4. QED  BY <1>2, <1>3

------------------------------------------------------------------------------
(* The steps. *)

LEMMA ArriveAndEnterKeeps ==
    ASSUME IInv, NEW t \in Threads, ArriveAndEnter(t) PROVE IInv'
<1>1. TypeOK /\ TicketsAreWaiters /\ SlotsConserved  BY DEF IInv
<1>2. /\ state[t] = "idle" /\ free > 0 /\ TakeSlot /\ NotifyAll(t, "reading")
      /\ queue = <<>> /\ queue' = <<>> /\ late' = late
  BY DEF ArriveAndEnter
<1>3. /\ state' \in [Threads -> States] /\ state'[t] = "reading"
      /\ \A u \in Threads : u # t =>
            /\ state'[u] = "reading" <=> state[u] = "reading"
            /\ state'[u] \in {"asleep", "awake"} <=> state[u] \in {"asleep", "awake"}
            /\ state[u] = "awake" => state'[u] = "awake"
  BY <1>1, <1>2, Notified
<1>4. Readers' = Readers \cup {t}  BY <1>3 DEF Readers
<1>5. SlotsConserved' /\ free' \in Nat /\ inFlight' \in Nat /\ maxInFlight' \in Nat
  BY <1>1, <1>2, <1>4, SlotTaken
<1>6. TypeOK'  BY <1>1, <1>2, <1>3, <1>5 DEF TypeOK
<1>7. TicketsAreWaiters'
  <2>1. \A u \in Threads : ~Waiting(u) /\ ~Waiting(u)'  BY <1>2 DEF Waiting
  <2>2. \A u \in late' : state'[u] = "awake"
    BY <1>1, <1>2, <1>3 DEF TicketsAreWaiters, TypeOK
  <2>3. QED  BY <1>1, <1>2, <1>3, <2>1, <2>2 DEF TicketsAreWaiters
<1>8. NoLostWakeup'  BY <1>2 DEF NoLostWakeup
<1>9. QED  BY <1>5, <1>6, <1>7, <1>8 DEF IInv

LEMMA ArriveAndWaitKeeps ==
    ASSUME IInv, NEW t \in Threads, ArriveAndWait(t) PROVE IInv'
<1>1. TypeOK /\ TicketsAreWaiters /\ SlotsConserved /\ NoLostWakeup  BY DEF IInv
<1>2. /\ state[t] = "idle" /\ ~(queue = <<>> /\ free > 0)
      /\ queue' = Append(queue, t)
      /\ state' = [state EXCEPT ![t] = "asleep"]
      /\ UNCHANGED <<free, inFlight, maxInFlight, late>>
  BY DEF ArriveAndWait
<1>3. /\ queue \in Seq(Threads) /\ queue' \in Seq(Threads) /\ Len(queue) \in Nat
      /\ DOMAIN queue = 1 .. Len(queue) /\ DOMAIN queue' = 1 .. Len(queue) + 1
      /\ queue'[Len(queue) + 1] = t
      /\ \A i \in 1 .. Len(queue) : queue'[i] = queue[i]
  BY <1>1, <1>2 DEF TypeOK
<1>4. TypeOK'  BY <1>1, <1>2, <1>3 DEF TypeOK, States
<1>5. /\ state'[t] = "asleep"
      /\ \A u \in Threads : u # t => state'[u] = state[u]
  BY <1>1, <1>2 DEF TypeOK
<1>6. SlotsConserved'
  <2>1. Readers' = Readers  BY <1>2, <1>5, SameReaders
  <2>2. QED  BY <1>1, <1>2, <2>1, SlotsKept
<1>7. TicketsAreWaiters'
  <2>1. ~Waiting(t)  BY <1>1, <1>2 DEF TicketsAreWaiters
  <2>2. \A i, j \in DOMAIN queue' : queue'[i] = queue'[j] => i = j
    BY <1>1, <1>3, <2>1 DEF TicketsAreWaiters, Waiting
  <2>3. ASSUME NEW u \in Threads PROVE Waiting(u)' <=> Waiting(u) \/ u = t
    <3>1. ASSUME Waiting(u) PROVE Waiting(u)'
      <4>1. PICK i \in DOMAIN queue : queue[i] = u  BY <3>1 DEF Waiting
      <4>2. i \in DOMAIN queue' /\ queue'[i] = u  BY <4>1, <1>3
      <4>3. QED  BY <4>2 DEF Waiting
    <3>2. Len(queue) + 1 \in DOMAIN queue'  BY <1>3
    <3>3. ASSUME u = t PROVE Waiting(u)'  BY <3>2, <3>3, <1>3 DEF Waiting
    <3>4. ASSUME Waiting(u)', u # t PROVE Waiting(u)
      <4>1. PICK i \in DOMAIN queue' : queue'[i] = u  BY <3>4 DEF Waiting
      <4>2. i \in DOMAIN queue /\ queue[i] = u  BY <4>1, <3>4, <1>3
      <4>3. QED  BY <4>2 DEF Waiting
    <3>5. QED  BY <3>1, <3>3, <3>4
  <2>4. \A u \in Threads : Waiting(u)' <=> state'[u] \in {"asleep", "awake"}
    BY <1>1, <1>5, <2>3 DEF TicketsAreWaiters
  <2>5. \A u \in late' : state'[u] = "awake"
    BY <1>1, <1>2, <1>5 DEF TicketsAreWaiters, TypeOK
  <2>6. QED  BY <2>2, <2>4, <2>5 DEF TicketsAreWaiters
<1>8. NoLostWakeup'
  <2>1. CASE queue = <<>>
    <3>1. ~(free' > 0)  BY <2>1, <1>2
    <3>2. QED  BY <3>1 DEF NoLostWakeup
  <2>2. CASE queue # <<>>
    <3>1. 1 \in DOMAIN queue /\ queue'[1] = queue[1] /\ queue[1] \in Threads
      BY <2>2, <1>3
    <3>2. Waiting(queue[1])  BY <3>1 DEF Waiting
    <3>3. queue[1] # t  BY <1>1, <1>2, <3>1, <3>2 DEF TicketsAreWaiters
    <3>4. state'[queue'[1]] = state[queue[1]]  BY <3>1, <3>3, <1>5
    <3>5. QED  BY <2>2, <3>4, <1>1, <1>2 DEF NoLostWakeup
  <2>3. QED  BY <2>1, <2>2
<1>9. QED  BY <1>4, <1>6, <1>7, <1>8 DEF IInv

LEMMA TimeOverKeeps ==
    ASSUME IInv, NEW t \in Threads, TimeOver(t) PROVE IInv'
<1>1. TypeOK /\ TicketsAreWaiters /\ SlotsConserved /\ NoLostWakeup  BY DEF IInv
<1>2. /\ state[t] \in {"asleep", "awake"}
      /\ late' = late \cup {t}
      /\ state' = [state EXCEPT ![t] = "awake"]
      /\ UNCHANGED <<queue, free, inFlight, maxInFlight>>
  BY DEF TimeOver
<1>3. TypeOK'  BY <1>1, <1>2 DEF TypeOK, States
<1>4. state'[t] = "awake" /\ \A u \in Threads : u # t => state'[u] = state[u]
  BY <1>1, <1>2 DEF TypeOK
<1>5. SlotsConserved'
  <2>1. Readers' = Readers  BY <1>2, <1>4, SameReaders
  <2>2. QED  BY <1>1, <1>2, <2>1, SlotsKept
<1>6. TicketsAreWaiters'
  <2>1. \A u \in Threads : Waiting(u)' <=> Waiting(u)  BY <1>2 DEF Waiting
  <2>2. \A u \in late' : state'[u] = "awake"
    BY <1>1, <1>2, <1>4 DEF TicketsAreWaiters, TypeOK
  <2>3. QED  BY <1>1, <1>2, <1>4, <2>1, <2>2 DEF TicketsAreWaiters
<1>7. NoLostWakeup'
  <2>1. SUFFICES ASSUME queue # <<>>, free > 0 PROVE state'[queue[1]] = "awake"
    BY <1>2 DEF NoLostWakeup
  <2>2. queue[1] \in Threads  BY <2>1, <1>1 DEF TypeOK
  <2>3. QED  BY <2>1, <2>2, <1>1, <1>4 DEF NoLostWakeup
<1>8. QED  BY <1>3, <1>5, <1>6, <1>7 DEF IInv

\* What a waiter that leaves the queue, admitted or not, does to the tickets.
LEMMA LeavingKeepsTickets ==
    ASSUME TypeOK, TicketsAreWaiters, NEW t \in Threads, NEW s \in {"idle", "reading"},
           NotifyAll(t, s), NEW i \in DOMAIN queue, queue[i] = t, queue' = Without(i),
           late' = late \ {t}
    PROVE  /\ queue' \in Seq(Threads)
           /\ TicketsAreWaiters'
           /\ NoLostWakeup'
<1>1. /\ queue' \in Seq(Threads)
      /\ \A m, n \in DOMAIN queue' : queue'[m] = queue'[n] => m = n
      /\ \A u : Waiting(u)' <=> Waiting(u) /\ u # t
  BY TicketRemoved DEF TypeOK, TicketsAreWaiters
<1>2. /\ state'[t] = s
      /\ \A u \in Threads : u # t =>
            /\ state'[u] # "asleep"
            /\ state'[u] \in {"asleep", "awake"} <=> state[u] \in {"asleep", "awake"}
            /\ state[u] = "awake" => state'[u] = "awake"
  BY Notified
<1>3. \A u \in Threads : Waiting(u)' <=> state'[u] \in {"asleep", "awake"}
  BY <1>1, <1>2 DEF TicketsAreWaiters
<1>4. \A u \in late' : state'[u] = "awake"
  BY <1>2 DEF TicketsAreWaiters, TypeOK
<1>5. TicketsAreWaiters'  BY <1>1, <1>3, <1>4 DEF TicketsAreWaiters
<1>6. \A u \in Threads : Waiting(u)' => state'[u] = "awake"  BY <1>1, <1>2, <1>3
<1>7. NoLostWakeup'  BY <1>1, <1>6, AllAwake
<1>8. QED  BY <1>1, <1>5, <1>7

LEMMA EnterKeeps ==
    ASSUME IInv, NEW t \in Threads, Enter(t) PROVE IInv'
<1>1. TypeOK /\ TicketsAreWaiters /\ SlotsConserved  BY DEF IInv
<1>2. /\ state[t] = "awake" /\ free > 0 /\ TakeSlot /\ NotifyAll(t, "reading")
      /\ late' = late \ {t}
  BY DEF Enter, IsNext
<1>3. PICK i \in DOMAIN queue : queue[i] = t /\ queue' = Without(i)  BY DEF Enter
<1>4. queue' \in Seq(Threads) /\ TicketsAreWaiters' /\ NoLostWakeup'
  BY <1>1, <1>2, <1>3, LeavingKeepsTickets
<1>5. /\ state' \in [Threads -> States] /\ state'[t] = "reading"
      /\ \A u \in Threads : u # t => (state'[u] = "reading" <=> state[u] = "reading")
  BY <1>1, <1>2, Notified
<1>6. Readers' = Readers \cup {t}  BY <1>5 DEF Readers
<1>7. SlotsConserved' /\ free' \in Nat /\ inFlight' \in Nat /\ maxInFlight' \in Nat
  BY <1>1, <1>2, <1>6, SlotTaken
<1>8. TypeOK'  BY <1>1, <1>2, <1>4, <1>5, <1>7 DEF TypeOK
<1>9. QED  BY <1>4, <1>7, <1>8 DEF IInv

LEMMA GiveUpKeeps ==
    ASSUME IInv, NEW t \in Threads, GiveUp(t) PROVE IInv'
<1>1. TypeOK /\ TicketsAreWaiters /\ SlotsConserved  BY DEF IInv
<1>2. /\ state[t] = "awake" /\ NotifyAll(t, "idle") /\ late' = late \ {t}
      /\ UNCHANGED <<free, inFlight, maxInFlight>>
  BY DEF GiveUp
<1>3. PICK i \in DOMAIN queue : queue[i] = t /\ queue' = Without(i)  BY DEF GiveUp
<1>4. queue' \in Seq(Threads) /\ TicketsAreWaiters' /\ NoLostWakeup'
  BY <1>1, <1>2, <1>3, LeavingKeepsTickets
<1>5. /\ state' \in [Threads -> States] /\ state'[t] = "idle"
      /\ \A u \in Threads : u # t => (state'[u] = "reading" <=> state[u] = "reading")
  BY <1>1, <1>2, Notified
<1>6. Readers' = Readers  BY <1>2, <1>5, SameReaders
<1>7. SlotsConserved'  BY <1>1, <1>2, <1>6, SlotsKept
<1>8. TypeOK'  BY <1>1, <1>2, <1>4, <1>5 DEF TypeOK
<1>9. QED  BY <1>4, <1>7, <1>8 DEF IInv

LEMMA WaitAgainKeeps ==
    ASSUME IInv, NEW t \in Threads, WaitAgain(t) PROVE IInv'
<1>1. TypeOK /\ TicketsAreWaiters /\ SlotsConserved /\ NoLostWakeup  BY DEF IInv
<1>2. /\ state[t] = "awake" /\ ~IsNext(t) /\ t \notin late
      /\ state' = [state EXCEPT ![t] = "asleep"]
      /\ UNCHANGED <<queue, free, inFlight, maxInFlight, late>>
  BY DEF WaitAgain
<1>3. TypeOK'  BY <1>1, <1>2 DEF TypeOK, States
<1>4. state'[t] = "asleep" /\ \A u \in Threads : u # t => state'[u] = state[u]
  BY <1>1, <1>2 DEF TypeOK
<1>5. SlotsConserved'
  <2>1. Readers' = Readers  BY <1>2, <1>4, SameReaders
  <2>2. QED  BY <1>1, <1>2, <2>1, SlotsKept
<1>6. TicketsAreWaiters'
  <2>1. \A u \in Threads : Waiting(u)' <=> Waiting(u)  BY <1>2 DEF Waiting
  <2>2. \A u \in late' : state'[u] = "awake"
    BY <1>1, <1>2, <1>4 DEF TicketsAreWaiters, TypeOK
  <2>3. QED  BY <1>1, <1>2, <1>4, <2>1, <2>2 DEF TicketsAreWaiters
<1>7. NoLostWakeup'
  <2>1. SUFFICES ASSUME queue # <<>>, free > 0 PROVE state'[queue[1]] = "awake"
    BY <1>2 DEF NoLostWakeup
  <2>2. queue[1] \in Threads /\ queue[1] # t  BY <2>1, <1>1, <1>2 DEF TypeOK, IsNext
  <2>3. QED  BY <2>1, <2>2, <1>1, <1>4 DEF NoLostWakeup
<1>8. QED  BY <1>3, <1>5, <1>6, <1>7 DEF IInv

LEMMA ReleaseKeeps ==
    ASSUME IInv, NEW t \in Threads, Release(t) PROVE IInv'
<1>1. TypeOK /\ TicketsAreWaiters /\ SlotsConserved  BY DEF IInv
<1>2. /\ state[t] = "reading" /\ NotifyAll(t, "idle")
      /\ free' = free + 1 /\ inFlight' = inFlight - 1
      /\ UNCHANGED <<queue, maxInFlight, late>>
  BY DEF Release
<1>3. /\ state' \in [Threads -> States] /\ state'[t] = "idle"
      /\ \A u \in Threads : u # t =>
            /\ state'[u] # "asleep"
            /\ state'[u] = "reading" <=> state[u] = "reading"
            /\ state'[u] \in {"asleep", "awake"} <=> state[u] \in {"asleep", "awake"}
            /\ state[u] = "awake" => state'[u] = "awake"
  BY <1>1, <1>2, Notified
<1>4. Cardinality(Readers') = Cardinality(Readers) - 1
  <2>1. Readers' = Readers \ {t} /\ t \in Readers  BY <1>2, <1>3 DEF Readers
  <2>2. QED  BY <2>1, ReadersFinite, FS_RemoveElement
<1>5. inFlight - 1 = Cardinality(Readers') /\ inFlight - 1 \in Nat
  <2>1. inFlight - 1 = Cardinality(Readers')  BY <1>1, <1>4 DEF SlotsConserved
  <2>2. IsFiniteSet(Readers')  BY ThreadsAssumption, FS_Subset DEF Readers
  <2>3. QED  BY <2>1, <2>2, FS_CardinalityType
<1>6. SlotsConserved'
  BY <1>1, <1>2, <1>5, SlotsAssumption DEF SlotsConserved, TypeOK
<1>7. TypeOK'  BY <1>1, <1>2, <1>3, <1>5 DEF TypeOK
<1>8. \A u \in Threads : Waiting(u)' <=> Waiting(u)  BY <1>2 DEF Waiting
<1>9. \A u \in Threads : Waiting(u)' <=> state'[u] \in {"asleep", "awake"}
  BY <1>1, <1>2, <1>3, <1>8 DEF TicketsAreWaiters
<1>10. TicketsAreWaiters'
  <2>1. \A u \in late' : state'[u] = "awake"
    BY <1>1, <1>2, <1>3 DEF TicketsAreWaiters, TypeOK
  <2>2. QED  BY <1>1, <1>2, <1>9, <2>1 DEF TicketsAreWaiters
<1>11. NoLostWakeup'
  <2>1. \A u \in Threads : Waiting(u)' => state'[u] = "awake"  BY <1>3, <1>9
  <2>2. queue' \in Seq(Threads)  BY <1>7 DEF TypeOK
  <2>3. QED  BY <2>1, <2>2, AllAwake
<1>12. QED  BY <1>6, <1>7, <1>10, <1>11 DEF IInv

LEMMA InitHolds == Init => IInv
<1>1. SUFFICES ASSUME Init PROVE IInv  OBVIOUS
<1>2. TypeOK  BY <1>1, SlotsAssumption DEF Init, TypeOK, States
<1>3. TicketsAreWaiters  BY <1>1 DEF Init, TicketsAreWaiters, Waiting
<1>4. SlotsConserved
  <2>1. Readers = {}  BY <1>1 DEF Init, Readers
  <2>2. QED  BY <1>1, <2>1, FS_EmptySet, SlotsAssumption DEF Init, SlotsConserved
<1>5. NoLostWakeup  BY <1>1 DEF Init, NoLostWakeup
<1>6. QED  BY <1>2, <1>3, <1>4, <1>5 DEF IInv

\* A stuttering step changes nothing the invariant speaks of.
LEMMA StutterKeeps == IInv /\ UNCHANGED vars => IInv'
  BY DEF IInv, vars, TypeOK, TicketsAreWaiters, SlotsConserved, NoLostWakeup, Waiting, Readers

LEMMA NextKeeps == IInv /\ [Next]_vars => IInv'
<1>1. ASSUME IInv, NEW t \in Threads,
             \/ ArriveAndEnter(t) \/ ArriveAndWait(t) \/ TimeOver(t) \/ Resume(t) \/ Release(t)
      PROVE  IInv'
  <2>1. CASE ArriveAndEnter(t)  BY <1>1, <2>1, ArriveAndEnterKeeps
  <2>2. CASE ArriveAndWait(t)  BY <1>1, <2>2, ArriveAndWaitKeeps
  <2>3. CASE TimeOver(t)  BY <1>1, <2>3, TimeOverKeeps
  <2>4. CASE Enter(t)  BY <1>1, <2>4, EnterKeeps
  <2>5. CASE GiveUp(t)  BY <1>1, <2>5, GiveUpKeeps
  <2>6. CASE WaitAgain(t)  BY <1>1, <2>6, WaitAgainKeeps
  <2>7. CASE Release(t)  BY <1>1, <2>7, ReleaseKeeps
  <2>8. QED  BY <1>1, <2>1, <2>2, <2>3, <2>4, <2>5, <2>6, <2>7 DEF Resume
<1>2. QED  BY <1>1, StutterKeeps DEF Next

------------------------------------------------------------------------------
(* The theorems. *)

\* All four invariants.
THEOREM Invariance == Spec => []IInv
  BY InitHolds, NextKeeps, PTL DEF Spec

\* The gate's state keeps its type, whatever threads arrive, time out and release.
THEOREM TypeCorrect == Spec => []TypeOK
<1>1. IInv => TypeOK  BY DEF IInv
<1>2. QED  BY <1>1, Invariance, PTL

\* No slot is lost or given out twice: never more reads than slots (release, admit).
THEOREM SlotsAreConserved == Spec => []SlotsConserved
<1>1. IInv => SlotsConserved  BY DEF IInv
<1>2. QED  BY <1>1, Invariance, PTL

\* Nobody sleeps at the head of the queue while a slot is free (notify_all in admit, release).
THEOREM NoWakeupIsLost == Spec => []NoLostWakeup
<1>1. IInv => NoLostWakeup  BY DEF IInv
<1>2. QED  BY <1>1, Invariance, PTL

\* The queue holds exactly those who wait (the finally of admit).
THEOREM TicketsBelongToWaiters == Spec => []TicketsAreWaiters
<1>1. IInv => TicketsAreWaiters  BY DEF IInv
<1>2. QED  BY <1>1, Invariance, PTL

\* A step admits no one but the head of the queue.
LEMMA HeadAdmitted ==
    ASSUME TypeOK, [Next]_vars, NEW u \in Threads, state'[u] = "reading", state[u] # "reading",
           NEW i \in DOMAIN queue, queue[i] # u
    PROVE  \E j \in 1 .. i : queue[j] = u
<1>1. i \in Nat /\ 1 <= i /\ queue # <<>>  BY DEF TypeOK
<1>2. CASE UNCHANGED vars  BY <1>2 DEF vars
<1>3. ASSUME NEW t \in Threads,
             \/ ArriveAndEnter(t) \/ ArriveAndWait(t) \/ TimeOver(t) \/ Resume(t) \/ Release(t)
      PROVE  \E j \in 1 .. i : queue[j] = u
  <2>1. ~ArriveAndEnter(t)  BY <1>1 DEF ArriveAndEnter
  <2>2. CASE ArriveAndWait(t) \/ TimeOver(t) \/ WaitAgain(t)
    BY <2>2 DEF ArriveAndWait, TimeOver, WaitAgain, TypeOK
  <2>3. CASE GiveUp(t) \/ Release(t)
    <3>1. NotifyAll(t, "idle")  BY <2>3 DEF GiveUp, Release
    <3>2. QED  BY <3>1, Notified
  <2>4. CASE Enter(t)
    <3>1. NotifyAll(t, "reading") /\ queue[1] = t  BY <2>4 DEF Enter, IsNext
    <3>2. u = t  BY <3>1, Notified
    <3>3. QED  BY <3>1, <3>2, <1>1
  <2>5. QED  BY <1>3, <2>1, <2>2, <2>3, <2>4 DEF Resume
<1>4. QED  BY <1>2, <1>3 DEF Next

\* Slots are given in the order of arrival.
THEOREM AdmittedInOrder == Spec => ArrivalOrder
<1>1. IInv => TypeOK  BY DEF IInv
<1>2. TypeOK /\ [Next]_vars =>
         [\A t \in Threads : state'[t] = "reading" /\ state[t] # "reading" =>
             \A i \in DOMAIN queue : queue[i] # t => \E j \in 1 .. i : queue[j] = t]_vars
  BY HeadAdmitted
<1>3. QED  BY <1>1, <1>2, Invariance, PTL DEF Spec, ArrivalOrder
==============================================================================
