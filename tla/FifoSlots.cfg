SPECIFICATION Spec
CONSTANTS
    Threads = {a1, a2, b1, b2}
    Slots = 2
INVARIANTS TicketsAreWaiters SlotsConserved NoLostWakeup
PROPERTIES ArrivalOrder EveryWaiterServed TimeoutHonoured
