SPECIFICATION GatewaySpec
CONSTANTS
    Callers = {c1, c2}
    Ids = {1, 2, 3}
    MaxSessions = 2
    MaxLate = 1
INVARIANTS NobodyForgotten NoForeignAnswer NewestServes
 
CHECK_DEADLOCK FALSE
