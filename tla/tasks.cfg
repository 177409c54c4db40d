SPECIFICATION Spec
CONSTANTS
    t1 = t1
    t2 = t2
    k1 = k1
    Tasks <- MCTasks
    Obeys <- MCObeys
    Killers <- MCKillers
    ChanCap = 1
CHECK_DEADLOCK FALSE
INVARIANTS ReturnsArePaidFor
PROPERTIES EndedIsReleased LoneKillReturns
