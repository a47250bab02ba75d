SPECIFICATION MCSpec
CONSTANTS
    None = None
    FuseAt = 2
    MaxStarts = 2
    MaxTroubles = 2
CHECK_DEADLOCK FALSE
INVARIANTS FuseHolds
PROPERTIES RunsStayApart BudgetEnds
