SPECIFICATION MCSpec
CONSTANTS
    d1 = d1 d2 = d2 r1 = r1 w1 = w1 c1 = c1 c2 = c2
    Starts = {d1, d2, r1}
    KindOf <- MCKindOf
    Writers = {w1}
    Controllers = {c1, c2}
    MaxRev = 6
    MaxRuns = 2
    BudgetRev = 4
    HaltRev = 5
INVARIANTS CurrentIsLastClaim VerdictIsFresh OneCooldownPerRun
PROPERTIES RevokedNeverCommits HaltIsFinal EventsKept
CHECK_DEADLOCK FALSE
SYMMETRY MCSymmetry
