SPECIFICATION SharedSpec
CONSTANTS
    Processes = {1, 2}
    Inputs = {1}
    MaxRuns = 2
    MaxDeaths = 1
    MaxFaults = 1
    None = None
CHECK_DEADLOCK FALSE
INVARIANTS CommentedOnce
