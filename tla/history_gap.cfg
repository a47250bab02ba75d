SPECIFICATION StreamsSpec
CONSTANTS
    None = None
    LogLines = 2
    MaxLines = 4
    MaxOpens = 2
    MaxFaults = 0
INVARIANT HistoryComplete
CHECK_DEADLOCK FALSE
