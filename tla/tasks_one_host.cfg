SPECIFICATION Spec
CONSTANTS
    d1 = d1
    s1 = s1
    v1 = v1
    v2 = v2
    k1 = k1
    k2 = k2
    h1 = h1
    h2 = h2
    Calls <- MCThreeCalls
    EntryOf <- MCEntryOf
    Unsettled <- MCOneCall
    ExactSession <- MCNoCalls
    Controllers <- MCTwoControllers
    CtrlOf <- MCCtrlOf
    Hosts <- MCOneHost
    HostOf <- MCSameHost
    MortalHosts <- MCNoHost
    MaxStops = 1
INVARIANTS OneAgentPerHost EndedJobMeansDeadAgent VerdictFromOwnRun GateClosedForCause
CHECK_DEADLOCK FALSE
