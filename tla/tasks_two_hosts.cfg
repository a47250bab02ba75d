SPECIFICATION FairSpec
CONSTANTS
    d1 = d1
    s1 = s1
    v1 = v1
    v2 = v2
    k1 = k1
    k2 = k2
    h1 = h1
    h2 = h2
    Calls <- MCTwoCalls
    EntryOf <- MCEntryOf
    Unsettled <- MCOneCall
    ExactSession <- MCResumes
    Controllers <- MCTwoControllers
    CtrlOf <- MCCtrlOf
    Hosts <- MCTwoHosts
    HostOf <- MCHostEach
    MortalHosts <- MCTwoHosts
    MaxStops = 2
INVARIANTS OneWorkingAgent
PROPERTIES LaunchHoldsLease OpenJobsEnd
CHECK_DEADLOCK FALSE
