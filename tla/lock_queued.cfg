SPECIFICATION FairSpec
CONSTANTS
  Procs <- MCProcs
  Clients <- MCClients
  ProcOf <- MCProcOf
  MaxTokens = 3
  MaxDeaths = 2
  Queued = TRUE
PROPERTIES ImplementsMutex DeadLockRecovered
CHECK_DEADLOCK FALSE
