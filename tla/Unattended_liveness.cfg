\* Three requests, one at a time, one failure or restart.
SPECIFICATION FairSpec
CONSTANTS
  c1 = c1
  c2 = c2
  Clients <- OneClient
  MaxWorkers = 5
  MaxRequests = 3
  MaxFaults = 1
PROPERTIES
  DisableReturns
  TargetIsStruck
