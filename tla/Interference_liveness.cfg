\* One channel, every fault, one update in the monitor's channel.
SPECIFICATION FairSpec
CONSTANTS
  N = 1
  RowIds <- RowIdsTwo
  Faults <- FaultKinds
  MaxFaults = 1
  MaxRequests = 2
  MaxQueue = 1
PROPERTIES
  QuietEndsReports
  PendingStopResolved
