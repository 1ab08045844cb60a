\* One channel, a link that breaks twice, one start and one stop.
SPECIFICATION Spec
CONSTANTS
  N = 1
  RowIds <- RowIdsTwo
  Faults <- OnlyLink
  MaxFaults = 2
  MaxRequests = 2
  MaxQueue = 2
PROPERTIES
  PendingStopCarriedOut
