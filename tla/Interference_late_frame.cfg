\* One channel, no fault at all, one start and one read by a poll.
SPECIFICATION Spec
CONSTANTS
  N = 1
  RowIds <- RowIdsTwo
  Faults = {}
  MaxFaults = 0
  MaxRequests = 2
  MaxQueue = 2
PROPERTIES
  FieldReportIsField
