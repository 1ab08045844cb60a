\* Two channels, every fault except a lost reply, one fault and two requests.
SPECIFICATION Spec
CONSTANTS
  N = 2
  RowIds <- RowIdsTwo
  Faults <- AllButLost
  MaxFaults = 1
  MaxRequests = 2
  MaxQueue = 1
INVARIANTS
  TypeOK
  RunningRowsTracked
  NoStartWhilePending
PROPERTIES
  StopLeavesNoStrike
  CompletionObserved
  PlatformStrikeNotRecordedAsField
