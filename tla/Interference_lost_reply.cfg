\* One channel, one reply of the relay lost after the command took effect.
SPECIFICATION Spec
CONSTANTS
  N = 1
  RowIds <- RowIdsTwo
  Faults <- OnlyLost
  MaxFaults = 1
  MaxRequests = 1
  MaxQueue = 2
PROPERTIES
  PlatformStrikeNotRecordedAsField
