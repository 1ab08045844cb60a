\* Signals with and without a serial number on three frequencies, two live targets, a
\* ring of two that overwrites, a sweeper and one drain in batches of one, a target
\* that is always refused and one failure besides.
SPECIFICATION FairSpec
CONSTANTS
  r1 = r1
  x = x
  none = none
  MaxTargets = 3
  Frequencies <- Bands
  Tolerance = 2
  Serials <- OneSerial
  NoSerial = none
  Receivers <- OneReceiver
  Capacity = 2
  QueueLimit = 2
  BatchSize = 1
  Refused = {1}
  MaxSignals = 3
  MaxDrains = 1
  MaxFaults = 1
INVARIANTS
  TypeOK
  UniqueSerial
PROPERTIES
  ToldInOrder
  Promise
  DrainDelivers
  EventuallyArchived
