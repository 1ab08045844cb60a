\* Two events for each connector: settings saved, reconnects, faults, commands.
SPECIFICATION FairSpec
CONSTANTS
  None = None
  Channels <- Relay
  Requests <- Platform
  CSConfigs <- StationConfigs
  CSSaved <- StationSaved
  MaxResponses = 1
  CSMaxEvents = 2
  Devices <- TwoDevices
  LYConfigs <- BridgeConfigs
  LYSaved <- BridgeSaved
  Targets <- Drone
  ControlRequests <- StartStop
  QueueLimit = 1
  LYMaxEvents = 2
INVARIANTS
  TypeOK
  ControlChannelOpen
  RegisteredMeansTold
  ExecutedOnce
  NothingLost
PROPERTIES
  Recovers
