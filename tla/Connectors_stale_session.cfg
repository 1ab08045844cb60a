\* Settings saved while the loop is about to connect.
SPECIFICATION FairSpec
CONSTANTS
  None = None
  Channels <- Relay
  Requests <- Platform
  CSConfigs <- StationConfigs
  CSSaved <- StationSaved
  MaxResponses = 1
  CSMaxEvents = 0
  Devices <- TwoDevices
  LYConfigs <- BridgeConfigs
  LYSaved <- BridgeSaved
  Targets <- Drone
  ControlRequests <- StartStop
  QueueLimit = 1
  LYMaxEvents = 1
INVARIANT SessionMatchesSettings
