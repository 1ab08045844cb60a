\* Two clients of each part; a part that rests for good has done what it does.
SPECIFICATION FairSpec
CONSTANTS
  None = None
  Clients = {c1, c2}
  MaxSessions = 2
  MaxEvents = 1
  Drones = {d1, d2}
  Uuids = {u1}
  MaxPositions = 2
  TTL = 0
  MaxTime = 1
  MaxLines = 3
  MaxCommands = 2
  MaxFrames = 2
  MaxChanges = 1
  Documents = {n1, n2, bad}
  Rejected = {bad}
  MaxUpdates = 3
  MaxSaves = 2
  Packages = {p1, p2, p3}
  Invalid = {p3}
  MaxUploads = 3
  MaxSeconds = 1
  Ports = {t1, t2}
  Addresses = {a1}
  Conns = {k1, k2}
  MaxPorts = 1
  MaxFaults = 1
  Intruders = {i1, i2, i3}
  Uncracked = {i3}
  Points = {g1, g2}
  Unreadable = Unreadable
  MaxLive = 2
  Retention = 1
  MaxDay = 1
  MaxFailures = 1
  CipherIds = {e1}
  Sensors = {v1}
  MaxPackets = 2
  KeyTTL = 0
  MaxClock = 1
INVARIANTS
  TypeOK
  NothingLeftRunning
  ViewerKeepsStream
  ReadyRecordComplete
  ListensWhereTold
  HandedOverOnce
  AcceptedAtRest
  RuntimeIsSaved
  MapKept
PROPERTIES
  SessionReleased
  DecodedIsOneRow
  AnswersMatch
CHECK_DEADLOCK FALSE
