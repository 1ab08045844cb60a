\* One request at a time, no failure.
SPECIFICATION Spec
CONSTANTS
  c1 = c1
  c2 = c2
  Clients <- OneClient
  MaxWorkers = 2
  MaxRequests = 1
  MaxFaults = 0
PROPERTIES
  DisableStops
