\* Up to three requests, two at a time, that may overlap, one failure or restart.
SPECIFICATION Spec
CONSTANTS
  c1 = c1
  c2 = c2
  Clients <- TwoClients
  MaxWorkers = 5
  MaxRequests = 3
  MaxFaults = 1
SYMMETRY ClientSymmetry
INVARIANTS
  TypeOK
  EnabledHasWorker
  OneWorker
  ManualExclusive
  SavedAgrees
PROPERTIES
  StrikesWhileEnabledAlone
