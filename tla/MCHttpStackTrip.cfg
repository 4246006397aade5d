SPECIFICATION Spec
CONSTANTS
  r1 = r1
  r2 = r2
  r3 = r3
  Reqs <- MCReqs
  RetryMax = 1
  Burst = 1
  MinRequests = 2
  RatioPct = 20
  MaxSample = 3
PROPERTY TripsOnObserved
CHECK_DEADLOCK FALSE
