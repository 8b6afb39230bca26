SPECIFICATION FairSpec
CONSTANTS
  i1 = i1
  i2 = i2
  m1 = m1
  m2 = m2
  Shared = Shared
  Instances = {i1, i2}
  Messages = {m1, m2}
  Home <- OneEach
  MaxAttempts = 2
  Prefetch = 2
  FailedLength = 1
  MaxLosses = 1
INVARIANTS
  InFlightIsExact
  CleanStopHoldsNothing
  OneOffRunsOnce
PROPERTIES
  KeepsPromise
  StopEnds
  Settles
