SPECIFICATION FairSpec
CONSTANTS
  Calls <- AllKinds
  Kind <- KindIsName
  Count <- TwoEach
  Retained = 2
  Undecodable = {2}
  MaxMessages = 3
  MaxCrashes = 1
INVARIANTS
  NothingVanishes
  ReplayTakesOnlyWaiting
PROPERTIES
  CallsEnd
