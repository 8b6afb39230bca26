SPECIFICATION FairSpec
CONSTANTS
  i1 = i1
  i2 = i2
  r1 = r1
  r2 = r2
  r3 = r3
  Shared = Shared
  Instances = {i1, i2}
  Requests = {r1, r2, r3}
  Home <- OneEach
  Malformed = {r3}
  NoReplyTo = {}
  Unserializable = {r2}
  MaxLosses = 2
INVARIANTS
  OneHandlerPerInstance
PROPERTIES
  
  RequestsEnd
