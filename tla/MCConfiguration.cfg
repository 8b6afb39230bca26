SPECIFICATION Spec
CONSTANTS
  Documents <- Documents1
  Services <- Services1
  CertFiles = {"a"}
  MaxFiles = 3
INVARIANTS
  MergeIsUnion
  AcceptedIsUsable
  ReadsAgree
  
CHECK_DEADLOCK FALSE
