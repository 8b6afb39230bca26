SPECIFICATION Spec
CONSTANTS
  conn = conn
  w1 = w1
  Empty = Empty
  None = None
  Main = main
  Loops = {conn}
  Workers = {w1}
  Children = {d1}
  Kind <- Kinds1
  Flows = {f1, f2}
  Choices = {f2, Empty}
  MaxMessages = 2
  MaxObjects = 2
  MaxRecords = 1
INVARIANTS
  LineageIsCausal
  OutsideIsOutside
  ErrorsAgree
PROPERTIES
  FlowIsKept
