SPECIFICATION FairSpec
CONSTANTS
  t1 = t1
  t2 = t2
  Tasks = {t1, t2}
  Immediate = {t1}
  Modes = {"required", "optional", "disabled"}
  MaxWork = 2
  MaxOutages = 2
INVARIANTS
  DelegatesOutliveWork
  NothingLeftOpen
  CutAfterGrace
PROPERTIES
  NothingJoinsTheDrain
  StopEnds
