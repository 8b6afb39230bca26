SPECIFICATION Spec
CONSTANTS
  t1 = t1
  t2 = t2
  Tasks = {t1}
  Immediate = {t1}
  Modes = {"required", "optional", "disabled"}
  MaxWork = 1
  MaxOutages = 1
INVARIANTS
  GraceIsGiven
