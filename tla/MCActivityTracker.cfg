SPECIFICATION Spec
CONSTANTS
  h1 = h1
  h2 = h2
  h3 = h3
  c1 = c1
  x1 = x1
  x2 = x2
  Records = {h1, h2, h3, c1, x1, x2}
  Kind <- Kinds
  Undated = {h2}
  Malformed = {c1}
  Unreadable = {h3, x2}
  TtlMinutes = 1
  TtlHours = 168
  Interval = 1
  Skew = 0
  MaxTime = 2
  MaxLosses = 1
INVARIANTS
  RetentionIsBounded
  KeepsUnexpired
