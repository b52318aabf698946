\* Two launches of one key for two media.
SPECIFICATION Spec
CONSTANTS
  Requests = {r1, r2}
  Keys = {k1}
  Media = {m1, m2}
  None = None
  Workers = {w1}
  Faults = {}
  MaxFaults = 0
INVARIANT AnswerIsOwned
CHECK_DEADLOCK FALSE
