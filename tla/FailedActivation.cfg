SPECIFICATION Spec
CONSTANTS
  Default = c1
  Configs = {c1, c2, bad}
  Unspawnable = {bad}
  Corrupt = Corrupt
  None = None
  Updates = {u1, u2}
  Readers = {r1, r2}
  SpawnFailures = {"defect"}
  Faults = {"crash", "interrupt", "persist", "load", "log"}
  MaxFaults = 0
INVARIANT AgreeAtRest
CHECK_DEADLOCK FALSE
