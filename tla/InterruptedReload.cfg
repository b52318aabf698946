SPECIFICATION Spec
CONSTANTS
  Default = c1
  Configs = {c1, c2, bad}
  Unspawnable = {}
  Corrupt = Corrupt
  None = None
  Updates = {u1, u2}
  Readers = {r1, r2}
  SpawnFailures = {"failure", "defect"}
  Faults = {"interrupt"}
  MaxFaults = 1
INVARIANT OneGeneration
CHECK_DEADLOCK FALSE
