CONSTANTS
  Ids = {1, 2, 3}
  Hashes = {"h1", "h2"}
  HashOf <- MCHashOf
  Later = {3}
  Batches = {}
  Units = {11}
  Contents <- MCContents
  UnitNumber <- MCUnitNumber
  Requests = {r1}
  Sync = sync
  Tokens = {1, 2, 3, 4}
  Null = Null
  Stamp = Stamp
  NotYet = NotYet
  Absent = Absent
  ImportMode = "copy"
  Cleanup = "remove"
  SlowImports = FALSE
  Faults = {"crash", "plan", "upsert", "release"}
  MaxFaults = 1
SPECIFICATION FairSpec
PROPERTIES
  EventuallyReconciled
  OrphanReleased
CHECK_DEADLOCK FALSE
