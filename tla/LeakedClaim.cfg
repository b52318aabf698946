CONSTANTS
  Ids = {1}
  Hashes = {"h1"}
  HashOf <- MCHashOf
  Later = {}
  Batches = {1}
  Units = {11, 12}
  Contents <- MCContents
  UnitNumber <- MCUnitNumber
  Requests = {r1}
  Sync = sync
  Tokens = {1, 2, 3, 4, 5}
  Null = Null
  Stamp = Stamp
  NotYet = NotYet
  Absent = Absent
  ImportMode = "copy"
  Cleanup = "keep"
  SlowImports = FALSE
  Faults = {"claimInterrupt"}
  MaxFaults = 1
SPECIFICATION FairSpec
PROPERTIES
  OrphanReleased
