CONSTANTS
  Ids = {1, 2}
  Hashes = {"h1", "h2"}
  HashOf <- MCHashOf
  Later = {}
  Batches = {1}
  Units = {11, 12, 21}
  Contents <- MCContents
  UnitNumber <- MCUnitNumber
  Requests = {r1}
  Sync = sync
  Tokens = {1, 2, 3, 4, 5}
  Null = Null
  Stamp = Stamp
  NotYet = NotYet
  Absent = Absent
  ImportMode = "copy"
  Cleanup = "removeData"
  SlowImports = FALSE
  Faults = {"crash", "claim", "claimInterrupt", "interrupt", "plan", "stage", "commit", "upsert", "release", "sync", "delete"}
  MaxFaults = 2
SPECIFICATION Spec
INVARIANTS
  TypeOK
  ImportExclusion
  ReconciledIsImported
PROPERTIES
  ReconciledForever
  ImplementsLease
CHECK_DEADLOCK FALSE
