\* Nothing fails and nobody interferes: one release is fetched, imported, and fetched again.
CONSTANTS
  Ids = {1, 2}
  Releases = {"e", "d"}
  Units = {1, 2}
  Contents <- MCContents
  Batches = {"d"}
  Deferred = {"d"}
  Triggers = {q1}
  Actors = {a1}
  NoRelease = NoRelease
  NoId = NoId
  MaxRequests = 0
  Faults = {}
  MaxFaults = 0
SPECIFICATION QueueSpec
INVARIANT RefetchNeverBlocks
CHECK_DEADLOCK FALSE
