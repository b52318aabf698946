CONSTANTS
  Ids = {1, 2}
  Releases = {"e", "b", "d"}
  Units = {1, 2}
  Contents <- MCContents
  Batches = {"b", "d"}
  Deferred = {"d"}
  Triggers = {q1, q2}
  Actors = {a1}
  NoRelease = NoRelease
  NoId = NoId
  MaxRequests = 1
  Faults = {"add", "call", "db", "import", "disabled", "torrent", "crash"}
  MaxFaults = 1
SPECIFICATION QueueSpec
INVARIANTS QueueTypeOK GateInv
PROPERTIES OnlyPhantomsFail ImplementsReservation
SYMMETRY MCSymmetry
CHECK_DEADLOCK FALSE
