CONSTANTS
  Ids = {1, 2}
  Releases = {"e", "b"}
  Units = {1, 2}
  Contents <- MCContents
  Batches = {"b"}
  Deferred = {"b"}
  Triggers = {q1}
  Actors = {a1}
  NoRelease = NoRelease
  NoId = NoId
  MaxRequests = 0
  Faults = {"crash", "add", "db"}
  MaxFaults = 1

  Writers = {w1, w2}
  Movers = {w2}
  Recorders = {w1, w2}
  Before = Before
  NoFile = NoFile
  Partial = Partial
  MaxFileFaults = 2

  Immediate = {n1}
  Coalesced = {c1, c2}
  Capacity = 2
  NoFiber = NoFiber
  Notice = Notice
  Crowded = {2}
  MaxProgressFaults = 1

  Folders = {f1, f2}
  MaxAttempts = 2
  Starters = {s1, s2}
  NoFolder = NoFolder
  MaxScanRequests = 2
  MaxScanFaults = 1

  Generations = {1, 2, 3}
  Manuals = {m1}
  Nobody = Nobody
  MaxWorkerFaults = 1
SPECIFICATION ComponentsSpec
INVARIANTS
  ComponentsTypeOK
  DestinationWhole CurrentSurvives CrashKeepsContent
  DrainFresh ClientSettles NobodyAbandoned
  OneScan JobRowHonest
  JournalHonest FlagsHonest DaemonsKnown
PROPERTIES
  StatusCatchesUp PhantomsFail
  RunnerInOrder Answered
  PauseRespected ScanEnds
  KeepsRunning
CHECK_DEADLOCK FALSE
