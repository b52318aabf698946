\* Three launches over two keys, two workers, up to two faults of any kind.
SPECIFICATION FairSpec
CONSTANTS
  Requests = {r1, r2, r3}
  Keys = {k1, k2}
  Media = {}
  None = None
  Workers = {w1, w2}
  Faults = {"crash", "interrupt", "create", "mark", "operation", "succeed", "final"}
  MaxFaults = 2
INVARIANTS TypeOK SingleFlight ActiveIsLive
PROPERTIES EndedForever ImplementsSingleFlight AcceptedEnds KeyFreed
\* Every request is made once, so the system stops when all are answered.
CHECK_DEADLOCK FALSE
