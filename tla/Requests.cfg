SPECIFICATION FairSpec
CONSTANTS
  Reads = {g1}
  Writes = {p1, p2}
  MaxAttempts = 2
  Statuses = {200, 404, 503}
INVARIANTS
  TypeOK
  WrittenOnce
  ReadsRetried
PROPERTIES
  Settles
  KeepsContract
CHECK_DEADLOCK FALSE
