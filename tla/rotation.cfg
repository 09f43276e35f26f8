CONSTANTS
  Processes = {p, q}
  Records = {r1, r2, r3}
  Damaged = {r3}
  BatchSize = 2
  MaxVersion = 2
  MaxDeks = 2
SPECIFICATION KeyRotationSpec
INVARIANTS EverythingReadable
PROPERTIES WorkerEnds
CHECK_DEADLOCK FALSE
