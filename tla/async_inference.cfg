SPECIFICATION FairSpec
CONSTANTS
  ChunkSize = 3
  Threshold = 1
  Poses = {p1, p2}
  Faults = {"link", "policy", "robot", "iteration"}
  MaxStep = 3
INVARIANTS
  TypeOK
  OnlyRacedRepeats
  PutNeverBlocks
PROPERTIES
  MustGoReturns
\* Past MaxStep, or with a thread ended by an exception, nothing is left to do.
CHECK_DEADLOCK FALSE
