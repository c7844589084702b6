SPECIFICATION FairSpec
CONSTANTS
  ChunkSize = 3
  Threshold = 1
  Poses = {p1, p2}
  Faults = {}
  MaxStep = 3
PROPERTY StarvationEnds
\* Past MaxStep, or with a thread ended by an exception, nothing is left to do.
CHECK_DEADLOCK FALSE
