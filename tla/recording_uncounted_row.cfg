SPECIFICATION Spec
CONSTANTS
  ChunkSize = 2
  BufferSize = 2
  Lengths = {1, 2}
  MaxSaves = 3
  MaxSessions = 2
  None = None
INVARIANT RowsAreCounted
\* The bounds on episodes and sessions end a behaviour.
CHECK_DEADLOCK FALSE
