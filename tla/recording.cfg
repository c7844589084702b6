SPECIFICATION RecordingSpec
CONSTANTS
  NumEpisodes = 2
  UploadEvery = 1
  Stride = 2
  MaxCorrections = 2
  MaxEpisodes = 1
  MaxQueued = 1
  MaxFrames = 2
  MaxBytes = 7
  FrameBytes = 2
  MaxTicks = 5
  ChunkSize = 2
  BufferSize = 2
  Lengths = {1, 2}
  MaxSaves = 3
  MaxSessions = 2
  None = None
INVARIANTS
  RecordingTypeOK
  CorrectionsStayWhole
  EndedCorrectionIsSaved
  UnpushedRemembered
  EpisodesAreStretches
  RingKeepsWindow
  FilesMatchMetadata
  FinalizedIsComplete
PROPERTIES
  StopEnds
CHECK_DEADLOCK FALSE
