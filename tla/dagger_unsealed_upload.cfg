SPECIFICATION Spec
CONSTANTS
  NumEpisodes = 1
  UploadEvery = 1
  Stride = 1
  MaxCorrections = 1
  MaxEpisodes = 1
  MaxQueued = 1
INVARIANT HubHoldsFinalDataset
CHECK_DEADLOCK FALSE
