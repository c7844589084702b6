SPECIFICATION StationSpec
CONSTANTS
  UploadEvery = 2
  MaxEpisodes = 6
  MaxFailures = 0
  MaxConnects = 2
  MaxFrames = 4
INVARIANTS
  TypeOK
  UnpushedRemembered
  AllPushedAtTheEnd
  UploadAlone
  CallerGetsFreshFrames
PROPERTIES
  NoSaveAfterFailure
  PoisonedNeverPushed
  TeardownEnds
\* The strategy is done when teardown has returned or raised; the bound on its
\* connections ends a behaviour of the camera.
CHECK_DEADLOCK FALSE
