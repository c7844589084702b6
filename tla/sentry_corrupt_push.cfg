SPECIFICATION Spec
CONSTANTS
  UploadEvery = 1
  MaxEpisodes = 3
INVARIANT CorruptNeverPushed
\* The strategy is done when teardown has returned or raised.
CHECK_DEADLOCK FALSE
