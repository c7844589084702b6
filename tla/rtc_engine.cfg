SPECIFICATION PolicySpec
CONSTANTS
  Modes = {"trained", "guided", "off"}
  ChunkSize = 3
  Threshold = 2
  TrainMax = 2
  Warmups = 1
  MaxErrors = 2
  MaxDiscards = 2
  Instructions = {"fold", "stack"}
  MaxChunks = 4
  MaxResets = 3
  Period = 2
  WindowSize = 3
  Required = 2
  ForwardWindow = 2
  MaxAdvance = 2
  StayPenalty = 1
  SkipPenalty = 1
  DemoFrames = 4
  Horizon = 6
  Costs = {0, 2}
  MaxReplans = 4
  Capacity = 2
  OfflineFrames = 2
  Warmup = 2
  MaxWorkers = 3
  PolicyParts = 2
  MaxSteps = 7
  MaxVersions = 2
  MaxLives = 2
INVARIANTS
  TypeOK
  NoActionFromBeforeReset
  LabelIsGenerator
  TrainedPrefixIsBacked
  WarmupNeverActed
  MatchIsOptimal
  LearnerFollowsActor
PROPERTIES
  PlaysForward
\* The bounds on chunks and resets, and a dead RTC thread, end a behaviour.
CHECK_DEADLOCK FALSE
