SPECIFICATION Spec
CONSTANTS
  Questions = {q1}
  Goals = {g1}
  Subtasks = {s1}
  InitialTask = launch
  NewTasks = {n1}
  None = None
INVARIANTS
  TypeOK
  AskedOnceReportedOnce
  InterruptNeverLost
  ChannelOnlyInSegment
  OneTurnAtATime
PROPERTIES
  OnlyLiveSequencerSteers
  CancelledStartNeverRuns
  ImplementsQuestionDesk
\* serve() is one-shot: once it has returned nothing moves any more.
CHECK_DEADLOCK FALSE
