SPECIFICATION FairSpec
CONSTANTS
  Questions = {q1}
  Goals = {}
  Subtasks = {}
  InitialTask = launch
  NewTasks = {}
  None = None
PROPERTIES
  StopEndsServe
  ResetIsServed
  QuestionIsReported
\* serve() is one-shot: once it has returned nothing moves any more.
CHECK_DEADLOCK FALSE
