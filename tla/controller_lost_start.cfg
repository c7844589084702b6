SPECIFICATION FairSpec
CONSTANTS
  Questions = {}
  Goals = {}
  Subtasks = {}
  InitialTask = launch
  NewTasks = {}
  None = None
PROPERTIES
  AcceptedStartRuns
\* serve() is one-shot: once it has returned nothing moves any more.
CHECK_DEADLOCK FALSE
