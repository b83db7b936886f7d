\* Two runs of the process, a queue of two, the last two records kept, and one
\* frame whose writes to the log may fail.
CONSTANTS
  QueueLimit = 2
  RecentLimit = 2
  MaxDetections = 2
  MaxFrames = 3
  MaxRuns = 2
  MaxCuts = 1
SPECIFICATION FairSpec
INVARIANTS
  RecordsHaveImages
  RecentIsNewest
  LogInOrder
  LinesSpoiltByCutsOnly
  EveryTaskAccounted
  WholeFrames
PROPERTIES
  AppendOnly
  TasksMove
  StopReturns
CHECK_DEADLOCK FALSE
