SPECIFICATION FairSpec
CONSTANTS
  MaxTasks = 2
  MaxMishaps = 2
INVARIANTS ExpandedOnce WatcherRunsApart RunningIsExpanded
PROPERTIES DueIsRun
CHECK_DEADLOCK FALSE
