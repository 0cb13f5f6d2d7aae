\* A drain window that Escape closes while its job runs.
SPECIFICATION FairSpec
CONSTANTS
  MaxJobs = 2
  MaxProgress = 1
  MaxWatchers = 1
  MaxOrphans = 1
  MaxUpsets = 1
PROPERTIES
  ClosedIsWatched
CHECK_DEADLOCK FALSE
