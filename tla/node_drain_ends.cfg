\* One drain, with or without a power action and a deadline: it comes to an end
\* and leaves the node as it found it.
SPECIFICATION Spec
CONSTANTS
  a1 = a1
  a2 = a2
  b = b
  r1 = r1
  Requests = {r1}
  Pods <- TwoPods
  Name <- TwoNames
  Class <- Workloads
  Options <- TwoOptions
  Powers = {"none", "reboot", "shutdown"}
  MaxAdmin = 0
  MaxFlaps = 1
  MaxWaitTicks = 1
CHECK_DEADLOCK FALSE
INVARIANTS
  RestoresPreDrainCordon
PROPERTIES
  CancelEndsJob
  TimedJobEnds
