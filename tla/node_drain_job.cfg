SPECIFICATION Spec
CONSTANTS
  a1 = a1
  a2 = a2
  b = b
  r1 = r1
  Requests = {r1}
  Pods <- ThreePods
  Name <- ThreeNames
  Class <- Mixed
  Options <- TimedOnly
  Powers = {"shutdown"}
  MaxAdmin = 1
  MaxFlaps = 0
  MaxWaitTicks = 0
INVARIANT PowerOnlyOnceDrained
INVARIANT AcceptedCancelIsHonoured
INVARIANT ProgressBeforePower
CHECK_DEADLOCK FALSE
