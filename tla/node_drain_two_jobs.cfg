SPECIFICATION Spec
CONSTANTS
  a1 = a1
  a2 = a2
  b = b
  r1 = r1
  r2 = r2
  Requests = {r1, r2}
  Pods <- OnePod
  Name <- OneName
  Class <- OneClass
  Options <- OneOption
  Powers = {"none", "reboot"}
  MaxAdmin = 0
  MaxFlaps = 0
  MaxWaitTicks = 0
INVARIANT CordonedWhileWorking
SYMMETRY Interchangeable
CHECK_DEADLOCK FALSE
