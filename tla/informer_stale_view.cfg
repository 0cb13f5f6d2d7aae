\* Deltas of the watch and of reprojection in an order that is not the cache's.
SPECIFICATION Spec
CONSTANTS
  a1 = a1
  a2 = a2
  s1 = s1
  Streams = {s1}
  Uids <- TwoUids
  Name <- OneName
  FirstLog <- FirstPod
  Capacity = 1
  MaxChanges = 3
  MaxUpsets = 1
CHECK_DEADLOCK FALSE
INVARIANTS
  ViewIsCache
