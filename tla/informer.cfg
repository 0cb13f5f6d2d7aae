\* One stream over one informer: changes, relists, schema changes,
\* reprojection, lag, terminal errors and reaping.
SPECIFICATION Spec
CONSTANTS
  a1 = a1
  a2 = a2
  s1 = s1
  Streams = {s1}
  Uids <- TwoUids
  Name <- OneName
  FirstLog <- FirstPod
  Capacity = 1
  MaxChanges = 3
  MaxUpsets = 2
CHECK_DEADLOCK FALSE
INVARIANTS
  TypeOK
  CacheIsServerAtVersion
  SnapshotsMatchHeaders
  ViewFollowsCache
  DeadIsAnnounced
  SubscriberHasInformer
PROPERTIES
  ViewCatchesUp
