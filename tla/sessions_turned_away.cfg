\* One browser that keeps to one of two replicas, and no failure.
SPECIFICATION Spec
CONSTANTS
  r1 = r1
  r2 = r2
  u1 = u1
  u2 = u2
  b1 = b1
  b2 = b2
  Replicas = {r1, r2}
  Subjects = {u1, u2}
  Browsers = {b1, b2}
  Tasks = {1, 2, 3}
  LockIds = {1, 2, 3, 4}
  Backends = {1, 2, 3, 4}
  Reaper = 3
  ReaperAt = r1
  SubjectOf <- UserOf
  Home <- Sticky
  Deployments <- OneByOne
  Cap = 1
  MaxTokens = 3
CHECK_DEADLOCK FALSE
INVARIANTS
  NeverTurnedAway
