\* Two requests and a reaper: one replica with two users and room for one
\* backend, two replicas with one user and with two.
SPECIFICATION Spec
CONSTANTS
  r1 = r1
  r2 = r2
  u1 = u1
  u2 = u2
  b1 = b1
  b2 = b2
  Replicas = {r1, r2}
  Subjects = {u1, u2}
  Browsers = {b1, b2}
  Tasks = {1, 2, 3}
  LockIds = {1, 2, 3, 4}
  Backends = {1, 2, 3, 4}
  Reaper = 3
  ReaperAt = r1
  SubjectOf <- UserOf
  Home <- Sticky
  Deployments <- Deployed
  Cap = 1
  MaxTokens = 3
CHECK_DEADLOCK FALSE
INVARIANTS
  TypeOK
  OneAtATime
  SingleFlight
  EntrantStays
  SessionSurvives
PROPERTIES
  BackendIsKept
  RequestEnds
