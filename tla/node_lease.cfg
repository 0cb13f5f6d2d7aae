\* Two replicas, each with a drain job and a direct Talos action on the node.
SPECIFICATION Spec
CONSTANTS
  pod1 = pod1
  pod2 = pod2
  pod3 = pod3
  Pods = {pod1, pod2}
  Slots = {"drain", "direct"}
  DrainSlots = {"drain"}
  MaxAttempts = 2
  LossThreshold = 1
  Absent = Absent
  Free = Free
CHECK_DEADLOCK FALSE
INVARIANTS
  Exclusion
PROPERTIES
  NeverStolenFromLivePod
  OvertakenDrainStops
