\* Two jobs on two nodes and one stream over a one-slot channel.
SPECIFICATION Spec
CONSTANTS
  alice = alice
  bob = bob
  nodeA = nodeA
  nodeB = nodeB
  tab1 = tab1
  tab2 = tab2
  Owners = {alice}
  Targets = {nodeA, nodeB}
  Streams = {tab1}
  ProgressKinds = {"Evicted"}
  Capacity = 1
  MaxJobs = 2
  MaxEvents = 2
CHECK_DEADLOCK FALSE
INVARIANTS
  DeliveredIsPrefix
  OneTerminalLast
  TargetExclusive
  CancelWins
  EndedIsComplete
PROPERTIES
  LogSpec
  StreamOfFinishedJobEnds
