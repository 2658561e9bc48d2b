\* A one-slot queue and two pending events; one node, every target and both jobs:
\* attempts, answers and commands are lost freely.  Reboots nobody asked for matter
\* to the verification alone.
SPECIFICATION MCSpec
CONSTANTS
  QueueCapacity = 1
  PendingCapacity = 2
  MaxSequence = 5
  Samples = {s1}
  InvalidSample = bad
  BreakReasons = {"SensorOverflow"}
  Nodes <- MCOne
  Targets = {"Idle","Maintenance","Recording"}
  Jobs = {"converge","verify"}
  OrderlyAttempts = 2
  RestartAttempts = 2
  RestartCycles = 1
  MaxBoots = 3
  Spontaneous = {"verify"}
INVARIANTS StreamExact SettledIsReal
PROPERTIES StopDelivers StopEnds GroupSettles
CHECK_DEADLOCK FALSE
