SPECIFICATION ControlLoopSpec
CONSTANTS
  g1 = g1
  g2 = g2
  x = x
  none = none
  s1 = s1
  s2 = s2
  w = w
  Groups <- MCGroups
  Control = none
  Data <- MCData
  MaxGroupSize = 2
  MaxControl = 0
  Senders <- MCSenders
  Watchers <- MCWatchers
  Receiver = receiver
  Free = free
  MessageOf <- MCMessageOf
INVARIANTS
  TypeOK
  WakeupsAreLostOnlyInTheGap
PROPERTIES
  ImplementsQueue
  PollingDelivers
\* A dropped receiver leaves its senders blocked or finished.
CHECK_DEADLOCK FALSE
