\* Fair queuing without a hypothesis about the traffic.
SPECIFICATION FairSpec
CONSTANTS
  g1 = g1
  g2 = g2
  g3 = g3
  x = x
  y = y
  none = none
  Groups <- MCGroups
  Data <- MCOneDatum
  Control = none
  MaxGroupSize = 2
  MaxControl = 0
PROPERTIES
  EveryChannelIsServed
