\* Safety, refinement and liveness of the fair queue.
SPECIFICATION FairSpec
CONSTANTS
  g1 = g1
  g2 = g2
  g3 = g3
  x = x
  y = y
  none = none
  Groups <- MCGroups
  Data <- MCData
  Control = none
  MaxGroupSize = 2
  MaxControl = 1
INVARIANTS
  TypeOK
PROPERTIES
  PopBringsOthersCloser
  ImplementsFifo
  ServedWhileGroupsStay
