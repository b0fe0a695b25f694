\* The forwarders of a UDP channel, with queues that do fill up.
SPECIFICATION FairSpec
CONSTANTS
  v1 = v1
  v2 = v2
  f1 = f1
  f2 = f2
  Visitors <- MCVisitors
  Forwarders <- MCForwarders
  None = none
  Window = 1
  QueueSize = 1
  Packets = 3
  Replies = 2
INVARIANTS
  TypeOK
  CapacityShared
  LiveForwardersAreRegistered
PROPERTIES
  
  CloseEndsEverything
  
\* When the channel is closed nothing is left to do.
CHECK_DEADLOCK FALSE
