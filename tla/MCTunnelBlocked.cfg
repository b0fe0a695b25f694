\* The loop comes back to its select: with smaller inboxes it does not.
SPECIFICATION FairSpec
CONSTANTS
  c1 = c1
  Channels <- OneChannel
  Window = 2
  MaxRead = 2
  InboxSize = 1
  GroupSize = 2
  ServerWindow = 2
  NetSize = 1
  ServiceBytes <- ThreeBytes
  ServerBytes <- ThreeBytes
PROPERTY
  LoopKeepsTurning
CHECK_DEADLOCK FALSE
