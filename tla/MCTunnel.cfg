\* The data path of a channel, with an inbox of fewer messages than the
\* server's window has bytes, as in the code.
SPECIFICATION FairSpec
CONSTANTS
  c1 = c1
  Channels <- OneChannel
  Window = 2
  MaxRead = 2
  InboxSize = 1
  GroupSize = 2
  ServerWindow = 2
  NetSize = 1
  ServiceBytes <- ThreeBytes
  ServerBytes <- ThreeBytes
INVARIANTS
  TypeOK
  WindowsConserved
  WaitersAreOwedAcks
  SleepsOnlyIfMissed
PROPERTIES
  OnlyCirclesStopTheLoop
  UploadGoesOn
  EofEndsHandler
\* When the channel is over nothing is left to do.
CHECK_DEADLOCK FALSE
