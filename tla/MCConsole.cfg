\* A client, its sessions and the console.
SPECIFICATION FairSpec
CONSTANTS
  c1 = c1
  Ids <- MCIds
  CommandRoom = 2
  EventRoom = 1
  Notices = 1
  MaxSessions = 2
  Pings = 2
INVARIANTS
  TypeOK
  EventsTellTheState
  TableIsOfThisSession
PROPERTIES
  GoneEndsClient
  CommandEnds
\* A client that has ended has nothing left to do.
CHECK_DEADLOCK FALSE
