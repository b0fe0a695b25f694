\* The client ends only when it is told to: it does not.
SPECIFICATION Spec
CONSTANTS
  c1 = c1
  Ids <- MCIds
  CommandRoom = 4
  EventRoom = 2
  Notices = 1
  MaxSessions = 2
  Pings = 2
PROPERTY
  EndsOnlyWhenTold
CHECK_DEADLOCK FALSE
