SPECIFICATION Spec
CONSTANTS
  Existing <- OneBefore
  MaxCalls = 1
  MaxSessions = 1
INVARIANTS
  RegisterReturnsOwn
