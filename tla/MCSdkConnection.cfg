SPECIFICATION Spec
CONSTANTS
  Existing <- OneBefore
  MaxCalls = 2
  MaxSessions = 2
INVARIANTS
  TypeOK
  AnswersAreOnTheirWay
  QuietAnswersAreOwn
  EndpointsComeBack
