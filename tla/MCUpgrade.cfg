SPECIFICATION FairSpec
CONSTANTS
  Machines <- MCMachines
  Scripts <- MCScripts
INVARIANTS
  TypeOK
  TornHasACause
  UnitTellsTheService
  ProgramIsSound
PROPERTIES
  ScriptsEnd
\* With a broken program on disk and nothing running, nothing is left to do.
CHECK_DEADLOCK FALSE
