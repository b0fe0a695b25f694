SPECIFICATION FairSpec
CONSTANTS
  dav = dav
  craft = craft
  confA = confA
  confB = confB
  Guids = {dav, craft}
  Configs = {confA, confB}
  KindOf <- MCKindOf
  MaxSpawns = 2
INVARIANTS
  InstallationIsWhole
  OnlyOthersHideIt
PROPERTIES
  DuplicatesNeverBounce
  DroppedHandlesEnd
  FailuresAreNoticed
