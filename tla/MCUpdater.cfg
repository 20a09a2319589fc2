SPECIFICATION FairSpec
CONSTANTS
  r1 = r1
  c2 = c2
  r2 = r2
  r3 = r3
  Installed = r1
  Broken = Broken
  NoFile = NoFile
  Periodic = Periodic
  Now = Now
  MaxPublished = 2
  MaxFaults = 3
  Releases <- MCReleases
  Core <- MCCore
  Units <- MCUnits
INVARIANTS
  TypeOK
  WholeBinaryLeft
PROPERTIES
  OnlyForward
  UpToDate
CHECK_DEADLOCK FALSE
