SPECIFICATION Spec
CONSTANTS
  r1 = r1
  c2 = c2
  r2 = r2
  r3 = r3
  Installed = r1
  Broken = Broken
  NoFile = NoFile
  Periodic = Periodic
  Now = Now
  MaxPublished = 1
  MaxFaults = 1
  Releases <- MCReleases
  Core <- MCCore
  Units <- ShippedUnit
INVARIANTS
  StartsAgain
CHECK_DEADLOCK FALSE
