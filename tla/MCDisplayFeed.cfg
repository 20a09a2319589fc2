SPECIFICATION FairSpec
CONSTANTS
  x = x
  page = page
  loop = loop
  viewer = viewer
  ann = ann
  bob = bob
  NoItem = NoItem
  Loop = loop
  QueueCap = 2
  MaxEvents = 3
  Items <- MCItems
  Pages <- MCPages
  Viewers <- MCViewers
  Admins <- MCAdmins
INVARIANTS
  TypeOK
  LastWordIsCurrent
  SettingIsStored
PROPERTIES
  CatchesUp
